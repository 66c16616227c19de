-------------------------- MODULE EmergencyManager --------------------------
(***************************************************************************)
(* The emergency manager (Manager.java): one thread handles the            *)
(* fire_update messages of its socket in order, keeps the sensors that     *)
(* burn with the trucks it has sent to each, and answers with send_truck   *)
(* messages.  Its socket is open before it has a handler: what is read     *)
(* until then is thrown away.                                              *)
(*                                                                         *)
(* A handler runs to its end before the next one starts.  The only thing   *)
(* it reads from outside is the reply of GET /api/trucks, so the whole     *)
(* handler is one step, taken at the instant the server serves that        *)
(* request.  The messages it sends are then on their way: the server has   *)
(* not seen them.                                                          *)
(***************************************************************************)
EXTENDS FireDomain, FiniteSetsExt, SequencesExt

VARIABLES
    emIntensity,    \* Manager.sensors: 0 for a sensor that is not in the map
    emTrucks,       \* Sensor.trucks: the Truck objects sent to the sensor
    emHandler       \* WebSocketClientEndpoint.messageHandler is set, and the
                    \*   thread of the socket sees it

emVars == <<emIntensity, emTrucks, emHandler>>

\* Truck has no equals(): each GET makes new objects, and a HashSet can hold
\* several of them for one truck.  An object is a truck and a copy number.
TruckObjects == Trucks \X (1 .. MaxCopies)

\* Truck.getCapacity
TotalCapacity(objects) == MapThenSumSet(LAMBDA o : Capacity[o[1]], objects)

\* Sensor.requireHelp, for a sensor of the map
RequireHelp(s) == emIntensity[s] > TotalCapacity(emTrucks[s])

\* Mutant: one truck more, `totalCapacity <= capacity`.
SuitableTrucksAndOne(objects, capacity) ==
    IF capacity <= 0 \/ objects = {}
    THEN {{}}
    ELSE {required \in SUBSET objects :
            /\ required = objects \/ TotalCapacity(required) > capacity
            /\ \E last \in required : TotalCapacity(required \ {last}) <= capacity}

\* What findSuitableTrucks can return: trucks are taken closest first, until
\* the capacity is reached or there are none left.
SuitableTrucks(objects, capacity) ==
    IF capacity <= 0 \/ objects = {}
    THEN {{}}
    ELSE {required \in SUBSET objects :
            /\ required = objects \/ TotalCapacity(required) >= capacity
            /\ \E last \in required : TotalCapacity(required \ {last}) < capacity}

\* The objects getTrucks makes: those numbers no object in use carries.
Referenced == UNION {emTrucks[s] : s \in Sensors}
NewObjects ==
    {new \in [Trucks -> 1 .. MaxCopies] :
        \A t \in Trucks :
            /\ <<t, new[t]>> \notin Referenced
            /\ \A n \in 1 .. new[t] - 1 : <<t, n>> \in Referenced}

\* sendTrucks for each sensor in turn: one sensor's trucks leave together, in
\* the order a HashSet happens to have.
OrderSequences(sent) ==
    LET pairs == {p \in TruckObjects \X Sensors : p[1] \in sent[p[2]]}
        Together(q) == \A i, j, k \in DOMAIN q :
                          i < j /\ j < k /\ q[i][2] = q[k][2] => q[j][2] = q[i][2]
    IN {[i \in DOMAIN q |-> [truck |-> q[i][1][1], sensor |-> q[i][2]]] :
            q \in {r \in SetToSeqs(pairs) : Together(r)}}

\* sendTruck: the object joins the sensor's set, the message leaves.
SendTrucks(sent, kept) ==
    /\ emTrucks' = [s \in Sensors |-> kept[s] \cup sent[s]]
    /\ \E orders \in OrderSequences(sent) : toServer' = toServer \o orders

\* What the trucks at s lack for a fire of that intensity.
Lacking(s, intensity) == intensity - TotalCapacity(emTrucks[s])

\* The fire is out.  Its trucks are offered to each sensor that needs help,
\* nearest first; `available` is not reduced from one sensor to the next.
FreeSensor(s) ==
    LET inNeed == {x \in Sensors \ {s} : RequireHelp(x)}
        offered == emTrucks[s]
    IN /\ emIntensity' = [emIntensity EXCEPT ![s] = 0]
       /\ \E sent \in [Sensors -> SUBSET offered] :
            /\ \A x \in Sensors :
                  sent[x] \in IF x \in inNeed THEN SuitableTrucks(offered, Lacking(x, emIntensity[x]))
                              ELSE {{}}
            /\ SendTrucks(sent, [emTrucks EXCEPT ![s] = {}])

\* The fire burns.  If its trucks do not cover it, ask the server which
\* trucks are available and send enough of them.
UpdateSensor(s, intensity) ==
    /\ emIntensity' = [emIntensity EXCEPT ![s] = intensity]
    /\ \/ /\ Lacking(s, intensity) <= 0                  \* !requireHelp()
          /\ UNCHANGED <<emTrucks, toServer>>
       \/ /\ Lacking(s, intensity) > 0
          /\ \E new \in NewObjects :
               LET filtered == {<<t, new[t]>> : t \in {u \in Trucks : available[u]}}
               IN \E toSend \in SuitableTrucks(filtered, Lacking(s, intensity)) :
                     SendTrucks([x \in Sensors |-> IF x = s THEN toSend ELSE {}], emTrucks)

\* Mutant: the request is made before setIntensity.
GetTrucksFailsFirst(s, intensity) ==
    /\ Lacking(s, intensity) > 0
    /\ UNCHANGED <<emIntensity, emTrucks, toServer>>

\* GET /api/trucks fails: the exception is printed, the update is done with.
GetTrucksFails(s, intensity) ==
    /\ Lacking(s, intensity) > 0
    /\ emIntensity' = [emIntensity EXCEPT ![s] = intensity]
    /\ UNCHANGED <<emTrucks, toServer>>

\* Mutant: what waits behind the message is thrown away with it.
ReceiveUpdateDropsRest ==
    /\ Live(emConn) /\ emHandler
    /\ toEM # <<>>
    /\ Len(toServer) < MaxPending
    /\ toEM' = <<>>
    /\ UNCHANGED <<emHandler, toSim, fromSim, emConn, simConn, available>>

\* addMessageHandler, once the constructor has connected.
AddMessageHandler ==
    /\ Live(emConn) /\ ~emHandler
    /\ emHandler' = TRUE
    /\ UNCHANGED <<emIntensity, emTrucks, channels, available>>

\* onMessage without a handler.
IgnoreUpdate ==
    /\ Live(emConn) /\ ~emHandler
    /\ toEM # <<>>
    /\ toEM' = Tail(toEM)
    /\ UNCHANGED <<emVars, toServer, toSim, fromSim, emConn, simConn, available>>

\* handleMessage, handleAction: the next fire_update.
ReceiveUpdate ==
    /\ Live(emConn) /\ emHandler
    /\ toEM # <<>>
    /\ Len(toServer) < MaxPending
    /\ toEM' = Tail(toEM)
    /\ UNCHANGED <<emHandler, toSim, fromSim, emConn, simConn, available>>

ManageFireUpdate ==
    /\ ReceiveUpdate
    /\ IF Head(toEM).intensity <= 0
       THEN FreeSensor(Head(toEM).sensor)
       ELSE UpdateSensor(Head(toEM).sensor, Head(toEM).intensity)

ManageFireUpdateFails ==
    /\ ReceiveUpdate
    /\ Head(toEM).intensity > 0
    /\ GetTrucksFails(Head(toEM).sensor, Head(toEM).intensity)

\* A process that starts, or has ended: no sensors, and no handler yet.
EMInit  == /\ emIntensity = [s \in Sensors |-> 0]
           /\ emTrucks = [s \in Sensors |-> {}]
           /\ emHandler = FALSE
EMReset == /\ emIntensity' = [s \in Sensors |-> 0]
           /\ emTrucks' = [s \in Sensors |-> {}]
           /\ emHandler' = FALSE

=============================================================================
