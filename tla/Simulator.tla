----------------------------- MODULE Simulator -----------------------------
(***************************************************************************)
(* The threads of the simulator (src/Simulator): one that lights fires,    *)
(* one for each fire, one for each drive of a truck to a fire, and that of *)
(* the web socket, which takes the orders.  They share sensors and trucks  *)
(* without a lock.  The socket stays open: nothing reconnects it.          *)
(*                                                                         *)
(* A truck is at its station, next to a sensor or on a road.  The set of a *)
(* sensor finds a truck by a hash of its place, so the places that matter  *)
(* are those where an order can find it: the Station it is created at,     *)
(* Home (the nearest point of a road, where the drives to the station      *)
(* end), a sensor, and road k, where it drives between its k-th order and  *)
(* the next.                                                               *)
(*                                                                         *)
(* Truck.setSensor is called by the thread of the web socket and by those  *)
(* of the fires, maybe of the same truck at once.  Each time it reads or   *)
(* writes something they share is a step; a change of a HashSet takes two, *)
(* and what is left of one that another overlaps is not defined.           *)
(***************************************************************************)
EXTENDS Integers, Sequences

CONSTANTS
    Sensors, Trucks, Home, NoSensor, NoTruck,
    WebSocket,          \* the thread that takes the orders
    MaxIntensity,       \* MAX_INTENSITY
    MaxInitial,         \* MAX_INITIAL_INTENSITY
    MaxFires,           \* bound: fires at a sensor
    MaxOrders           \* bound: orders for a truck

ASSUME IntensityType == MaxIntensity \in Nat /\ MaxInitial \in 1 .. MaxIntensity - 1
ASSUME BoundsType    == MaxFires \in Nat /\ MaxOrders \in [Trucks -> Nat]
ASSUME PlacesType    ==
    /\ Sensors \cap Nat = {} /\ Home \notin Sensors \cup Nat
    /\ NoSensor \notin Sensors /\ NoTruck \notin Trucks /\ WebSocket \notin Sensors

Station == 0

VARIABLES
    available, fires,           \* SensorHolder: sensors without a fire; bound
    intensity, crew,            \* Sensor; crew is its `trucks`, each with what
                                \*   its hash was made of when it was added
    fire,                       \* the thread of a sensor's fire
    place, sensor, listeners,   \* Truck; listeners are counted
    destination, running,       \* TruckHandler
    drive,                      \* the threads started for a truck, in order
    ws,                         \* the thread of the web socket
    call,                       \* the call of setSensor a thread is in
    reported,                   \* history: trucks that sent truck_available
    stranded,                   \* history: trucks whose last route or order failed
    raced                       \* history: sensors whose set two threads changed at once

sensorVars == <<available, fires, intensity>>
truckVars  == <<place, sensor, listeners, destination, running, drive>>
history == <<reported, stranded, raced>>
vars == <<sensorVars, crew, fire, truckVars, ws, call, history>>

\* The threads that call setSensor: a fire's has the name of its sensor.
Callers == Sensors \cup {WebSocket}

NoFire  == [pc |-> "none", touched |-> FALSE, left |-> {}]
NoOrder == [pc |-> "idle", truck |-> NoTruck, to |-> NoSensor]
NoItem  == <<NoTruck, Station, NoSensor>>
NoCall  == [pc |-> "idle", truck |-> NoTruck, to |-> NoSensor, changed |-> FALSE,
            op |-> "none", at |-> NoSensor, item |-> NoItem, old |-> {}, torn |-> FALSE,
            next |-> "idle", todo |-> 0, touched |-> FALSE, ticks |-> 0]

Init ==
    /\ available = Sensors /\ fires = [s \in Sensors |-> 0]
    /\ intensity = [s \in Sensors |-> 0] /\ crew = [s \in Sensors |-> {}]
    /\ fire = [s \in Sensors |-> NoFire]
    /\ place = [t \in Trucks |-> Station] /\ sensor = [t \in Trucks |-> NoSensor]
    /\ listeners = [t \in Trucks |-> 0]
    /\ destination = [t \in Trucks |-> NoSensor]
    /\ running = [t \in Trucks |-> FALSE]
    /\ drive = [t \in Trucks |-> <<>>]
    /\ ws = NoOrder /\ call = [c \in Callers |-> NoCall]
    /\ reported = {} /\ stranded = {} /\ raced = {}

----------------------------------------------------------------------------
(* The set of trucks of a sensor is a HashSet: it finds an element by its  *)
(* hash, an iterator fails when the set has changed, and a change that     *)
(* another has overlapped may lose any element or bring one back.          *)

\* Mutant: a hash that depends on the truck alone.
ItemOfIdentity(t) == <<t, Station, NoSensor>>

\* hashCode: the truck, its place and its sensor as they are now.
ItemOf(t) == <<t, place[t], sensor[t]>>

\* What a change h finds: the set, or any part of what was in it since h began.
Found(h) == IF h.torn THEN SUBSET h.old ELSE {h.old}

\* add, remove
Changed(base, h) == IF h.op = "add" THEN base \cup {h.item} ELSE base \ {h.item}

\* The calls of which a change of a set is overtaken by one that leaves `new`.
Overtaken(s, new) ==
    [x \in Callers |->
        IF call[x].pc = "change" /\ call[x].at = s
        THEN [call[x] EXCEPT !.old = @ \cup new, !.torn = TRUE] ELSE call[x]]

\* The fire of a sensor when the set of its trucks changes: if it reads the
\* set it will notice.
Touch(s) == [fire EXCEPT ![s].touched = @ \/ fire[s].pc \in {"look", "next", "set"}]

----------------------------------------------------------------------------
(* Driving: sendTruckTo.  A drive passes a road and ends at its            *)
(* destination: two ticks.  One of less than ten seconds has none, and the *)
(* index of its last position is -1.  Sensors and stations are not so      *)
(* close; a road may be so close to anything.                              *)

DriveTicks == 2

Far(t, to) == place[t] # to /\ ~(place[t] = Station /\ to = Home)

Near(t, to) == ~Far(t, to) \/ place[t] \in Nat \ {Station}

\* The trucks left where they are when a drive of t does not begin.
Left(t, to) == IF Far(t, to) THEN stranded \cup {t} ELSE stranded

\* One tick of a drive, with `ticks` left.
Advance(t, to, ticks) ==
    /\ ticks > 0 /\ running[t]
    /\ place' = [place EXCEPT ![t] = IF ticks > 1 THEN Len(drive[t]) ELSE to]

\* The loop ends.
DriveEnds(t, ticks) == ticks = 0 \/ ~running[t]

----------------------------------------------------------------------------
(* The threads of the trucks: TruckHandler.run. *)

\* run, up to the first tick of its drive.  An exception ends the thread: the
\* request for the route fails, or the drive has no ticks.
BeginRun(t, n) ==
    /\ drive[t][n].pc = "started"
    /\ \/ /\ Far(t, destination[t])
          /\ drive' = [drive EXCEPT ![t][n] =
                          [@ EXCEPT !.pc = "drive", !.to = destination[t], !.ticks = DriveTicks]]
          /\ stranded' = stranded \ {t}
       \/ /\ drive' = [drive EXCEPT ![t][n].pc = "over"]
          /\ stranded' = Left(t, destination[t])
    /\ UNCHANGED <<sensorVars, crew, fire, place, sensor, listeners, destination, ws, call, reported, raced>>

\* Mutant: only the first run of a handler sets running.
FirstStartDrive(t, n) ==
    /\ running' = [running EXCEPT ![t] = @ \/ n = 1]
    /\ BeginRun(t, n)

StartDrive(t, n) ==
    /\ running' = [running EXCEPT ![t] = TRUE]
    /\ BeginRun(t, n)

Drive(t, n) ==
    /\ drive[t][n].pc = "drive"
    /\ Advance(t, drive[t][n].to, drive[t][n].ticks)
    /\ drive' = [drive EXCEPT ![t][n].ticks = @ - 1]
    /\ UNCHANGED <<sensorVars, crew, fire, sensor, listeners, destination, running, ws, call, history>>

\* The truck has arrived or has been stopped: it listens, and the thread ends.
\* The listeners are a HashSet too.
StartListening(t, n) ==
    /\ drive[t][n].pc = "drive"
    /\ DriveEnds(t, drive[t][n].ticks)
    /\ drive' = [drive EXCEPT ![t][n].pc = "listen", ![t][n].known = listeners[t]]
    /\ UNCHANGED <<sensorVars, crew, fire, place, sensor, listeners, destination, running, ws,
                   call, history>>

AddAvailabilityListener(t, n) ==
    /\ drive[t][n].pc = "listen"
    /\ \E count \in drive[t][n].known + 1 .. listeners[t] + 1 :
          listeners' = [listeners EXCEPT ![t] = count]
    /\ drive' = [drive EXCEPT ![t][n] = [@ EXCEPT !.pc = "over", !.known = 0]]
    /\ call' = [c \in Callers |-> [call[c] EXCEPT !.touched =
                    @ \/ (call[c].truck = t /\ call[c].pc \in {"tell", "home"})]]
    /\ UNCHANGED <<sensorVars, crew, fire, place, sensor, destination, running, ws, history>>

TruckThread(t, n) ==
    StartDrive(t, n) \/ Drive(t, n) \/ StartListening(t, n) \/ AddAvailabilityListener(t, n)

----------------------------------------------------------------------------
(* Truck.setSensor, and the removal TruckHandler.setDestination makes      *)
(* before it.  A thread reads this.sensor anew each time it uses it.       *)

CallUnchanged == UNCHANGED <<sensorVars, crew, fire, truckVars, ws, history>>

Goto(c, pc) == call' = [call EXCEPT ![c].pc = pc]

\* A call of addTruck or removeTruck begins, after which pc is `next`.
StartChange(c, op, s, next) ==
    call' = [call EXCEPT ![c] = [@ EXCEPT !.pc = "hash", !.op = op, !.at = s, !.next = next]]

\* setDestination: if (destination.equals(truck.getSensor()))
QuitDestination(c) ==
    LET t == call[c].truck
    IN  /\ call[c].pc = "quit"
        /\ IF destination[t] # NoSensor /\ destination[t] = sensor[t]
           THEN StartChange(c, "remove", destination[t], "test")
           ELSE Goto(c, "test")
        /\ CallUnchanged

\* var availabilityChanged
TestAvailability(c) ==
    /\ call[c].pc = "test"
    /\ call' = [call EXCEPT ![c].pc = "check",
                    ![c].changed = (sensor[call[c].truck] = NoSensor) # (call[c].to = NoSensor)]
    /\ CallUnchanged

\* if (this.sensor != null)
CheckOldSensor(c) ==
    /\ call[c].pc = "check"
    /\ Goto(c, IF sensor[call[c].truck] # NoSensor THEN "leave" ELSE "assign")
    /\ CallUnchanged

\* this.sensor.removeTruck: a NullPointerException if it is null meanwhile.
LeaveOldSensor(c) ==
    LET s == sensor[call[c].truck]
    IN  /\ call[c].pc = "leave"
        /\ IF s = NoSensor THEN Goto(c, "throw") ELSE StartChange(c, "remove", s, "assign")
        /\ CallUnchanged

\* hashCode; the set is read.
HashTruck(c) ==
    /\ call[c].pc = "hash"
    /\ call' = [call EXCEPT ![c].pc = "change", ![c].item = ItemOf(call[c].truck),
                            ![c].old = crew[call[c].at]]
    /\ CallUnchanged

\* The call after its change.
AfterChange(h) ==
    [NoCall EXCEPT !.pc = h.next, !.truck = h.truck, !.to = h.to, !.changed = h.changed]

\* The set is written, if it has to be.
ChangeSet(c) ==
    LET h == call[c]
    IN  /\ h.pc = "change"
        /\ \E base \in Found(h) :
              LET new == Changed(base, h)
              IN  \/ /\ new # crew[h.at]
                     /\ crew' = [crew EXCEPT ![h.at] = new]
                     /\ fire' = Touch(h.at)
                     /\ call' = [Overtaken(h.at, new) EXCEPT ![c] = AfterChange(h)]
                  \/ /\ new = crew[h.at]
                     /\ call' = [call EXCEPT ![c] = AfterChange(h)]
                     /\ UNCHANGED <<crew, fire>>
        /\ raced' = IF h.torn THEN raced \cup {h.at} ELSE raced
        /\ UNCHANGED <<sensorVars, truckVars, ws, reported, stranded>>

\* this.sensor = sensor
AssignSensor(c) ==
    /\ call[c].pc = "assign"
    /\ sensor' = [sensor EXCEPT ![call[c].truck] = call[c].to]
    /\ Goto(c, "has")
    /\ UNCHANGED <<sensorVars, crew, fire, place, listeners, destination, running, drive, ws, history>>

\* Mutant: if (availabilityChanged)
CheckAvailability(c) ==
    /\ call[c].pc = "has"
    /\ Goto(c, IF sensor[call[c].truck] # NoSensor /\ call[c].changed THEN "join" ELSE "report")
    /\ CallUnchanged

\* if (this.sensor != null)
CheckNewSensor(c) ==
    /\ call[c].pc = "has"
    /\ Goto(c, IF sensor[call[c].truck] # NoSensor THEN "join" ELSE "report")
    /\ CallUnchanged

\* this.sensor.addTruck, as LeaveOldSensor.
JoinNewSensor(c) ==
    LET s == sensor[call[c].truck]
    IN  /\ call[c].pc = "join"
        /\ IF s = NoSensor THEN Goto(c, "throw") ELSE StartChange(c, "add", s, "report")
        /\ CallUnchanged

\* If the truck had a sensor and has none, or had none, its listeners are told.
ReportAvailability(c) ==
    LET n == listeners[call[c].truck]
    IN  /\ call[c].pc = "report"
        /\ IF call[c].changed /\ n > 0
           THEN call' = [call EXCEPT ![c].pc = "tell", ![c].todo = n]
           ELSE Goto(c, "return")
        /\ CallUnchanged

\* The call after one of the listeners has returned.
Told(h) ==
    IF h.todo > 1 THEN [h EXCEPT !.pc = "tell", !.todo = @ - 1, !.ticks = 0]
    ELSE [h EXCEPT !.pc = "return", !.todo = 0, !.ticks = 0]

\* A listener of a truck that has a sensor, maybe again, does nothing.
TellUnavailable(c) ==
    /\ call[c].pc = "tell" /\ ~call[c].touched
    /\ sensor[call[c].truck] # NoSensor
    /\ call' = [call EXCEPT ![c] = Told(@)]
    /\ CallUnchanged

\* A listener reports the truck and drives it home, in the thread of the call,
\* which survives a route that cannot be had, and not one without ticks.  The
\* drive of a truck that has been stopped makes no tick.
TellAvailable(c) ==
    LET t == call[c].truck
    IN  /\ call[c].pc = "tell" /\ ~call[c].touched
        /\ sensor[t] = NoSensor
        /\ reported' = reported \cup {t}
        /\ \/ /\ Far(t, Home)
              /\ call' = [call EXCEPT ![c].pc = "home", ![c].ticks = DriveTicks]
              /\ stranded' = IF running[t] THEN stranded \ {t} ELSE stranded
           \/ /\ call' = [call EXCEPT ![c] = Told(@)]
              /\ stranded' = Left(t, Home)
           \/ /\ Near(t, Home)
              /\ Goto(c, "throw")
              /\ stranded' = Left(t, Home)
        /\ UNCHANGED <<sensorVars, crew, fire, truckVars, ws, raced>>

\* A drive has added a listener while they are told: a
\* ConcurrentModificationException.
ListenersModified(c) ==
    /\ call[c].pc = "tell" /\ call[c].touched
    /\ Goto(c, "throw")
    /\ CallUnchanged

DriveHome(c) ==
    /\ call[c].pc = "home"
    /\ Advance(call[c].truck, Home, call[c].ticks)
    /\ call' = [call EXCEPT ![c].ticks = @ - 1]
    /\ UNCHANGED <<sensorVars, crew, fire, sensor, listeners, destination, running, drive, ws, history>>

DriveHomeEnds(c) ==
    /\ call[c].pc = "home"
    /\ DriveEnds(call[c].truck, call[c].ticks)
    /\ call' = [call EXCEPT ![c] = Told(@)]
    /\ CallUnchanged

SetSensor(c) ==
    \/ QuitDestination(c) \/ TestAvailability(c)
    \/ CheckOldSensor(c) \/ LeaveOldSensor(c) \/ AssignSensor(c)
    \/ CheckNewSensor(c) \/ JoinNewSensor(c)
    \/ HashTruck(c) \/ ChangeSet(c)
    \/ ReportAvailability(c) \/ TellUnavailable(c) \/ TellAvailable(c) \/ ListenersModified(c)
    \/ DriveHome(c) \/ DriveHomeEnds(c)

----------------------------------------------------------------------------
(* The thread of the web socket: TruckManager.handleSendTruck. *)

NewThread == [pc |-> "started", to |-> NoSensor, ticks |-> 0, known |-> 0]

\* setDestination is called.
SetDestination(t, to) ==
    call' = [call EXCEPT ![WebSocket] = [NoCall EXCEPT !.pc = "quit", !.truck = t, !.to = to]]

\* An order for a sensor that has burnt.  A truck that has a handler is stopped.
TakeOrder(t, to) ==
    /\ ws.pc = "idle"
    /\ Len(drive[t]) < MaxOrders[t]
    /\ fires[to] > 0
    /\ \/ /\ drive[t] = <<>>
          /\ ws' = [pc |-> "set", truck |-> t, to |-> to]
          /\ SetDestination(t, to)
          /\ UNCHANGED running
       \/ /\ drive[t] # <<>>
          /\ ws' = [pc |-> "join", truck |-> t, to |-> to]
          /\ running' = [running EXCEPT ![t] = FALSE]
          /\ UNCHANGED call
    /\ UNCHANGED <<sensorVars, crew, fire, place, sensor, listeners, destination, drive, history>>

\* Mutant: the old thread is not waited for.
JoinNothing ==
    /\ ws.pc = "join"
    /\ ws' = [ws EXCEPT !.pc = "set"]
    /\ SetDestination(ws.truck, ws.to)
    /\ UNCHANGED <<sensorVars, crew, fire, truckVars, history>>

\* thread.join(): the pair still holds the first thread of the truck.
Join ==
    /\ ws.pc = "join"
    /\ drive[ws.truck][1].pc = "over"
    /\ ws' = [ws EXCEPT !.pc = "set"]
    /\ SetDestination(ws.truck, ws.to)
    /\ UNCHANGED <<sensorVars, crew, fire, truckVars, history>>

\* The truck has its destination, and thread.start().
StartThread ==
    LET t == ws.truck
    IN  /\ call[WebSocket].pc = "return"
        /\ destination' = [destination EXCEPT ![t] = ws.to]
        /\ drive' = [drive EXCEPT ![t] = Append(@, NewThread)]
        /\ ws' = NoOrder
        /\ call' = [call EXCEPT ![WebSocket] = NoCall]
        /\ UNCHANGED <<sensorVars, crew, fire, place, sensor, listeners, running, history>>

\* An exception leaves handleSendTruck: the truck stays where it was stopped.
OrderFails ==
    /\ call[WebSocket].pc = "throw"
    /\ ws' = NoOrder
    /\ call' = [call EXCEPT ![WebSocket] = NoCall]
    /\ stranded' = stranded \cup {ws.truck}
    /\ UNCHANGED <<sensorVars, crew, fire, truckVars, reported, raced>>

WebSocketThread == Join \/ SetSensor(WebSocket) \/ StartThread \/ OrderFails

----------------------------------------------------------------------------
(* FireLiter.run, and the list of the sensors without a fire. *)

\* The threads of the fires when the list changes: those that add to it may
\* have lost their sensor.
TouchList(threads) ==
    [s \in Sensors |-> [threads[s] EXCEPT !.touched = @ \/ threads[s].pc = "add"]]

LightFire(s) ==
    /\ s \in available
    /\ fires[s] < MaxFires
    /\ \E i \in 1 .. MaxInitial : intensity' = [intensity EXCEPT ![s] = i]
    /\ available' = available \ {s}
    /\ fires' = [fires EXCEPT ![s] = @ + 1]
    /\ fire' = [TouchList(fire) EXCEPT ![s].pc = "sleep"]
    /\ UNCHANGED <<crew, truckVars, ws, call, history>>

\* getRandomSensor returns null.
NoSensorToLight ==
    /\ \A s \in available : fires[s] = MaxFires
    /\ UNCHANGED vars

----------------------------------------------------------------------------
(* The threads of the fires: SensorHandler.run. *)

\* The sleep is over: getNearbyTrucks starts to read the set.
WakeUp(s) ==
    /\ fire[s].pc = "sleep"
    /\ fire' = [fire EXCEPT ![s].pc = "look", ![s].touched = FALSE]
    /\ UNCHANGED <<sensorVars, crew, truckVars, ws, call, history>>

\* A thread that dies of a ConcurrentModificationException or of a drive
\* without ticks.
Dead == [NoFire EXCEPT !.pc = "dead"]

\* Mutant of setIntensity: without its bounds.
SetAnyIntensity(old, i) == i

SetIntensity(old, i) == IF i \in 0 .. MaxIntensity - 1 THEN i ELSE old

\* The intensity follows the trucks nearby; at 0 the trucks are released.
Burn(s) ==
    LET nearby == {c \in crew[s] : place[c[1]] = s}
        i == SetIntensity(intensity[s], IF nearby = {} THEN intensity[s] + 1 ELSE intensity[s] - 1)
    IN  /\ fire[s].pc = "look" /\ ~fire[s].touched
        /\ intensity' = [intensity EXCEPT ![s] = i]
        /\ fire' = [fire EXCEPT ![s] =
                        IF i > 0 THEN [NoFire EXCEPT !.pc = "sleep"]
                        ELSE [NoFire EXCEPT !.pc = "next", !.left = crew[s]]]
        /\ UNCHANGED <<available, fires, crew, truckVars, ws, call, history>>

\* The set has changed while it was read or between two trucks.
ModifiedConcurrently(s) ==
    /\ fire[s].touched
    /\ fire[s].pc = "look" \/ (fire[s].pc = "next" /\ fire[s].left # {})
    /\ fire' = [fire EXCEPT ![s] = Dead]
    /\ UNCHANGED <<sensorVars, crew, truckVars, ws, call, history>>

\* truck.setSensor(null), for the next truck of the set.
ReleaseTruck(s) ==
    /\ fire[s].pc = "next" /\ ~fire[s].touched
    /\ \E i \in fire[s].left :
          /\ fire' = [fire EXCEPT ![s].pc = "set", ![s].left = @ \ {i}]
          /\ call' = [call EXCEPT ![s] = [NoCall EXCEPT !.pc = "test", !.truck = i[1]]]
    /\ UNCHANGED <<sensorVars, crew, truckVars, ws, history>>

TruckReleased(s) ==
    /\ call[s].pc = "return"
    /\ fire' = [fire EXCEPT ![s].pc = "next"]
    /\ call' = [call EXCEPT ![s] = NoCall]
    /\ UNCHANGED <<sensorVars, crew, truckVars, ws, history>>

\* An exception ends the thread.
ReleaseFails(s) ==
    /\ call[s].pc = "throw"
    /\ fire' = [fire EXCEPT ![s] = Dead]
    /\ call' = [call EXCEPT ![s] = NoCall]
    /\ UNCHANGED <<sensorVars, crew, truckVars, ws, history>>

\* setAvailable: the list is not synchronised, and an addition that overlaps
\* another change may be lost.
StartAdd(s) ==
    /\ fire[s].pc = "next" /\ fire[s].left = {}
    /\ fire' = [fire EXCEPT ![s] = [NoFire EXCEPT !.pc = "add"]]
    /\ UNCHANGED <<sensorVars, crew, truckVars, ws, call, history>>

SetAvailable(s) ==
    /\ fire[s].pc = "add"
    /\ \/ available' = available \cup {s}
       \/ fire[s].touched /\ UNCHANGED available
    /\ fire' = [TouchList(fire) EXCEPT ![s] = NoFire]
    /\ UNCHANGED <<fires, intensity, crew, truckVars, ws, call, history>>

FireThread(s) ==
    \/ WakeUp(s) \/ Burn(s) \/ ModifiedConcurrently(s)
    \/ ReleaseTruck(s) \/ SetSensor(s) \/ TruckReleased(s) \/ ReleaseFails(s)
    \/ StartAdd(s) \/ SetAvailable(s)

Next ==
    \/ \E t \in Trucks, s \in Sensors : TakeOrder(t, s)
    \/ WebSocketThread
    \/ \E t \in Trucks : \E n \in 1 .. Len(drive[t]) : TruckThread(t, n)
    \/ NoSensorToLight
    \/ \E s \in Sensors : LightFire(s) \/ FireThread(s)

Spec == Init /\ [][Next]_vars

----------------------------------------------------------------------------
(* Properties. *)

Places == {Home} \cup Sensors \cup Nat

Items  == Trucks \X Places \X (Sensors \cup {NoSensor})

FireThreads ==
    [pc : {"none", "sleep", "look", "next", "set", "add", "dead"},
     touched : BOOLEAN, left : SUBSET Items]

Steps == {"quit", "test", "check", "leave", "assign", "has", "join", "hash", "change",
          "report", "tell", "home", "return", "throw"}

Calls ==
    [pc : Steps \cup {"idle"}, truck : Trucks \cup {NoTruck}, to : Sensors \cup {NoSensor},
     changed : BOOLEAN, op : {"none", "add", "remove"}, at : Sensors \cup {NoSensor},
     item : Items \cup {NoItem}, old : SUBSET Items, torn : BOOLEAN,
     next : Steps \cup {"idle"},
     todo : Nat, touched : BOOLEAN, ticks : 0 .. DriveTicks]

TruckThreads ==
    [pc : {"started", "drive", "listen", "over"}, to : Sensors \cup {NoSensor},
     ticks : 0 .. DriveTicks, known : Nat]

\* Every variable keeps the values the code gives it.
TypeOK ==
    /\ available \subseteq Sensors /\ fires \in [Sensors -> 0 .. MaxFires]
    /\ intensity \in [Sensors -> 0 .. MaxIntensity - 1]
    /\ crew \in [Sensors -> SUBSET Items]
    /\ fire \in [Sensors -> FireThreads]
    /\ place \in [Trucks -> Places]
    /\ sensor \in [Trucks -> Sensors \cup {NoSensor}]
    /\ destination \in [Trucks -> Sensors \cup {NoSensor}]
    /\ listeners \in [Trucks -> Nat] /\ running \in [Trucks -> BOOLEAN]
    /\ drive \in [Trucks -> Seq(TruckThreads)]
    /\ ws \in [pc : {"idle", "join", "set"}, truck : Trucks \cup {NoTruck},
               to : Sensors \cup {NoSensor}]
    /\ call \in [Callers -> Calls]
    /\ reported \subseteq Trucks /\ stranded \subseteq Trucks /\ raced \subseteq Sensors

\* A truck that has a sensor is in the set of that sensor, where its fire
\* looks for it, but inside a call of setSensor: although the place in the hash
\* is that of the past, and although fires that end and a new order may move
\* the truck at once.  Only a set that two threads have changed at once may
\* have lost it.
AssignedTruckIsSeen ==
    \A t \in Trucks :
        \/ sensor[t] \in raced \cup {NoSensor}
        \/ \E c \in Callers : call[c].truck = t
        \/ \E i \in crew[sensor[t]] : i[1] = t

Underway(t) == {n \in 1 .. Len(drive[t]) : drive[t][n].pc # "over"}

\* A truck does not stay on a road, whoever stops its drives, unless its route
\* could not be had or its last order ended in an exception: a drive that ends
\* there has been stopped by an order that will start another.
NotLeftOnTheRoad ==
    \A t \in Trucks :
        place[t] \in Nat \ {Station} =>
            \/ Underway(t) # {} \/ ws.truck = t
            \/ \E c \in Callers : call[c].pc = "home" /\ call[c].truck = t
            \/ t \in stranded

\* The second order of a truck waits for the drive of the first to end.  The
\* third does not wait for that of the second, which join() does not know.
SecondOrderWaitsForFirst ==
    \A t \in Trucks : Len(drive[t]) <= 2 => \A m, n \in Underway(t) : m = n

\* The threads run, and no route request takes for ever.  Orders and fires
\* may never come.
Fairness ==
    /\ WF_vars(WebSocketThread)
    /\ \A t \in Trucks : \A n \in 1 .. MaxOrders[t] :
          WF_vars(n <= Len(drive[t]) /\ TruckThread(t, n))
    /\ \A s \in Sensors : WF_vars(FireThread(s))

FairSpec == Spec /\ Fairness

FireIsOut(t) == sensor[t] # NoSensor /\ intensity[sensor[t]] = 0

\* Trucks that are sent once, whose fires do not go out before they have
\* arrived, are all released, report and get home, however many fought the
\* fire: the thread of the fire does not fail over the set it empties.
EveryTruckComesHome ==
    [](\A t \in Trucks :
          /\ Len(drive[t]) <= 1 /\ t \notin stranded
          /\ FireIsOut(t) => listeners[t] > 0)
    => \A t \in Trucks :
          FireIsOut(t) ~> (sensor[t] = NoSensor /\ t \in reported /\ place[t] = Home)

\* The end of a fire releases the trucks that fight it and no other: one that
\* has been sent to a new fire goes there.  The comment of Truck says so.
OnlyItsOwnTrucks ==
    [][\A t \in Trucks :
          sensor[t] # NoSensor /\ sensor'[t] = NoSensor => intensity[sensor[t]] = 0]_vars

\* A truck that is sent sets out: the comment of Truck says that once sent it
\* advances towards its destination, and that it can be sent anew.  An order
\* that finds the truck without the sensor it has just been given ends in a
\* NullPointerException, and its thread is never started.
OrderedTruckSetsOut ==
    [][ws.pc # "idle" /\ ws'.pc = "idle" => drive'[ws.truck] # drive[ws.truck]]_vars

=============================================================================
