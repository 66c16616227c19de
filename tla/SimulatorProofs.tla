-------------------------- MODULE SimulatorProofs --------------------------
(***************************************************************************)
(* Proofs about the threads of the simulator, for any sensors, trucks,     *)
(* intensities and numbers of fires and orders.                            *)
(***************************************************************************)
EXTENDS Simulator, SequenceTheorems, TLAPS

(***************************************************************************)
(* The inductive invariant.                                                *)
(***************************************************************************)

\* The thread that calls setSensor has nothing else to do, and an order has
\* its truck and its sensor.
OrderInv ==
    /\ ws = NoOrder \/ (ws.pc # "idle" /\ ws.truck \in Trucks /\ ws.to \in Sensors)
    /\ call[WebSocket].pc # "idle" =>
          ws.pc = "set" /\ call[WebSocket].truck = ws.truck /\ call[WebSocket].to = ws.to
    /\ \A s \in Sensors : call[s].pc # "idle" => fire[s].pc = "set"

\* What a thread knows of the set it is about to change: another has not
\* changed it, or the change is torn.
Changing(c, h) ==
    /\ h.at \in Sensors
    /\ \/ h.op = "remove" /\ h.next \in {"test", "assign"}
       \/ /\ h.op = "add" /\ h.next = "report"
          /\ c = WebSocket => sensor[h.truck] \in {h.at, NoSensor}
    /\ h.pc = "change" =>
          h.item \in Items /\ h.item[1] = h.truck /\ (h.torn \/ h.old = crew[h.at])

\* A fire gives no truck a sensor.
CallOk(c, h) ==
    /\ h.pc # "idle" => h.truck \in Trucks
    /\ c \in Sensors => h.to = NoSensor
    /\ h.pc \in {"hash", "change"} => Changing(c, h)

CallInv == \A c \in Callers : CallOk(c, call[c])

\* A call that has not yet added its truck, and one that has not yet taken its
\* sensor from it.
Joining(h) ==
    h.pc \in {"quit", "test", "check", "leave", "hash", "change", "assign", "has", "join"}
Freeing(h) ==
    \/ h.pc \in {"quit", "test", "check", "leave", "assign"}
    \/ h.pc \in {"hash", "change"} /\ h.op = "remove"

\* A truck is in the set of its sensor, unless an order is about to add it or a
\* fire is about to take its sensor from it.
InSet(t) == sensor[t] \in raced \cup {NoSensor} \/ \E i \in crew[sensor[t]] : i[1] = t
SeenInv ==
    \A t \in Trucks :
        \/ InSet(t)
        \/ call[WebSocket].truck = t /\ Joining(call[WebSocket])
        \/ \E s \in Sensors : call[s].truck = t /\ Freeing(call[s])

\* A truck that has a handler has a destination, and its drives have one.
DestinationInv ==
    \A t \in Trucks :
        /\ drive[t] # <<>> => destination[t] \in Sensors
        /\ \A n \in 1 .. Len(drive[t]) : drive[t][n].pc = "drive" => drive[t][n].to \in Sensors

\* A sensor that can be lit has no thread.
LitInv == \A s \in available : fire[s].pc = "none"

\* An order that has been waited for, or the first of its truck.
JoinedInv ==
    ws.pc = "set" /\ drive[ws.truck] # <<>> => drive[ws.truck][1].pc = "over"

\* A stopped truck waits for the thread of the order that stopped it, unless
\* that order has failed.
StoppedInv ==
    \A t \in Trucks :
        /\ running[t] => drive[t] # <<>>
        /\ drive[t] # <<>> /\ ~running[t] =>
              \/ ws.truck = t \/ t \in stranded
              \/ \E n \in 1 .. Len(drive[t]) : drive[t][n].pc = "started"

\* A truck on a road is driven by a thread that has not made its last tick, or
\* an order for it is under way, or its last route or order has failed.
OnTheRoad(t) ==
    /\ drive[t] # <<>>
    /\ \/ \E n \in 1 .. Len(drive[t]) :
            drive[t][n].pc = "started" \/ (drive[t][n].pc = "drive" /\ drive[t][n].ticks > 0)
       \/ ws.truck = t
       \/ \E c \in Callers : call[c].pc = "home" /\ call[c].truck = t /\ call[c].ticks > 0
       \/ t \in stranded
RoadInv == \A t \in Trucks : place[t] \in Nat \ {Station} => OnTheRoad(t)

CallsInv  == OrderInv /\ CallInv /\ SeenInv
DrivesInv == DestinationInv /\ JoinedInv /\ SecondOrderWaitsForFirst
MovesInv  == StoppedInv /\ RoadInv
SimInv == TypeOK /\ CallsInv /\ DrivesInv /\ MovesInv /\ LitInv

----------------------------------------------------------------------------
(* Types. *)

\* A drive has ticks.
LEMMA Ticks == DriveTicks \in Nat \ {0} /\ 0 \in 0 .. DriveTicks /\ DriveTicks \in 0 .. DriveTicks
  BY DEF DriveTicks

\* The web socket is no sensor, and both call setSensor.
LEMMA CallerType ==
  /\ WebSocket \in Callers /\ Sensors \subseteq Callers /\ WebSocket \notin Sensors
  /\ \A c \in Callers : c = WebSocket \/ c \in Sensors
  /\ NoTruck \notin Trucks
BY PlacesType DEF Callers

\* A thread that calls nothing.
LEMMA NoCallType == NoCall \in Calls /\ NoCall.pc = "idle" /\ NoCall.truck = NoTruck /\ NoCall.to = NoSensor
  BY Ticks DEF NoCall, Calls, Steps

\* What a call keeps when it goes on.
Same(g, h) == g.truck = h.truck /\ g.to = h.to

\* The next step of a call, and what it may note.
LEMMA PcType ==
  ASSUME NEW h \in Calls, NEW pc \in Steps
  PROVE  LET g == [h EXCEPT !.pc = pc]
         IN  /\ g \in Calls /\ Same(g, h) /\ g.pc = pc
             /\ g.op = h.op /\ g.at = h.at /\ g.next = h.next /\ g.ticks = h.ticks
BY DEF Calls, Same

\* A call that has tested the set of its sensor keeps what it knew.
LEMMA TestType ==
  ASSUME NEW h \in Calls, NEW b \in BOOLEAN
  PROVE  LET g == [h EXCEPT !.pc = "check", !.changed = b]
         IN  g \in Calls /\ Same(g, h) /\ g.pc = "check"
BY DEF Calls, Steps, Same

\* A change that begins, and one that has read the set.
Begun(h, op, s, next) == [h EXCEPT !.pc = "hash", !.op = op, !.at = s, !.next = next]
Hashed(h, i, old)     == [h EXCEPT !.pc = "change", !.item = i, !.old = old]

\* A call that begins to change a set knows the operation, the sensor and what follows.
LEMMA StartType ==
  ASSUME NEW h \in Calls, NEW op \in {"add", "remove"}, NEW s \in Sensors, NEW next \in Steps,
         NEW g, g = Begun(h, op, s, next)
  PROVE  /\ g \in Calls /\ Same(g, h)
         /\ g.pc = "hash" /\ g.op = op /\ g.at = s /\ g.next = next
<1>1. "hash" \in Steps
  BY DEF Steps
<1> QED
  BY <1>1 DEF Calls, Same, Begun

\* A call that has read the set of its sensor keeps what it began.
LEMMA HashType ==
  ASSUME NEW h \in Calls, NEW i \in Items, NEW old \in SUBSET Items,
         NEW g, g = Hashed(h, i, old)
  PROVE  /\ g \in Calls /\ Same(g, h) /\ g.pc = "change" /\ g.item = i /\ g.old = old
         /\ g.op = h.op /\ g.at = h.at /\ g.next = h.next
BY DEF Calls, Steps, Same, Hashed

\* A call that has changed the set goes on with the step it noted.
LEMMA AfterType ==
  ASSUME NEW h \in Calls
  PROVE  AfterChange(h) \in Calls /\ Same(AfterChange(h), h) /\ AfterChange(h).pc = h.next
<1>1. /\ h.next \in Steps \cup {"idle"} /\ h.truck \in Trucks \cup {NoTruck}
      /\ h.to \in Sensors \cup {NoSensor} /\ h.changed \in BOOLEAN
  BY DEF Calls
<1> DEFINE g == [NoCall EXCEPT !.pc = h.next, !.truck = h.truck]
           k == [g EXCEPT !.to = h.to, !.changed = h.changed]
<1>2. g \in Calls /\ g.pc = h.next /\ g.truck = h.truck
  BY <1>1, NoCallType DEF Calls
<1>3. AfterChange(h) = k
  BY DEF AfterChange
<1> HIDE DEF g
<1>4. k \in Calls /\ k.pc = g.pc /\ k.truck = g.truck /\ k.to = h.to
  BY <1>1, <1>2 DEF Calls
<1> HIDE DEF k
<1> QED
  BY <1>2, <1>3, <1>4 DEF Same

\* A change that another overtakes is torn.
LEMMA TornType ==
  ASSUME NEW h \in Calls, NEW new \in SUBSET Items
  PROVE  LET g == [h EXCEPT !.old = @ \cup new, !.torn = TRUE]
         IN  /\ g \in Calls /\ Same(g, h) /\ g.torn /\ g.pc = h.pc
             /\ g.op = h.op /\ g.at = h.at /\ g.next = h.next /\ g.item = h.item /\ g.ticks = h.ticks
<1> DEFINE old == h.old \cup new
<1>1. old \in SUBSET Items
  BY DEF Calls
<1> HIDE DEF old
<1>2. LET g == [h EXCEPT !.old = old, !.torn = TRUE]
      IN  /\ g \in Calls /\ Same(g, h) /\ g.torn /\ g.pc = h.pc
          /\ g.op = h.op /\ g.at = h.at /\ g.next = h.next /\ g.item = h.item /\ g.ticks = h.ticks
  BY <1>1 DEF Calls, Same
<1> QED
  BY <1>2 DEF old

\* A call that counts the listeners it will tell keeps the rest.
LEMMA TellType ==
  ASSUME NEW h \in Calls, NEW n \in Nat
  PROVE  LET g == [h EXCEPT !.pc = "tell", !.todo = n]
         IN  g \in Calls /\ Same(g, h) /\ g.pc = "tell"
BY DEF Calls, Steps, Same

\* A truck on its way to the station, and each tick of the way.
LEMMA HomeType ==
  ASSUME NEW h \in Calls, NEW n \in 0 .. DriveTicks
  PROVE  /\ LET g == [h EXCEPT !.pc = "home", !.ticks = n]
            IN  g \in Calls /\ Same(g, h) /\ g.pc = "home" /\ g.ticks = n
         /\ LET g == [h EXCEPT !.ticks = n]
            IN  g \in Calls /\ Same(g, h) /\ g.pc = h.pc /\ g.ticks = n
BY DEF Calls, Steps, Same

\* A call that has told a listener tells the next or returns.
LEMMA ToldType ==
  ASSUME NEW h \in Calls
  PROVE  Told(h) \in Calls /\ Same(Told(h), h) /\ Told(h).pc \in {"tell", "return"}
<1>1. ASSUME NEW k \in Nat, NEW pc \in {"tell", "return"}
      PROVE  LET g == [h EXCEPT !.pc = pc, !.todo = k, !.ticks = 0]
             IN  g \in Calls /\ Same(g, h) /\ g.pc = pc
  BY Ticks DEF Calls, Steps, Same
<1>2. CASE h.todo > 1
  <2>1. h.todo - 1 \in Nat
    BY <1>2 DEF Calls
  <2> QED
    BY <1>1, <1>2, <2>1 DEF Told
<1>3. CASE ~(h.todo > 1)
  BY <1>1, <1>3 DEF Told
<1> QED
  BY <1>2, <1>3

----------------------------------------------------------------------------
(* The steps of a call. *)

\* The call of c goes on to h.
CallStep(c, h) ==
    /\ h \in Calls /\ call[c].pc # "idle" /\ h.pc # "idle"
    /\ Same(h, call[c]) /\ CallOk(c, h)
    /\ call' = [call EXCEPT ![c] = h]

\* It still has to add its truck, or to take its sensor from it, if it had to;
\* or the truck has no sensor now.
StillTo(c, h) ==
    \/ sensor[h.truck] = NoSensor
    \/ (Joining(call[c]) => Joining(h)) /\ (Freeing(call[c]) => Freeing(h))

\* The call of a thread is one.
LEMMA CallType ==
  ASSUME TypeOK, NEW c \in Callers
  PROVE  call[c] \in Calls
BY DEF TypeOK

\* The calls of the others are as they were.
LEMMA CallChanges ==
  ASSUME TypeOK, NEW c \in Callers, NEW h \in Calls, call' = [call EXCEPT ![c] = h]
  PROVE  /\ call' \in [Callers -> Calls] /\ call'[c] = h
         /\ \A x \in Callers \ {c} : call'[x] = call[x]
BY DEF TypeOK

\* The truck of a call is one.
LEMMA CallTruck ==
  ASSUME CallsInv, NEW c \in Callers, call[c].pc # "idle"
  PROVE  call[c].truck \in Trucks
BY DEF CallsInv, CallInv, CallOk

\* A step of a call leaves the calls of the others, and the sets, as they are.
LEMMA CallsGoOn ==
  ASSUME TypeOK, CallsInv, NEW c \in Callers, NEW h, CallStep(c, h), StillTo(c, h),
         UNCHANGED <<crew, sensor, raced, ws, fire>>
  PROVE  CallsInv' /\ call' \in [Callers -> Calls]
<1>1. /\ call' \in [Callers -> Calls] /\ call'[c] = h
      /\ \A x \in Callers \ {c} : call'[x] = call[x]
      /\ call[c].pc # "idle" /\ h.pc # "idle"
      /\ h.truck = call[c].truck /\ h.to = call[c].to /\ CallOk(c, h)
  BY CallChanges DEF CallStep, Same
<1>2. OrderInv'
  BY <1>1, CallerType DEF CallsInv, OrderInv
<1>3. CallInv'
  BY <1>1 DEF CallsInv, CallInv, CallOk, Changing
<1>4. SeenInv'
  <2> SUFFICES ASSUME NEW t \in Trucks, ~InSet(t)
               PROVE  \/ call'[WebSocket].truck = t /\ Joining(call'[WebSocket])
                      \/ \E s \in Sensors : call'[s].truck = t /\ Freeing(call'[s])
    BY DEF SeenInv, InSet
  <2>1. sensor[t] # NoSensor
    BY DEF InSet
  <2>2. CASE call[WebSocket].truck = t /\ Joining(call[WebSocket])
    BY <1>1, <2>1, <2>2, CallerType DEF StillTo
  <2>3. CASE \E s \in Sensors : call[s].truck = t /\ Freeing(call[s])
    BY <1>1, <2>1, <2>3, CallerType DEF StillTo
  <2> QED
    BY <2>2, <2>3 DEF CallsInv, SeenInv
<1> QED
  BY <1>1, <1>2, <1>3, <1>4 DEF CallsInv

\* The orders and the drives of the trucks go on as before.
LEMMA DrivesKept ==
  ASSUME DrivesInv, UNCHANGED <<destination, drive, ws>>
  PROVE  DrivesInv'
BY DEF DrivesInv, DestinationInv, JoinedInv, SecondOrderWaitsForFirst, Underway

\* The trucks stay where they are, and those that are driven home are.
LEMMA MovesKept ==
  ASSUME MovesInv, UNCHANGED <<place, running, drive, ws>>, stranded \subseteq stranded',
         \A c \in Callers : call[c].pc = "home" => 
            call'[c].pc = "home" /\ call'[c].truck = call[c].truck /\ call'[c].ticks = call[c].ticks
  PROVE  MovesInv'
BY DEF MovesInv, StoppedInv, RoadInv, OnTheRoad

\* A step that changes no more than the call.
LEMMA CallAlone ==
  ASSUME SimInv, NEW c \in Callers, NEW h, CallStep(c, h), StillTo(c, h), CallUnchanged,
         call[c].pc # "home"
  PROVE  SimInv'
<1>1. /\ TypeOK /\ CallsInv /\ DrivesInv /\ MovesInv /\ LitInv
      /\ UNCHANGED <<available, fires, intensity, crew, fire, place, sensor, listeners,
                     destination, running, drive, ws, reported, stranded, raced>>
  BY DEF SimInv, CallUnchanged, sensorVars, truckVars, history
<1>2. CallsInv' /\ call' \in [Callers -> Calls]
  BY <1>1, CallsGoOn
<1>3. TypeOK'
  BY <1>1, <1>2 DEF TypeOK
<1>4. \A x \in Callers \ {c} : call'[x] = call[x]
  BY <1>1, CallChanges DEF CallStep
<1>5. MovesInv'
  BY <1>1, <1>4, MovesKept
<1>6. DrivesInv' /\ LitInv'
  BY <1>1, DrivesKept DEF LitInv
<1> QED
  BY <1>2, <1>3, <1>5, <1>6 DEF SimInv

\* A call that goes on to a step that changes no set.
LEMMA CallGoesTo ==
  ASSUME SimInv, NEW c \in Callers, NEW pc \in Steps \ {"hash", "change"},
         Goto(c, pc), CallUnchanged, call[c].pc \notin {"idle", "home"},
         \/ sensor[call[c].truck] = NoSensor
         \/ pc \in {"test", "check", "leave", "assign"}
         \/ pc \in {"has", "join"} /\ ~Freeing(call[c])
         \/ ~Joining(call[c])
  PROVE  SimInv'
<1> DEFINE h == [call[c] EXCEPT !.pc = pc]
<1>1. TypeOK /\ CallsInv /\ call[c] \in Calls /\ pc \in Steps /\ pc \notin {"idle", "hash", "change"}
  BY CallType DEF SimInv, Steps
<1>2. h \in Calls /\ Same(h, call[c]) /\ h.pc = pc
  BY <1>1, PcType
<1>3. call' = [call EXCEPT ![c] = h]
  BY DEF Goto
<1> HIDE DEF h
<1>4. CallOk(c, h)
  BY <1>1, <1>2 DEF CallOk, Same, CallsInv, CallInv
<1>5. CallStep(c, h)
  BY <1>1, <1>2, <1>3, <1>4 DEF CallStep
<1>6. StillTo(c, h)
  BY <1>2 DEF StillTo, Joining, Freeing, Same
<1> QED
  BY <1>5, <1>6, CallAlone

\* A call that begins to change a set.
LEMMA CallStarts ==
  ASSUME SimInv, NEW c \in Callers, NEW op \in {"add", "remove"}, NEW s \in Sensors, NEW next \in Steps,
         StartChange(c, op, s, next), CallUnchanged, call[c].pc \in {"quit", "leave", "join"},
         \/ op = "remove" /\ next \in {"test", "assign"}
         \/ op = "add" /\ next = "report" /\ call[c].pc = "join" /\ s = sensor[call[c].truck]
  PROVE  SimInv'
<1> DEFINE h == Begun(call[c], op, s, next)
<1>1. TypeOK /\ CallsInv /\ call[c] \in Calls
  BY CallType DEF SimInv
<1>2. h = Begun(call[c], op, s, next) /\ call' = [call EXCEPT ![c] = h]
  BY DEF StartChange, Begun
<1> HIDE DEF h
<1>3. h \in Calls /\ Same(h, call[c]) /\ h.pc = "hash" /\ h.op = op /\ h.at = s /\ h.next = next
  BY <1>1, <1>2, StartType
<1>4. CallOk(c, h)
  BY <1>1, <1>3 DEF CallOk, Changing, Same, CallsInv, CallInv
<1>5. CallStep(c, h)
  BY <1>1, <1>2, <1>3, <1>4 DEF CallStep
<1>6. StillTo(c, h)
  BY <1>3 DEF StillTo, Joining, Freeing, Same
<1> QED
  BY <1>5, <1>6, CallAlone

\* Steps that read the sensor of the truck.
LEMMA ReadingKeeps ==
  ASSUME SimInv, NEW c \in Callers,
         \/ QuitDestination(c) \/ CheckOldSensor(c) \/ LeaveOldSensor(c)
         \/ CheckNewSensor(c) \/ JoinNewSensor(c) \/ ListenersModified(c)
  PROVE  SimInv'
<1> DEFINE t == call[c].truck
<1>1. /\ {"test", "leave", "assign", "join", "report", "throw"} \subseteq Steps \ {"hash", "change"}
      /\ {"test", "assign", "report"} \subseteq Steps
  BY DEF Steps
<1>2. call[c].pc # "idle" => t \in Trucks /\ sensor[t] \in Sensors \cup {NoSensor}
                              /\ destination[t] \in Sensors \cup {NoSensor}
  BY CallTruck DEF SimInv, TypeOK
<1>3. CASE QuitDestination(c)
  <2>1. call[c].pc = "quit" /\ CallUnchanged
    BY <1>3 DEF QuitDestination
  <2>2. CASE destination[t] # NoSensor /\ destination[t] = sensor[t]
    BY <1>1, <1>2, <1>3, <2>1, <2>2, CallStarts DEF QuitDestination
  <2>3. CASE ~(destination[t] # NoSensor /\ destination[t] = sensor[t])
    BY <1>1, <1>3, <2>1, <2>3, CallGoesTo DEF QuitDestination
  <2> QED
    BY <2>2, <2>3
<1>4. CASE CheckOldSensor(c)
  <2>1. call[c].pc = "check" /\ CallUnchanged /\ (Goto(c, "leave") \/ Goto(c, "assign"))
    BY <1>4 DEF CheckOldSensor
  <2> QED
    BY <1>1, <2>1, CallGoesTo
<1>5. CASE LeaveOldSensor(c)
  <2>1. call[c].pc = "leave" /\ CallUnchanged
    BY <1>5 DEF LeaveOldSensor
  <2>2. CASE sensor[t] = NoSensor
    BY <1>1, <1>5, <2>1, <2>2, CallGoesTo DEF LeaveOldSensor
  <2>3. CASE sensor[t] # NoSensor
    BY <1>1, <1>2, <1>5, <2>1, <2>3, CallStarts DEF LeaveOldSensor
  <2> QED
    BY <2>2, <2>3
<1>6. CASE CheckNewSensor(c)
  <2>1. call[c].pc = "has" /\ CallUnchanged /\ ~Freeing(call[c])
    BY <1>6 DEF CheckNewSensor, Freeing
  <2>2. CASE sensor[t] = NoSensor
    BY <1>1, <1>6, <2>1, <2>2, CallGoesTo DEF CheckNewSensor
  <2>3. CASE sensor[t] # NoSensor
    BY <1>1, <1>6, <2>1, <2>3, CallGoesTo DEF CheckNewSensor
  <2> QED
    BY <2>2, <2>3
<1>7. CASE JoinNewSensor(c)
  <2>1. call[c].pc = "join" /\ CallUnchanged
    BY <1>7 DEF JoinNewSensor
  <2>2. CASE sensor[t] = NoSensor
    BY <1>1, <1>7, <2>1, <2>2, CallGoesTo DEF JoinNewSensor
  <2>3. CASE sensor[t] # NoSensor
    BY <1>1, <1>2, <1>7, <2>1, <2>3, CallStarts DEF JoinNewSensor
  <2> QED
    BY <2>2, <2>3
<1>8. CASE ListenersModified(c)
  <2>1. call[c].pc = "tell" /\ CallUnchanged /\ Goto(c, "throw") /\ ~Joining(call[c])
    BY <1>8 DEF ListenersModified, Joining
  <2> QED
    BY <1>1, <2>1, CallGoesTo
<1> QED
  BY <1>3, <1>4, <1>5, <1>6, <1>7, <1>8

\* Steps that note what they have read.
LEMMA NotingKeeps ==
  ASSUME SimInv, NEW c \in Callers, TestAvailability(c) \/ HashTruck(c) \/ ReportAvailability(c)
  PROVE  SimInv'
<1> DEFINE t == call[c].truck
<1>1. TypeOK /\ CallsInv /\ call[c] \in Calls
  BY CallType DEF SimInv
<1>2. CASE TestAvailability(c)
  <2> DEFINE b == (sensor[t] = NoSensor) # (call[c].to = NoSensor)
             h == [call[c] EXCEPT !.pc = "check", !.changed = b]
  <2>1. h \in Calls /\ Same(h, call[c]) /\ h.pc = "check"
    <3>1. b \in BOOLEAN
      OBVIOUS
    <3> HIDE DEF b
    <3> QED
      BY <1>1, <3>1, TestType
  <2>2. call[c].pc = "test" /\ CallUnchanged /\ call' = [call EXCEPT ![c] = h]
    BY <1>2 DEF TestAvailability
  <2> HIDE DEF h
  <2>3. CallOk(c, h)
    BY <1>1, <2>1, <2>2 DEF CallOk, Same, CallsInv, CallInv
  <2>4. CallStep(c, h) /\ StillTo(c, h)
    BY <2>1, <2>2, <2>3 DEF CallStep, StillTo, Joining, Freeing, Same
  <2> QED
    BY <2>2, <2>4, CallAlone
<1>3. CASE HashTruck(c)
  <2> DEFINE old == crew[call[c].at]
             i == ItemOf(t)
             h == Hashed(call[c], i, old)
  <2>1. call[c].pc = "hash" /\ CallUnchanged /\ call' = [call EXCEPT ![c] = h]
    BY <1>3 DEF HashTruck, Hashed
  <2>2. t \in Trucks /\ Changing(c, call[c])
    BY <1>1, <2>1 DEF CallsInv, CallInv, CallOk
  <2>3. old \in SUBSET Items /\ i \in Items /\ i[1] = t
    BY <1>1, <2>2 DEF TypeOK, ItemOf, Items, Changing
  <2>4. /\ h \in Calls /\ Same(h, call[c]) /\ h.pc = "change" /\ h.item = i /\ h.old = old
        /\ h.op = call[c].op /\ h.at = call[c].at /\ h.next = call[c].next
    <3>1. h = Hashed(call[c], i, old)
      OBVIOUS
    <3> HIDE DEF old, i, h
    <3> QED
      BY <1>1, <2>3, <3>1, HashType
  <2> HIDE DEF h
  <2>5. CallOk(c, h)
    BY <1>1, <2>1, <2>2, <2>3, <2>4 DEF CallOk, Changing, Same, CallsInv, CallInv
  <2>6. CallStep(c, h) /\ StillTo(c, h)
    BY <2>1, <2>4, <2>5 DEF CallStep, StillTo, Joining, Freeing, Same
  <2> QED
    BY <2>1, <2>6, CallAlone
<1>4. CASE ReportAvailability(c)
  <2> DEFINE n == listeners[t]
             h == [call[c] EXCEPT !.pc = "tell", !.todo = n]
  <2>1. call[c].pc = "report" /\ CallUnchanged /\ ~Joining(call[c]) /\ ~Freeing(call[c])
    BY <1>4 DEF ReportAvailability, Joining, Freeing
  <2>2. CASE call[c].changed /\ n > 0
    <3>1. call' = [call EXCEPT ![c] = h]
      BY <1>4, <2>2 DEF ReportAvailability
    <3>2. n \in Nat
      BY <1>1, <2>1, CallTruck DEF TypeOK
    <3>3. h \in Calls /\ Same(h, call[c]) /\ h.pc = "tell"
      <4> HIDE DEF n
      <4> QED
        BY <1>1, <3>2, TellType
    <3> HIDE DEF h
    <3>4. CallOk(c, h)
      BY <1>1, <2>1, <3>3 DEF CallOk, Same, CallsInv, CallInv
    <3>5. CallStep(c, h) /\ StillTo(c, h)
      BY <2>1, <3>1, <3>3, <3>4 DEF CallStep, StillTo
    <3> QED
      BY <2>1, <3>5, CallAlone
  <2>3. CASE ~(call[c].changed /\ n > 0)
    <3>1. Goto(c, "return") /\ "return" \in Steps \ {"hash", "change"}
      BY <1>4, <2>3 DEF ReportAvailability, Steps
    <3> QED
      BY <2>1, <3>1, CallGoesTo
  <2> QED
    BY <2>2, <2>3
<1> QED
  BY <1>2, <1>3, <1>4

\* Noticing that a set has changed alters no more than `touched`.
LEMMA TouchType ==
  ASSUME TypeOK, NEW s \in Sensors, fire' = Touch(s)
  PROVE  /\ fire' \in [Sensors -> FireThreads]
         /\ \A x \in Sensors : fire'[x].pc = fire[x].pc
<1> DEFINE b == fire[s].touched \/ fire[s].pc \in {"look", "next", "set"}
           h == [fire[s] EXCEPT !.touched = b]
<1>1. fire' = [fire EXCEPT ![s] = h] /\ fire[s] \in FireThreads
  BY DEF Touch, TypeOK
<1>2. b \in BOOLEAN
  OBVIOUS
<1> HIDE DEF b
<1>3. h \in FireThreads /\ h.pc = fire[s].pc
  BY <1>1, <1>2 DEF FireThreads
<1> HIDE DEF h
<1> QED
  BY <1>1, <1>3 DEF TypeOK

\* The sets before and after a change, and what the other calls note of it.
LEMMA SetChanges ==
  ASSUME TypeOK, CallsInv, NEW c \in Callers, ChangeSet(c)
  PROVE  LET h == call[c] IN
         /\ h.pc = "change" /\ Changing(c, h) /\ h.truck \in Trucks
         /\ crew' \in [Sensors -> SUBSET Items]
         /\ \A s \in Sensors \ {h.at} : crew'[s] = crew[s]
         /\ h.op = "add" => h.item \in crew'[h.at]
         /\ ~h.torn => crew[h.at] \ {h.item} \subseteq crew'[h.at]
         /\ ~h.torn /\ h.op = "add" => crew[h.at] \subseteq crew'[h.at]
         /\ call' \in [Callers -> Calls] /\ call'[c] = AfterChange(h)
         /\ \A x \in Callers \ {c} :
               /\ Same(call'[x], call[x]) /\ call'[x].pc = call[x].pc /\ call'[x].op = call[x].op
               /\ call'[x].at = call[x].at /\ call'[x].next = call[x].next
               /\ call'[x].ticks = call[x].ticks /\ call'[x].item = call[x].item
               /\ call[x].pc = "change" =>
                     call'[x].torn \/ (call'[x] = call[x] /\ crew'[call[x].at] = crew[call[x].at])
         /\ fire' \in [Sensors -> FireThreads] /\ \A s \in Sensors : fire'[s].pc = fire[s].pc
         /\ raced \subseteq raced' /\ raced' \subseteq Sensors /\ (h.torn => h.at \in raced')
<1> DEFINE h == call[c]
           s == h.at
           n == AfterChange(h)
<1>1. h.pc = "change" /\ Changing(c, h) /\ h.truck \in Trucks /\ h \in Calls
  BY CallType DEF ChangeSet, CallsInv, CallInv, CallOk
<1>2. s \in Sensors /\ h.item \in Items /\ h.old \in SUBSET Items /\ (h.torn \/ h.old = crew[s])
  BY <1>1 DEF Changing, Calls
<1>3. PICK base \in Found(h) :
        LET new == Changed(base, h)
        IN  \/ /\ new # crew[s] /\ crew' = [crew EXCEPT ![s] = new] /\ fire' = Touch(s)
               /\ call' = [Overtaken(s, new) EXCEPT ![c] = n]
            \/ new = crew[s] /\ call' = [call EXCEPT ![c] = n] /\ crew' = crew /\ fire' = fire
  BY DEF ChangeSet
<1>4. base \in SUBSET Items /\ (~h.torn => base = crew[s])
  BY <1>2, <1>3 DEF Found
<1> DEFINE new == Changed(base, h)
<1>5. /\ new \in SUBSET Items /\ (h.op = "add" => h.item \in new)
      /\ ~h.torn => crew[s] \ {h.item} \subseteq new
      /\ ~h.torn /\ h.op = "add" => crew[s] \subseteq new
  BY <1>2, <1>4 DEF Changed
<1>6. crew' \in [Sensors -> SUBSET Items] /\ crew'[s] = new
      /\ \A x \in Sensors \ {s} : crew'[x] = crew[x]
  <2>1. crew' = [crew EXCEPT ![s] = new] \/ (new = crew[s] /\ crew' = crew)
    BY <1>3
  <2> HIDE DEF new
  <2> QED
    BY <1>2, <1>5, <2>1 DEF TypeOK
<1>7. n \in Calls
  BY <1>1, AfterType
<1>8. fire' \in [Sensors -> FireThreads] /\ \A x \in Sensors : fire'[x].pc = fire[x].pc
  BY <1>2, <1>3, TouchType DEF TypeOK
<1>9. raced \subseteq raced' /\ raced' \subseteq Sensors /\ (h.torn => s \in raced')
  BY <1>2 DEF ChangeSet, TypeOK
<1> HIDE DEF n, new
<1>10. ASSUME NEW x \in Callers \ {c}
       PROVE  /\ call'[x] \in Calls
              /\ Same(call'[x], call[x]) /\ call'[x].pc = call[x].pc /\ call'[x].op = call[x].op
              /\ call'[x].at = call[x].at /\ call'[x].next = call[x].next
              /\ call'[x].ticks = call[x].ticks /\ call'[x].item = call[x].item
              /\ call[x].pc = "change" =>
                    call'[x].torn \/ (call'[x] = call[x] /\ crew'[call[x].at] = crew[call[x].at])
  <2> DEFINE g == [call[x] EXCEPT !.old = @ \cup new, !.torn = TRUE]
  <2>1. call[x] \in Calls /\ g \in Calls /\ Same(g, call[x]) /\ g.torn /\ g.pc = call[x].pc
        /\ g.op = call[x].op /\ g.at = call[x].at /\ g.next = call[x].next /\ g.item = call[x].item
        /\ g.ticks = call[x].ticks
    BY <1>5, CallType, TornType
  <2>2. call'[x] = g \/ call'[x] = call[x]
    BY <1>3 DEF Overtaken, TypeOK, new
  <2>3. CASE call'[x] = g
    <3> HIDE DEF g
    <3> QED
      BY <2>1, <2>3
  <2>4. CASE call'[x] = call[x] /\ call'[x] # g
    <3>1. call[x].pc = "change" => crew'[call[x].at] = crew[call[x].at]
      <4>1. CASE crew' = crew
        BY <4>1
      <4>2. CASE call' = [Overtaken(s, new) EXCEPT ![c] = n]
        <5>1. ~(call[x].pc = "change" /\ call[x].at = s)
          BY <2>4, <4>2 DEF Overtaken
        <5>2. call[x].pc = "change" => call[x].at \in Sensors
          BY DEF CallsInv, CallInv, CallOk, Changing
        <5> QED
          BY <1>6, <5>1, <5>2
      <4> QED
        BY <1>3, <4>1, <4>2 DEF new
    <3> QED
      BY <2>1, <2>4, <3>1 DEF Same
  <2> QED
    BY <2>2, <2>3, <2>4
<1>11. call'[c] = n /\ call' = [x \in Callers |-> call'[x]]
  BY <1>3 DEF Overtaken, TypeOK, new
<1>12. call' \in [Callers -> Calls]
  BY <1>7, <1>10, <1>11
<1> QED
  BY <1>1, <1>5, <1>6, <1>8, <1>9, <1>10, <1>11, <1>12 DEF n

\* A change of a set loses no truck but the one it is about, unless it is torn.
LEMMA ChangeKeeps ==
  ASSUME SimInv, NEW c \in Callers, ChangeSet(c)
  PROVE  SimInv'
<1> DEFINE h == call[c]
           s == h.at
<1>1. /\ TypeOK /\ CallsInv /\ DrivesInv /\ MovesInv /\ LitInv
      /\ UNCHANGED <<available, fires, intensity, place, sensor, listeners,
                     destination, running, drive, ws, reported, stranded>>
  BY DEF SimInv, ChangeSet, sensorVars, truckVars
<1>2. /\ h.pc = "change" /\ Changing(c, h) /\ h.truck \in Trucks
      /\ crew' \in [Sensors -> SUBSET Items]
      /\ \A x \in Sensors \ {s} : crew'[x] = crew[x]
      /\ h.op = "add" => h.item \in crew'[s]
      /\ ~h.torn => crew[s] \ {h.item} \subseteq crew'[s]
      /\ ~h.torn /\ h.op = "add" => crew[s] \subseteq crew'[s]
      /\ call' \in [Callers -> Calls] /\ call'[c] = AfterChange(h)
      /\ \A x \in Callers \ {c} :
            /\ Same(call'[x], call[x]) /\ call'[x].pc = call[x].pc /\ call'[x].op = call[x].op
            /\ call'[x].at = call[x].at /\ call'[x].next = call[x].next
            /\ call'[x].ticks = call[x].ticks /\ call'[x].item = call[x].item
            /\ call[x].pc = "change" =>
                  call'[x].torn \/ (call'[x] = call[x] /\ crew'[call[x].at] = crew[call[x].at])
      /\ fire' \in [Sensors -> FireThreads] /\ \A x \in Sensors : fire'[x].pc = fire[x].pc
      /\ raced \subseteq raced' /\ raced' \subseteq Sensors /\ (h.torn => s \in raced')
  BY <1>1, SetChanges
<1>3. /\ AfterChange(h).truck = h.truck /\ AfterChange(h).to = h.to /\ AfterChange(h).pc = h.next
      /\ h.next \in {"test", "assign", "report"}
      /\ h.op = "remove" => h.next \in {"test", "assign"}
  BY <1>1, <1>2, CallType, AfterType DEF Same, Changing
<1> DEFINE n == AfterChange(h)
<1> HIDE DEF n
<1>4. call'[c] = n /\ n.truck = h.truck /\ n.to = h.to /\ n.pc = h.next
  BY <1>2, <1>3 DEF n
<1>5. TypeOK'
  BY <1>1, <1>2 DEF TypeOK
<1>6. OrderInv'
  BY <1>1, <1>2, <1>3, <1>4, CallerType DEF CallsInv, OrderInv, Same
<1>7. CallInv'
  <2>1. CallOk(c, call[c])
    BY <1>1 DEF CallsInv, CallInv
  <2>2. CallOk(c, call[c])'
    BY <1>2, <1>3, <1>4, <2>1 DEF CallOk
  <2>3. ASSUME NEW x \in Callers \ {c}
        PROVE  CallOk(x, call[x])'
    BY <1>1, <1>2, <2>3 DEF CallsInv, CallInv, CallOk, Changing, Same
  <2> QED
    BY <2>2, <2>3 DEF CallInv
<1>8. SeenInv'
  <2> SUFFICES ASSUME NEW t \in Trucks
               PROVE  \/ InSet(t)'
                      \/ call'[WebSocket].truck = t /\ Joining(call'[WebSocket])
                      \/ \E x \in Sensors : call'[x].truck = t /\ Freeing(call'[x])
    BY DEF SeenInv
  <2>1. sensor[t] \in Sensors \cup {NoSensor} /\ sensor' = sensor
    BY <1>1 DEF TypeOK
  <2>2. CASE sensor[t] \in raced' \cup {NoSensor}
    BY <2>1, <2>2 DEF InSet
  <2>3. CASE t = h.truck /\ h.op = "remove"
    <3>1. Joining(n) /\ Freeing(n)
      BY <1>3, <1>4, <2>3 DEF Joining, Freeing
    <3> QED
      BY <1>4, <2>3, <3>1, CallerType
  <2>4. CASE sensor[t] \notin raced' \cup {NoSensor} /\ ~(t = h.truck /\ h.op = "remove")
    <3>1. CASE InSet(t)
      <4>1. PICK i \in crew[sensor[t]] : i[1] = t
        BY <1>2, <2>4, <3>1 DEF InSet
      <4>2. CASE sensor[t] # s
        BY <1>2, <2>1, <2>4, <4>1, <4>2 DEF InSet
      <4>3. CASE sensor[t] = s
        <5>1. ~h.torn
          BY <1>2, <2>4, <4>3
        <5>2. i \in crew'[s]
          BY <1>2, <2>4, <4>1, <4>3, <5>1 DEF Changing
        <5> QED
          BY <2>1, <4>1, <4>3, <5>2 DEF InSet
      <4> QED
        BY <4>2, <4>3
    <3>2. CASE call[WebSocket].truck = t /\ Joining(call[WebSocket])
      <4>1. CASE c = WebSocket
        <5>1. h.op = "add" /\ t = h.truck
          BY <1>2, <2>4, <3>2, <4>1 DEF Changing
        <5>2. sensor[t] = s
          BY <1>2, <2>4, <4>1, <5>1 DEF Changing
        <5>3. h.item \in crew'[s] /\ h.item[1] = t
          BY <1>2, <5>1 DEF Changing
        <5> QED
          BY <2>1, <5>2, <5>3 DEF InSet
      <4>2. CASE c # WebSocket
        BY <1>2, <3>2, <4>2, CallerType DEF Same, Joining
      <4> QED
        BY <4>1, <4>2
    <3>3. CASE \E x \in Sensors : call[x].truck = t /\ Freeing(call[x])
      <4>1. PICK x \in Sensors : call[x].truck = t /\ Freeing(call[x])
        BY <3>3
      <4>2. x # c
        BY <1>2, <2>4, <4>1 DEF Freeing
      <4>3. call'[x].truck = t /\ Freeing(call'[x])
        BY <1>2, <4>1, <4>2, CallerType DEF Same, Freeing
      <4> QED
        BY <4>3
    <3> QED
      BY <1>1, <3>1, <3>2, <3>3 DEF CallsInv, SeenInv
  <2> QED
    BY <2>2, <2>3, <2>4
<1>9. MovesInv'
  <2>1. ASSUME NEW x \in Callers, call[x].pc = "home"
        PROVE  call'[x].pc = "home" /\ call'[x].truck = call[x].truck /\ call'[x].ticks = call[x].ticks
    BY <1>2, <2>1 DEF Same
  <2> QED
    BY <1>1, <2>1, MovesKept
<1>10. DrivesInv' /\ LitInv'
  BY <1>1, <1>2, DrivesKept DEF LitInv, TypeOK
<1> QED
  BY <1>5, <1>6, <1>7, <1>8, <1>9, <1>10 DEF SimInv, CallsInv

\* The truck has the sensor of the order, which will add it to the set, or none.
LEMMA AssignKeeps ==
  ASSUME SimInv, NEW c \in Callers, AssignSensor(c)
  PROVE  SimInv'
<1> DEFINE t == call[c].truck
           to == call[c].to
           h == [call[c] EXCEPT !.pc = "has"]
<1>1. /\ TypeOK /\ CallsInv /\ DrivesInv /\ MovesInv /\ LitInv
      /\ UNCHANGED <<available, fires, intensity, crew, fire, place, listeners,
                     destination, running, drive, ws, reported, stranded, raced>>
  BY DEF SimInv, AssignSensor, sensorVars, history
<1>2. /\ call[c].pc = "assign" /\ call[c] \in Calls /\ CallOk(c, call[c]) /\ "has" \in Steps
      /\ sensor' = [sensor EXCEPT ![t] = to] /\ call' = [call EXCEPT ![c] = h]
  BY <1>1, CallType DEF AssignSensor, Goto, CallsInv, CallInv, Steps
<1>3. h \in Calls /\ h.truck = t /\ h.to = to /\ h.pc = "has"
  BY <1>2, PcType DEF Same
<1>4. t \in Trucks /\ (c \in Sensors => to = NoSensor)
  BY <1>2 DEF CallOk
<1> HIDE DEF h
<1>5. /\ call' \in [Callers -> Calls] /\ call'[c] = h /\ \A x \in Callers \ {c} : call'[x] = call[x]
  BY <1>1, <1>2, <1>3, CallChanges
<1>6. /\ sensor' \in [Trucks -> Sensors \cup {NoSensor}] /\ sensor'[t] = to
      /\ \A u \in Trucks \ {t} : sensor'[u] = sensor[u]
  BY <1>1, <1>2, <1>4 DEF TypeOK, Calls
<1>7. TypeOK'
  BY <1>1, <1>5, <1>6 DEF TypeOK
<1>8. OrderInv'
  BY <1>1, <1>2, <1>3, <1>5, CallerType DEF CallsInv, OrderInv
<1>9. CallInv'
  <2>1. CallOk(c, call[c])'
    BY <1>3, <1>4, <1>5 DEF CallOk
  <2>2. ASSUME NEW x \in Callers \ {c}
        PROVE  CallOk(x, call[x])'
    <3>1. CallOk(x, call[x]) /\ call'[x] = call[x] /\ crew' = crew
      BY <1>1, <1>5 DEF CallsInv, CallInv
    <3>2. x = WebSocket /\ call[x].pc # "idle" =>
             sensor'[call[x].truck] \in {sensor[call[x].truck], NoSensor}
      BY <1>4, <1>6, <2>2, <3>1, CallerType DEF CallOk
    <3> QED
      BY <3>1, <3>2 DEF CallOk, Changing
  <2> QED
    BY <2>1, <2>2 DEF CallInv
<1>10. SeenInv'
  <2> SUFFICES ASSUME NEW u \in Trucks
               PROVE  \/ InSet(u)'
                      \/ call'[WebSocket].truck = u /\ Joining(call'[WebSocket])
                      \/ \E x \in Sensors : call'[x].truck = u /\ Freeing(call'[x])
    BY DEF SeenInv
  <2>1. CASE u = t /\ c = WebSocket
    BY <1>3, <1>5, <2>1 DEF Joining
  <2>2. CASE u = t /\ c # WebSocket
    BY <1>4, <1>6, <2>2, CallerType DEF InSet
  <2>3. CASE u # t
    <3>1. InSet(u) => InSet(u)'
      BY <1>1, <1>6, <2>3 DEF InSet
    <3> QED
      BY <1>1, <1>5, <2>3, <3>1, CallerType DEF CallsInv, SeenInv
  <2> QED
    BY <2>1, <2>2, <2>3
<1>11. MovesInv'
  BY <1>1, <1>2, <1>5, MovesKept
<1>12. DrivesInv' /\ LitInv'
  BY <1>1, DrivesKept DEF LitInv
<1> QED
  BY <1>7, <1>8, <1>9, <1>10, <1>11, <1>12 DEF SimInv, CallsInv

\* One listener has returned.
LEMMA ToldStep ==
  ASSUME SimInv, NEW c \in Callers, call[c].pc \in {"tell", "home"},
         call' = [call EXCEPT ![c] = Told(call[c])]
  PROVE  CallStep(c, Told(call[c])) /\ StillTo(c, Told(call[c])) /\ Told(call[c]).pc # "home"
<1> DEFINE h == Told(call[c])
<1>1. TypeOK /\ CallsInv /\ call[c] \in Calls
  BY CallType DEF SimInv
<1>2. h \in Calls /\ Same(h, call[c]) /\ h.pc \in {"tell", "return"}
  BY <1>1, ToldType
<1>3. call' = [call EXCEPT ![c] = h]
  OBVIOUS
<1> HIDE DEF h
<1>4. CallOk(c, h)
  BY <1>1, <1>2 DEF CallOk, Same, CallsInv, CallInv
<1>5. CallStep(c, h) /\ StillTo(c, h) /\ h.pc # "home"
  BY <1>2, <1>3, <1>4 DEF CallStep, StillTo, Joining, Freeing
<1> QED
  BY <1>5 DEF h

\* A listener of a truck that has a sensor does nothing.
LEMMA TellNotKeeps ==
  ASSUME SimInv, NEW c \in Callers, TellUnavailable(c)
  PROVE  SimInv'
<1>1. call[c].pc = "tell" /\ CallUnchanged /\ call' = [call EXCEPT ![c] = Told(call[c])]
  BY DEF TellUnavailable
<1> QED
  BY <1>1, ToldStep, CallAlone

\* A drive home that is stopped leaves the truck to the order that stopped it.
LEMMA DriveHomeEndsKeeps ==
  ASSUME SimInv, NEW c \in Callers, DriveHomeEnds(c)
  PROVE  SimInv'
<1>1. /\ TypeOK /\ CallsInv /\ DrivesInv /\ MovesInv /\ StoppedInv /\ RoadInv /\ LitInv
      /\ call[c].pc = "home" /\ call[c].truck \in Trucks
      /\ call' = [call EXCEPT ![c] = Told(call[c])]
      /\ call[c].ticks = 0 \/ ~running[call[c].truck]
      /\ UNCHANGED <<available, fires, intensity, crew, fire, place, sensor, listeners,
                     destination, running, drive, ws, reported, stranded, raced>>
  BY CallTruck DEF SimInv, MovesInv, DriveHomeEnds, DriveEnds, CallUnchanged, sensorVars, truckVars, history
<1>2. CallsInv' /\ call' \in [Callers -> Calls]
  BY <1>1, ToldStep, CallsGoOn
<1>3. \A x \in Callers \ {c} : call'[x] = call[x]
  BY <1>1 DEF TypeOK
<1>4. TypeOK'
  BY <1>1, <1>2 DEF TypeOK
<1>5. ASSUME NEW u \in Trucks, place'[u] \in Nat \ {Station}
      PROVE  OnTheRoad(u)'
  <2>1. OnTheRoad(u)
    BY <1>1, <1>5 DEF RoadInv
  <2>2. CASE call[c].truck = u /\ ~running[u]
    BY <1>1, <2>1, <2>2 DEF StoppedInv, OnTheRoad
  <2>3. CASE ~(call[c].truck = u /\ ~running[u])
    BY <1>1, <1>3, <2>1, <2>3 DEF OnTheRoad
  <2> QED
    BY <2>2, <2>3
<1>6. MovesInv'
  BY <1>1, <1>5 DEF MovesInv, StoppedInv, RoadInv
<1>7. DrivesInv' /\ LitInv'
  BY <1>1, DrivesKept DEF LitInv
<1> QED
  BY <1>2, <1>4, <1>6, <1>7 DEF SimInv

\* A truck that goes home has a route again, unless it has been stopped.
LEMMA TellKeeps ==
  ASSUME SimInv, NEW c \in Callers, TellAvailable(c)
  PROVE  SimInv'
<1> DEFINE t == call[c].truck
           home == [call[c] EXCEPT !.pc = "home", !.ticks = DriveTicks]
           throw == [call[c] EXCEPT !.pc = "throw"]
<1>1. /\ TypeOK /\ CallsInv /\ DrivesInv /\ MovesInv /\ StoppedInv /\ RoadInv /\ LitInv
      /\ call[c].pc = "tell" /\ t \in Trucks /\ call[c] \in Calls
      /\ UNCHANGED <<available, fires, intensity, crew, fire, place, sensor, listeners,
                     destination, running, drive, ws, raced>>
      /\ reported' = reported \cup {t}
  BY CallTruck, CallType DEF SimInv, MovesInv, TellAvailable, sensorVars, truckVars
<1>2. \/ /\ call' = [call EXCEPT ![c] = home]
         /\ stranded' = IF running[t] THEN stranded \ {t} ELSE stranded
      \/ call' = [call EXCEPT ![c] = Told(call[c])] /\ stranded \subseteq stranded'
      \/ call' = [call EXCEPT ![c] = throw] /\ stranded \subseteq stranded'
  BY DEF TellAvailable, Goto, Left
<1>3. ~Joining(call[c]) /\ ~Freeing(call[c]) /\ "throw" \in Steps
  BY <1>1 DEF Joining, Freeing, Steps
<1>4. /\ home \in Calls /\ Same(home, call[c]) /\ home.pc = "home" /\ home.ticks = DriveTicks
      /\ throw \in Calls /\ Same(throw, call[c]) /\ throw.pc = "throw"
  BY <1>1, <1>3, Ticks, HomeType, PcType
<1> HIDE DEF home, throw
<1>5. CallOk(c, home) /\ CallOk(c, throw)
  BY <1>1, <1>4 DEF CallOk, Same, CallsInv, CallInv
<1>6. \E h : CallStep(c, h) /\ StillTo(c, h)
  <2>1. CASE call' = [call EXCEPT ![c] = home]
    BY <1>1, <1>3, <1>4, <1>5, <2>1 DEF CallStep, StillTo
  <2>2. CASE call' = [call EXCEPT ![c] = throw]
    BY <1>1, <1>3, <1>4, <1>5, <2>2 DEF CallStep, StillTo
  <2>3. CASE call' = [call EXCEPT ![c] = Told(call[c])]
    BY <1>1, <2>3, ToldStep
  <2> QED
    BY <1>2, <2>1, <2>2, <2>3
<1>7. CallsInv' /\ call' \in [Callers -> Calls] /\ \A x \in Callers \ {c} : call'[x] = call[x]
  <2>1. PICK h : CallStep(c, h) /\ StillTo(c, h)
    BY <1>6
  <2> QED
    BY <1>1, <2>1, CallsGoOn DEF CallStep, TypeOK
<1>8. TypeOK'
  <2>1. stranded' \subseteq Trucks
    BY <1>1 DEF TellAvailable, Left, TypeOK
  <2> QED
    BY <1>1, <1>7, <2>1 DEF TypeOK
<1>9. MovesInv'
  <2>1. CASE stranded \subseteq stranded'
    BY <1>1, <1>7, <2>1, MovesKept
  <2>2. CASE call' = [call EXCEPT ![c] = home] /\ running[t] /\ stranded' = stranded \ {t}
    <3>1. StoppedInv'
      BY <1>1, <2>2 DEF StoppedInv
    <3>2. call'[c] = home /\ home.truck = t /\ home.ticks > 0 /\ home.pc = "home"
      BY <1>1, <1>4, <2>2, Ticks DEF TypeOK, Same
    <3>3. ASSUME NEW u \in Trucks, place[u] \in Nat \ {Station}
          PROVE  OnTheRoad(u)'
      <4>1. OnTheRoad(u) /\ drive' = drive /\ ws' = ws
        BY <1>1, <3>3 DEF RoadInv
      <4>2. CASE u = t
        BY <3>2, <4>1, <4>2 DEF OnTheRoad
      <4>3. CASE u # t
        BY <1>1, <1>7, <2>2, <4>1, <4>3 DEF OnTheRoad
      <4> QED
        BY <4>2, <4>3
    <3> QED
      BY <1>1, <3>1, <3>3 DEF MovesInv, RoadInv
  <2> QED
    BY <1>2, <2>1, <2>2
<1>10. DrivesInv' /\ LitInv'
  BY <1>1, DrivesKept DEF LitInv
<1> QED
  BY <1>7, <1>8, <1>9, <1>10 DEF SimInv

\* A tick home: the truck is on a road while a tick is left, and then at home.
LEMMA DriveHomeKeeps ==
  ASSUME SimInv, NEW c \in Callers, DriveHome(c)
  PROVE  SimInv'
<1> DEFINE t == call[c].truck
           n == call[c].ticks
           k == n - 1
           h == [call[c] EXCEPT !.ticks = k]
<1>1. /\ TypeOK /\ CallsInv /\ DrivesInv /\ MovesInv /\ StoppedInv /\ RoadInv /\ LitInv
      /\ call[c].pc = "home" /\ t \in Trucks /\ call[c] \in Calls
      /\ UNCHANGED <<available, fires, intensity, crew, fire, sensor, listeners,
                     destination, running, drive, ws, reported, stranded, raced>>
      /\ call' = [call EXCEPT ![c] = h]
      /\ n > 0 /\ running[t] /\ place' = [place EXCEPT ![t] = IF n > 1 THEN Len(drive[t]) ELSE Home]
  BY CallTruck, CallType DEF SimInv, MovesInv, DriveHome, Advance, sensorVars, history
<1>2. n \in 0 .. 2 /\ k \in 0 .. DriveTicks /\ (n > 1 => k > 0)
  <2>1. n \in 0 .. 2
    BY <1>1 DEF Calls, DriveTicks
  <2> QED
    BY <1>1, <2>1 DEF DriveTicks
<1>3. h \in Calls /\ Same(h, call[c]) /\ h.pc = "home" /\ h.ticks = k
  <2> HIDE DEF k
  <2> QED
    BY <1>1, <1>2, HomeType
<1> HIDE DEF h, k
<1>4. CallOk(c, h)
  BY <1>1, <1>3 DEF CallOk, Same, CallsInv, CallInv
<1>5. CallStep(c, h) /\ StillTo(c, h)
  BY <1>1, <1>3, <1>4 DEF CallStep, StillTo, Joining, Freeing
<1>6. /\ CallsInv' /\ call' \in [Callers -> Calls] /\ call'[c] = h
      /\ \A x \in Callers \ {c} : call'[x] = call[x]
  BY <1>1, <1>3, <1>5, CallsGoOn, CallChanges
<1> HIDE DEF n, t
<1>7. drive[t] \in Seq(TruckThreads) /\ drive[t] # <<>> /\ Len(drive[t]) \in Nat
  BY <1>1, LenProperties DEF TypeOK, StoppedInv
<1>8. /\ place' \in [Trucks -> Places] /\ place'[t] = (IF n > 1 THEN Len(drive[t]) ELSE Home)
      /\ \A u \in Trucks \ {t} : place'[u] = place[u]
  BY <1>1, <1>7 DEF TypeOK, Places
<1>9. TypeOK'
  BY <1>1, <1>6, <1>8 DEF TypeOK
<1>10. ASSUME NEW u \in Trucks, place'[u] \in Nat \ {Station}
       PROVE  OnTheRoad(u)'
  <2>1. CASE u = t
    <3>1. n > 1
      BY <1>8, <1>10, <2>1, PlacesType
    <3>2. h.ticks > 0 /\ h.truck = t
      BY <1>2, <1>3, <3>1 DEF Same, t
    <3> QED
      BY <1>1, <1>3, <1>6, <1>7, <2>1, <3>2 DEF OnTheRoad
  <2>2. CASE u # t
    <3>1. OnTheRoad(u) /\ call[c].truck # u
      BY <1>1, <1>8, <1>10, <2>2 DEF RoadInv, t
    <3> QED
      BY <1>1, <1>6, <3>1 DEF OnTheRoad
  <2> QED
    BY <2>1, <2>2
<1>11. MovesInv'
  BY <1>1, <1>10 DEF MovesInv, StoppedInv, RoadInv
<1>12. DrivesInv' /\ LitInv'
  BY <1>1, DrivesKept DEF LitInv
<1> QED
  BY <1>6, <1>9, <1>11, <1>12 DEF SimInv

\* Every step of a call.
LEMMA SetSensorKeeps ==
  ASSUME SimInv, NEW c \in Callers, SetSensor(c)
  PROVE  SimInv'
BY ReadingKeeps, NotingKeeps, ChangeKeeps, AssignKeeps, TellNotKeeps, TellKeeps, DriveHomeKeeps,
   DriveHomeEndsKeeps DEF SetSensor

----------------------------------------------------------------------------
(* The threads of the fires. *)

\* Noticing that the list has changed alters no more than `touched`.
LEMMA TouchListType ==
  ASSUME TypeOK
  PROVE  /\ TouchList(fire) \in [Sensors -> FireThreads]
         /\ \A s \in Sensors : TouchList(fire)[s].pc = fire[s].pc
<1> DEFINE b(s) == fire[s].touched \/ fire[s].pc = "add"
           g(s) == [fire[s] EXCEPT !.touched = b(s)]
<1>1. ASSUME NEW s \in Sensors
      PROVE  g(s) \in FireThreads /\ g(s).pc = fire[s].pc
  <2>1. b(s) \in BOOLEAN /\ fire[s] \in FireThreads
    BY DEF TypeOK
  <2> HIDE DEF b
  <2> QED
    BY <2>1 DEF FireThreads
<1>2. TouchList(fire) = [s \in Sensors |-> g(s)]
  BY DEF TouchList
<1> HIDE DEF g
<1> QED
  BY <1>1, <1>2

\* The threads that begin something, or end.
LEMMA FireType ==
  /\ NoFire \in FireThreads /\ NoFire.pc = "none"
  /\ Dead \in FireThreads /\ Dead.pc = "dead"
  /\ \A pc \in {"sleep", "add"} : LET g == [NoFire EXCEPT !.pc = pc] IN g \in FireThreads /\ g.pc = pc
  /\ \A left \in SUBSET Items :
        LET g == [NoFire EXCEPT !.pc = "next", !.left = left] IN g \in FireThreads /\ g.pc = "next"
BY DEF NoFire, Dead, FireThreads

\* The thread of a fire has gone on, and its call to h.
FireStep(s, h) ==
    /\ fire' \in [Sensors -> FireThreads]
    /\ \A x \in Sensors \ {s} : fire'[x].pc = fire[x].pc
    /\ h \in Calls /\ CallOk(s, h) /\ (h.pc # "idle" => fire'[s].pc = "set")
    /\ call[s].pc # "home" /\ ~Freeing(call[s])
    /\ call' = [call EXCEPT ![s] = h]
    /\ UNCHANGED <<crew, truckVars, ws, history>>

\* The list of the sensors without a fire, and how they burn.
Lists(s) ==
    /\ available' \subseteq available \cup {s} /\ (s \in available' => fire'[s].pc = "none")
    /\ fires' \in [Sensors -> 0 .. MaxFires] /\ intensity' \in [Sensors -> 0 .. MaxIntensity - 1]

\* It takes no truck out of a set and moves none.
LEMMA FireKeeps ==
  ASSUME SimInv, NEW s \in Sensors, NEW h, FireStep(s, h), Lists(s)
  PROVE  SimInv'
<1>1. /\ TypeOK /\ CallsInv /\ DrivesInv /\ MovesInv /\ LitInv
      /\ UNCHANGED <<crew, place, sensor, listeners, destination, running, drive, ws,
                     reported, stranded, raced>>
      /\ fire' \in [Sensors -> FireThreads] /\ \A x \in Sensors \ {s} : fire'[x].pc = fire[x].pc
      /\ h \in Calls /\ CallOk(s, h) /\ (h.pc # "idle" => fire'[s].pc = "set")
      /\ call[s].pc # "home" /\ ~Freeing(call[s])
  BY DEF SimInv, FireStep, truckVars, history
<1>2. s \in Callers /\ s # WebSocket /\ \A x \in Sensors : x \in Callers
  BY CallerType
<1>3. /\ call' \in [Callers -> Calls] /\ call'[s] = h
      /\ \A x \in Callers \ {s} : call'[x] = call[x]
  BY <1>1, <1>2, CallChanges DEF FireStep
<1>4. TypeOK'
  BY <1>1, <1>3 DEF TypeOK, Lists
<1>5. OrderInv'
  BY <1>1, <1>2, <1>3, CallerType DEF CallsInv, OrderInv
<1>6. CallInv'
  BY <1>1, <1>3 DEF CallsInv, CallInv, CallOk, Changing
<1>7. SeenInv'
  <2> SUFFICES ASSUME NEW t \in Trucks, ~InSet(t)
               PROVE  \/ call'[WebSocket].truck = t /\ Joining(call'[WebSocket])
                      \/ \E x \in Sensors : call'[x].truck = t /\ Freeing(call'[x])
    BY <1>1 DEF SeenInv, InSet
  <2>1. CASE call[WebSocket].truck = t /\ Joining(call[WebSocket])
    BY <1>2, <1>3, <2>1, CallerType
  <2>2. CASE \E x \in Sensors : call[x].truck = t /\ Freeing(call[x])
    <3>1. PICK x \in Sensors : call[x].truck = t /\ Freeing(call[x])
      BY <2>2
    <3>2. x # s
      BY <1>1, <3>1
    <3> QED
      BY <1>2, <1>3, <3>1, <3>2
  <2> QED
    BY <1>1, <2>1, <2>2 DEF CallsInv, SeenInv
<1>8. MovesInv'
  <2>1. \A c \in Callers : call[c].pc = "home" =>
           call'[c].pc = "home" /\ call'[c].truck = call[c].truck /\ call'[c].ticks = call[c].ticks
    BY <1>1, <1>3
  <2> QED
    BY <1>1, <2>1, MovesKept
<1>9. DrivesInv' /\ LitInv'
  BY <1>1, DrivesKept DEF LitInv, Lists, TypeOK
<1> QED
  BY <1>4, <1>5, <1>6, <1>7, <1>8, <1>9 DEF SimInv, CallsInv

\* A fire that calls nothing is not in a call.
LEMMA FireCallsNot ==
  ASSUME SimInv, NEW s \in Sensors, fire[s].pc # "set", call' = call
  PROVE  /\ call[s].pc = "idle" /\ call[s] \in Calls /\ CallOk(s, call[s])
         /\ call[s].pc # "home" /\ ~Freeing(call[s]) /\ call' = [call EXCEPT ![s] = call[s]]
<1>1. TypeOK /\ OrderInv /\ CallInv /\ s \in Callers
  BY CallerType DEF SimInv, CallsInv
<1>2. call[s].pc = "idle" /\ call[s] \in Calls /\ CallOk(s, call[s])
  BY <1>1 DEF OrderInv, CallInv, TypeOK
<1> QED
  BY <1>1, <1>2 DEF Freeing, TypeOK

\* A thread whose record is replaced leaves those of the other sensors.
LEMMA FireChanges ==
  ASSUME TypeOK, NEW s \in Sensors, NEW g \in FireThreads, fire' = [fire EXCEPT ![s] = g]
  PROVE  /\ fire' \in [Sensors -> FireThreads] /\ fire'[s] = g
         /\ \A x \in Sensors \ {s} : fire'[x].pc = fire[x].pc
BY DEF TypeOK

\* The steps of a thread that call nothing and leave the list alone.
LEMMA FireAlone ==
  ASSUME SimInv, NEW s \in Sensors, NEW g \in FireThreads, fire' = [fire EXCEPT ![s] = g],
         fire[s].pc \notin {"none", "set"},
         intensity' \in [Sensors -> 0 .. MaxIntensity - 1],
         UNCHANGED <<available, fires, crew, truckVars, ws, call, history>>
  PROVE  SimInv'
<1>1. TypeOK /\ LitInv
  BY DEF SimInv
<1>2. FireStep(s, call[s])
  BY <1>1, FireChanges, FireCallsNot DEF FireStep
<1>3. Lists(s)
  BY <1>1 DEF Lists, LitInv, TypeOK
<1> QED
  BY <1>2, <1>3, FireKeeps

\* The fire burns on: the intensity stays in its bounds, below and above.
LEMMA BurnKeeps ==
  ASSUME SimInv, NEW s \in Sensors, WakeUp(s) \/ Burn(s) \/ ModifiedConcurrently(s) \/ StartAdd(s)
  PROVE  SimInv'
<1>1. TypeOK /\ fire[s] \in FireThreads /\ crew[s] \in SUBSET Items
      /\ intensity \in [Sensors -> 0 .. MaxIntensity - 1]
  BY DEF SimInv, TypeOK
<1>2. CASE WakeUp(s)
  <2> DEFINE g == [fire[s] EXCEPT !.pc = "look", !.touched = FALSE]
  <2>1. g \in FireThreads
    BY <1>1 DEF FireThreads
  <2>2. fire' = [fire EXCEPT ![s] = g] /\ fire[s].pc = "sleep"
        /\ UNCHANGED <<available, fires, intensity, crew, truckVars, ws, call, history>>
    BY <1>2 DEF WakeUp, sensorVars
  <2> HIDE DEF g
  <2> QED
    BY <1>1, <2>1, <2>2, FireAlone
<1>3. CASE Burn(s)
  <2>1. PICK i : /\ i = SetIntensity(intensity[s], intensity[s] + 1)
                    \/ i = SetIntensity(intensity[s], intensity[s] - 1)
                 /\ intensity' = [intensity EXCEPT ![s] = i]
                 /\ fire' = [fire EXCEPT ![s] =
                        IF i > 0 THEN [NoFire EXCEPT !.pc = "sleep"]
                        ELSE [NoFire EXCEPT !.pc = "next", !.left = crew[s]]]
    BY <1>3 DEF Burn
  <2>2. intensity' \in [Sensors -> 0 .. MaxIntensity - 1]
    BY <1>1, <2>1 DEF SetIntensity
  <2> DEFINE g == IF i > 0 THEN [NoFire EXCEPT !.pc = "sleep"]
                  ELSE [NoFire EXCEPT !.pc = "next", !.left = crew[s]]
  <2>3. g \in FireThreads
    BY <1>1, FireType
  <2>4. fire' = [fire EXCEPT ![s] = g] /\ fire[s].pc = "look"
        /\ UNCHANGED <<available, fires, crew, truckVars, ws, call, history>>
    BY <1>3, <2>1 DEF Burn
  <2> HIDE DEF g
  <2> QED
    BY <2>2, <2>3, <2>4, FireAlone
<1>4. CASE ModifiedConcurrently(s) \/ StartAdd(s)
  <2>1. /\ \E g \in FireThreads : fire' = [fire EXCEPT ![s] = g]
        /\ fire[s].pc \in {"look", "next"}
        /\ UNCHANGED <<available, fires, intensity, crew, truckVars, ws, call, history>>
    BY <1>4, FireType DEF ModifiedConcurrently, StartAdd, sensorVars
  <2> QED
    BY <1>1, <2>1, FireAlone
<1> QED
  BY <1>2, <1>3, <1>4

\* A truck is released: its sensor is about to be taken from it.
LEMMA ReleaseKeeps ==
  ASSUME SimInv, NEW s \in Sensors, ReleaseTruck(s) \/ TruckReleased(s) \/ ReleaseFails(s)
  PROVE  SimInv'
<1>1. /\ TypeOK /\ LitInv /\ CallsInv /\ OrderInv /\ fire[s] \in FireThreads
      /\ s \in Callers /\ available \subseteq Sensors
      /\ fires \in [Sensors -> 0 .. MaxFires] /\ intensity \in [Sensors -> 0 .. MaxIntensity - 1]
  BY CallerType DEF SimInv, CallsInv, TypeOK
<1>2. CASE ReleaseTruck(s)
  <2>1. PICK i \in fire[s].left :
           /\ fire' = [fire EXCEPT ![s].pc = "set", ![s].left = @ \ {i}]
           /\ call' = [call EXCEPT ![s] = [NoCall EXCEPT !.pc = "test", !.truck = i[1]]]
    BY <1>2 DEF ReleaseTruck
  <2> DEFINE left == fire[s].left \ {i}
             g == [fire[s] EXCEPT !.pc = "set", !.left = left]
             t == i[1]
             h == [NoCall EXCEPT !.pc = "test", !.truck = t]
  <2>2. left \in SUBSET Items /\ t \in Trucks
    BY <1>1 DEF FireThreads, Items
  <2>3. fire' = [fire EXCEPT ![s] = g] /\ call' = [call EXCEPT ![s] = h] /\ fire[s].pc = "next"
        /\ UNCHANGED <<available, fires, intensity, crew, truckVars, ws, history>>
    BY <1>2, <2>1 DEF ReleaseTruck, sensorVars
  <2> HIDE DEF left, t
  <2>4. g \in FireThreads /\ g.pc = "set"
    BY <1>1, <2>2 DEF FireThreads
  <2>5. h \in Calls /\ h.pc = "test" /\ h.truck = t /\ h.to = NoSensor
    BY <2>2, NoCallType DEF Calls, Steps
  <2> HIDE DEF g, h
  <2>6. CallOk(s, h)
    BY <2>2, <2>5 DEF CallOk
  <2>7. call[s].pc = "idle" /\ ~Freeing(call[s])
    BY <1>1, <2>3 DEF OrderInv, Freeing
  <2>8. FireStep(s, h)
    BY <1>1, <2>3, <2>4, <2>5, <2>6, <2>7, FireChanges DEF FireStep
  <2>9. Lists(s)
    BY <1>1, <2>3 DEF Lists, LitInv
  <2> QED
    BY <2>8, <2>9, FireKeeps
<1>3. CASE TruckReleased(s) \/ ReleaseFails(s)
  <2>1. /\ call[s].pc \in {"return", "throw"} /\ call' = [call EXCEPT ![s] = NoCall]
        /\ fire' = [fire EXCEPT ![s].pc = "next"] \/ fire' = [fire EXCEPT ![s] = Dead]
        /\ UNCHANGED <<available, fires, intensity, crew, truckVars, ws, history>>
    BY <1>3 DEF TruckReleased, ReleaseFails, sensorVars
  <2> DEFINE g == [fire[s] EXCEPT !.pc = "next"]
  <2>2. g \in FireThreads /\ Dead \in FireThreads
    BY <1>1, FireType DEF FireThreads
  <2>3. fire' = [fire EXCEPT ![s] = g] \/ fire' = [fire EXCEPT ![s] = Dead]
    BY <2>1
  <2> HIDE DEF g
  <2>4. fire' \in [Sensors -> FireThreads] /\ \A x \in Sensors \ {s} : fire'[x].pc = fire[x].pc
    BY <1>1, <2>2, <2>3, FireChanges
  <2>5. CallOk(s, NoCall) /\ NoCall \in Calls /\ NoCall.pc = "idle"
    BY NoCallType DEF CallOk
  <2>6. FireStep(s, NoCall)
    BY <2>1, <2>4, <2>5 DEF FireStep, Freeing
  <2>7. fire[s].pc = "set"
    BY <1>1, <2>1 DEF OrderInv
  <2>8. Lists(s)
    BY <1>1, <2>1, <2>7 DEF Lists, LitInv
  <2> QED
    BY <2>6, <2>8, FireKeeps
<1> QED
  BY <1>2, <1>3

\* The list of the sensors without a fire: one that is in it has no thread.
LEMMA ListKeeps ==
  ASSUME SimInv, NEW s \in Sensors, LightFire(s) \/ SetAvailable(s)
  PROVE  SimInv'
<1> DEFINE g == TouchList(fire)
<1>1. /\ TypeOK /\ LitInv /\ CallsInv /\ fire[s].pc \in {"none", "add"}
      /\ fires \in [Sensors -> 0 .. MaxFires] /\ intensity \in [Sensors -> 0 .. MaxIntensity - 1]
      /\ UNCHANGED <<crew, truckVars, ws, call, history>>
  BY DEF SimInv, LitInv, LightFire, SetAvailable, TypeOK
<1>2. g \in [Sensors -> FireThreads] /\ \A x \in Sensors : g[x].pc = fire[x].pc
  BY <1>1, TouchListType
<1>3. CASE LightFire(s)
  <2> DEFINE h == [g[s] EXCEPT !.pc = "sleep"]
  <2>1. h \in FireThreads
    <3>1. g[s] \in FireThreads
      BY <1>2
    <3> HIDE DEF g
    <3> QED
      BY <3>1 DEF FireThreads
  <2>2. fire' = [g EXCEPT ![s] = h] /\ available' = available \ {s}
        /\ fires[s] < MaxFires /\ fires' = [fires EXCEPT ![s] = @ + 1]
    BY <1>3 DEF LightFire
  <2> HIDE DEF g, h
  <2>3. fire' \in [Sensors -> FireThreads] /\ \A x \in Sensors \ {s} : fire'[x].pc = fire[x].pc
    BY <1>2, <2>1, <2>2
  <2>4. intensity' \in [Sensors -> 0 .. MaxIntensity - 1]
    <3>1. PICK i \in 1 .. MaxInitial : intensity' = [intensity EXCEPT ![s] = i]
      BY <1>3 DEF LightFire
    <3>2. i \in 0 .. MaxIntensity - 1
      BY IntensityType
    <3> QED
      BY <1>1, <3>1, <3>2
  <2>5. fires' \in [Sensors -> 0 .. MaxFires]
    BY <1>1, <2>2, BoundsType
  <2>6. FireStep(s, call[s])
    BY <1>1, <2>3, FireCallsNot DEF FireStep
  <2>7. Lists(s)
    BY <2>2, <2>4, <2>5 DEF Lists
  <2> QED
    BY <2>6, <2>7, FireKeeps
<1>4. CASE SetAvailable(s)
  <2>1. /\ fire' = [g EXCEPT ![s] = NoFire] /\ available' \subseteq available \cup {s}
        /\ UNCHANGED <<fires, intensity>>
    BY <1>4 DEF SetAvailable
  <2> HIDE DEF g
  <2>2. /\ fire' \in [Sensors -> FireThreads] /\ fire'[s].pc = "none"
        /\ \A x \in Sensors \ {s} : fire'[x].pc = fire[x].pc
    BY <1>2, <2>1, FireType
  <2>3. FireStep(s, call[s])
    BY <1>1, <2>2, FireCallsNot DEF FireStep
  <2>4. Lists(s)
    BY <1>1, <2>1, <2>2 DEF Lists
  <2> QED
    BY <2>3, <2>4, FireKeeps
<1> QED
  BY <1>3, <1>4

\* Every step of the threads of the fires.
LEMMA FireThreadKeeps ==
  ASSUME SimInv, NEW s \in Sensors, LightFire(s) \/ FireThread(s)
  PROVE  SimInv'
BY CallerType, BurnKeeps, ReleaseKeeps, ListKeeps, SetSensorKeeps DEF FireThread

----------------------------------------------------------------------------
(* The threads of the trucks. *)

\* One thread of a truck is replaced, and all the others are as before.
GoneOn(t, n, th) ==
    /\ drive' \in [Trucks -> Seq(TruckThreads)]
    /\ \A u \in Trucks : Len(drive'[u]) = Len(drive[u])
    /\ \A u \in Trucks : (drive'[u] = <<>>) <=> (drive[u] = <<>>)
    /\ drive'[t][n] = th
    /\ \A u \in Trucks, m \in Nat : u # t \/ m # n => drive'[u][m] = drive[u][m]

\* What EXCEPT on a sequence of threads means.
LEMMA ThreadGoesOn ==
  ASSUME TypeOK, NEW t \in Trucks, NEW n \in 1 .. Len(drive[t]), NEW th \in TruckThreads,
         drive' = [drive EXCEPT ![t][n] = th]
  PROVE  GoneOn(t, n, th)
<1>1. drive[t] \in Seq(TruckThreads) /\ drive \in [Trucks -> Seq(TruckThreads)]
  BY DEF TypeOK
<1> DEFINE new == [drive[t] EXCEPT ![n] = th]
<1>2. /\ new \in Seq(TruckThreads) /\ Len(new) = Len(drive[t])
      /\ new[n] = th /\ \A m \in Nat : m # n => new[m] = drive[t][m]
  <2>1. /\ new \in Seq(TruckThreads) /\ Len(new) = Len(drive[t])
        /\ \A j \in 1 .. Len(drive[t]) : new[j] = IF j = n THEN th ELSE drive[t][j]
    BY <1>1, ExceptSeq
  <2>2. \A m : m # n => new[m] = drive[t][m]
    BY <1>1
  <2> QED
    BY <2>1, <2>2
<1>3. drive' = [drive EXCEPT ![t] = new]
  OBVIOUS
<1>4. new # <<>> /\ drive[t] # <<>>
  BY <1>1, <1>2, LenProperties, EmptySeq
<1> HIDE DEF new
<1> QED
  BY <1>1, <1>2, <1>3, <1>4 DEF GoneOn

\* Calls that have noted at most that a listener has been added.
OnlyNoted ==
    /\ call' \in [Callers -> Calls]
    /\ \A c \in Callers :
          /\ Same(call'[c], call[c]) /\ call'[c].pc = call[c].pc /\ call'[c].op = call[c].op
          /\ call'[c].at = call[c].at /\ call'[c].next = call[c].next
          /\ call'[c].ticks = call[c].ticks /\ call'[c].item = call[c].item
          /\ call'[c].old = call[c].old /\ call'[c].torn = call[c].torn

\* The n-th drive of a truck has gone on to `th`.
DriveStep(t, n, th) ==
    /\ th \in TruckThreads /\ drive[t][n].pc # "over"
    /\ th.pc = "drive" => th.to \in Sensors
    /\ drive' = [drive EXCEPT ![t][n] = th]
    /\ OnlyNoted
    /\ UNCHANGED <<sensorVars, crew, fire, sensor, destination, ws, reported, raced>>

\* Calls that have noted nothing.
LEMMA NothingNoted ==
  ASSUME TypeOK, call' = call
  PROVE  OnlyNoted
BY DEF TypeOK, OnlyNoted, Same

\* A drive is a sequence of threads.
LEMMA DriveType ==
  ASSUME TypeOK, NEW t \in Trucks, NEW n \in 1 .. Len(drive[t])
  PROVE  /\ drive[t] \in Seq(TruckThreads) /\ drive[t][n] \in TruckThreads /\ drive[t] # <<>>
         /\ Len(drive[t]) \in Nat
<1>1. drive[t] \in Seq(TruckThreads)
  BY DEF TypeOK
<1> QED
  BY <1>1, ElementOfSeq, LenProperties, EmptySeq

\* What a thread of a truck keeps, whatever its step.
LEMMA DriveKeeps ==
  ASSUME SimInv, NEW t \in Trucks, NEW n \in 1 .. Len(drive[t]), NEW th, DriveStep(t, n, th)
  PROVE  /\ drive' \in [Trucks -> Seq(TruckThreads)] /\ call' \in [Callers -> Calls]
         /\ CallsInv' /\ DrivesInv' /\ LitInv'
<1>1. /\ TypeOK /\ OrderInv /\ CallInv /\ SeenInv /\ DestinationInv /\ JoinedInv
      /\ SecondOrderWaitsForFirst /\ LitInv
  BY DEF SimInv, CallsInv, DrivesInv
<1>2. /\ drive' \in [Trucks -> Seq(TruckThreads)]
      /\ \A u \in Trucks : Len(drive'[u]) = Len(drive[u])
      /\ \A u \in Trucks : (drive'[u] = <<>>) <=> (drive[u] = <<>>)
      /\ drive'[t][n] = th
      /\ \A u \in Trucks, m \in Nat : u # t \/ m # n => drive'[u][m] = drive[u][m]
  <2>1. GoneOn(t, n, th)
    BY <1>1, ThreadGoesOn DEF DriveStep
  <2> QED
    BY <2>1 DEF GoneOn
<1>3. ASSUME NEW u \in Trucks
      PROVE  1 .. Len(drive[u]) \subseteq Nat
  BY <1>1, LenProperties DEF TypeOK
<1>4. OnlyNoted /\ UNCHANGED <<available, crew, fire, sensor, destination, ws, raced>>
  BY DEF DriveStep, sensorVars
<1>5. OrderInv' /\ LitInv'
  BY <1>1, <1>4, CallerType DEF OrderInv, LitInv, OnlyNoted, Same
<1>6. CallInv'
  BY <1>1, <1>4 DEF CallInv, CallOk, Changing, OnlyNoted, Same
<1>7. SeenInv'
  <2>1. \A c \in Callers : (Joining(call[c]) => Joining(call'[c])) /\ (Freeing(call[c]) => Freeing(call'[c]))
    BY <1>4 DEF OnlyNoted, Joining, Freeing
  <2> QED
    BY <1>1, <1>4, <2>1, CallerType DEF SeenInv, InSet, OnlyNoted, Same
<1>8. DestinationInv'
  BY <1>1, <1>2, <1>3, <1>4 DEF DestinationInv, DriveStep
<1>9. JoinedInv'
  <2> SUFFICES ASSUME ws.pc = "set", drive'[ws.truck] # <<>>
               PROVE  drive'[ws.truck][1].pc = "over"
    BY <1>4 DEF JoinedInv
  <2>1. ws.truck \in Trucks
    BY <1>1 DEF OrderInv, NoOrder
  <2>2. drive[ws.truck][1].pc = "over"
    BY <1>1, <1>2, <2>1 DEF JoinedInv
  <2>3. ws.truck # t \/ n # 1
    BY <2>2 DEF DriveStep
  <2> QED
    BY <1>2, <2>1, <2>2, <2>3
<1>10. SecondOrderWaitsForFirst'
  <2>1. ASSUME NEW u \in Trucks
        PROVE  Underway(u)' \subseteq Underway(u)
    BY <1>2, <1>3, <2>1 DEF Underway, DriveStep
  <2> QED
    BY <1>1, <1>2, <2>1 DEF SecondOrderWaitsForFirst
<1> QED
  BY <1>2, <1>4, <1>5, <1>6, <1>7, <1>8, <1>9, <1>10 DEF CallsInv, DrivesInv, OnlyNoted

\* A truck leaves for its destination, or cannot.
LEMMA StartKeeps ==
  ASSUME SimInv, NEW t \in Trucks, NEW n \in 1 .. Len(drive[t]), StartDrive(t, n)
  PROVE  SimInv'
<1>1. /\ TypeOK /\ DestinationInv /\ StoppedInv /\ RoadInv
  BY DEF SimInv, DrivesInv, MovesInv
<1>2. /\ drive[t] \in Seq(TruckThreads) /\ drive[t][n] \in TruckThreads /\ drive[t] # <<>>
      /\ destination[t] \in Sensors
  BY <1>1, DriveType DEF DestinationInv
<1> DEFINE away == [drive[t][n] EXCEPT !.pc = "drive", !.to = destination[t], !.ticks = DriveTicks]
           over == [drive[t][n] EXCEPT !.pc = "over"]
<1>3. /\ drive[t][n].pc = "started" /\ running' = [running EXCEPT ![t] = TRUE]
      /\ UNCHANGED <<sensorVars, crew, fire, place, sensor, listeners, destination, ws, call,
                     reported, raced>>
      /\ \/ drive' = [drive EXCEPT ![t][n] = away] /\ stranded' = stranded \ {t}
         \/ /\ drive' = [drive EXCEPT ![t][n] = over]
            /\ stranded' = Left(t, destination[t])
  BY DEF StartDrive, BeginRun
<1>4. /\ over \in TruckThreads /\ over.pc = "over"
      /\ away \in TruckThreads /\ away.pc = "drive" /\ away.to = destination[t] /\ away.ticks = DriveTicks
  <2>1. over \in TruckThreads /\ over.pc = "over"
    BY <1>2 DEF TruckThreads
  <2>2. /\ away \in TruckThreads /\ away.pc = "drive" /\ away.to = destination[t]
        /\ away.ticks = DriveTicks
    <3> DEFINE to == destination[t]
    <3>1. to \in Sensors
      BY <1>2
    <3> HIDE DEF to
    <3>2. LET g == [drive[t][n] EXCEPT !.pc = "drive", !.to = to, !.ticks = DriveTicks]
          IN  g \in TruckThreads /\ g.pc = "drive" /\ g.to = to /\ g.ticks = DriveTicks
      BY <1>2, <3>1, Ticks DEF TruckThreads
    <3> QED
      BY <3>2 DEF to
  <2> QED
    BY <2>1, <2>2
<1> HIDE DEF away, over
<1>5. away.ticks > 0 /\ away # over
  BY <1>4, Ticks
<1>6. PICK th \in {away, over} : /\ DriveStep(t, n, th) /\ (th = away => stranded' = stranded \ {t})
                                 /\ (th = over => stranded' = Left(t, destination[t]))
  BY <1>1, <1>2, <1>3, <1>4, <1>5, NothingNoted DEF DriveStep
<1>7. /\ drive' \in [Trucks -> Seq(TruckThreads)] /\ call' \in [Callers -> Calls]
      /\ CallsInv' /\ DrivesInv' /\ LitInv'
  BY <1>6, DriveKeeps
<1>8. /\ \A u \in Trucks : Len(drive'[u]) = Len(drive[u])
      /\ \A u \in Trucks : (drive'[u] = <<>>) <=> (drive[u] = <<>>)
      /\ drive'[t][n] = th
      /\ \A u \in Trucks, m \in Nat : u # t \/ m # n => drive'[u][m] = drive[u][m]
  <2>1. GoneOn(t, n, th)
    BY <1>1, <1>6, ThreadGoesOn DEF DriveStep
  <2> QED
    BY <2>1 DEF GoneOn
<1>9. TypeOK'
  BY <1>1, <1>3, <1>6, <1>7 DEF TypeOK, Left, sensorVars
<1>10. \A u \in Trucks \ {t} : drive'[u] = drive[u] /\ (u \in stranded <=> u \in stranded')
  BY <1>1, <1>3 DEF TypeOK, Left
<1>11. StoppedInv'
  <2>1. running'[t] /\ \A u \in Trucks \ {t} : running'[u] = running[u]
    BY <1>1, <1>3 DEF TypeOK
  <2> QED
    BY <1>1, <1>2, <1>3, <1>8, <1>10, <2>1 DEF StoppedInv
<1>12. ASSUME NEW u \in Trucks, place[u] \in Nat \ {Station}
       PROVE  OnTheRoad(u)'
  <2>1. OnTheRoad(u)
    BY <1>1, <1>12 DEF RoadInv
  <2>2. CASE u # t
    BY <1>3, <1>10, <2>1, <2>2 DEF OnTheRoad
  <2>3. CASE u = t /\ th = away
    BY <1>2, <1>4, <1>5, <1>8, <2>3 DEF OnTheRoad
  <2>4. CASE u = t /\ th = over
    <3>1. Far(t, destination[t])
      BY <1>2, <1>12, <2>4, PlacesType DEF Far
    <3>2. t \in stranded'
      BY <1>6, <2>4, <3>1 DEF Left
    <3> QED
      BY <1>2, <1>8, <2>4, <3>2 DEF OnTheRoad
  <2> QED
    BY <2>2, <2>3, <2>4
<1>13. RoadInv'
  BY <1>3, <1>12 DEF RoadInv
<1> QED
  BY <1>7, <1>9, <1>11, <1>13 DEF SimInv, MovesInv

\* A tick of a drive: the truck is on a road, or at the end.
LEMMA TickKeeps ==
  ASSUME SimInv, NEW t \in Trucks, NEW n \in 1 .. Len(drive[t]), Drive(t, n)
  PROVE  SimInv'
<1>1. /\ TypeOK /\ DestinationInv /\ StoppedInv /\ RoadInv
  BY DEF SimInv, DrivesInv, MovesInv
<1>2. /\ drive[t] \in Seq(TruckThreads) /\ drive[t][n] \in TruckThreads /\ drive[t] # <<>>
      /\ Len(drive[t]) \in Nat
  BY <1>1, DriveType
<1> DEFINE k == drive[t][n].ticks
           to == drive[t][n].to
           left == k - 1
           th == [drive[t][n] EXCEPT !.ticks = left]
<1>3. /\ drive[t][n].pc = "drive" /\ k > 0 /\ running[t] /\ to \in Sensors
      /\ place' = [place EXCEPT ![t] = IF k > 1 THEN Len(drive[t]) ELSE to]
      /\ UNCHANGED <<sensorVars, crew, fire, sensor, listeners, destination, running, ws, call, history>>
      /\ drive' = [drive EXCEPT ![t][n] = th]
  BY <1>1 DEF Drive, Advance, DestinationInv
<1>4. k \in 0 .. 2 /\ left \in 0 .. DriveTicks
  BY <1>2, <1>3 DEF TruckThreads, DriveTicks
<1>5. th \in TruckThreads /\ th.pc = "drive" /\ th.to = to /\ th.ticks = left
  <2> HIDE DEF left
  <2> QED
    BY <1>2, <1>3, <1>4 DEF TruckThreads
<1> HIDE DEF th
<1>6. DriveStep(t, n, th)
  BY <1>1, <1>3, <1>5, NothingNoted DEF DriveStep, history
<1>7. /\ drive' \in [Trucks -> Seq(TruckThreads)] /\ call' \in [Callers -> Calls]
      /\ CallsInv' /\ DrivesInv' /\ LitInv'
  BY <1>6, DriveKeeps
<1>8. /\ \A u \in Trucks : Len(drive'[u]) = Len(drive[u])
      /\ \A u \in Trucks : (drive'[u] = <<>>) <=> (drive[u] = <<>>)
      /\ drive'[t][n] = th
      /\ \A u \in Trucks, m \in Nat : u # t \/ m # n => drive'[u][m] = drive[u][m]
  <2>1. GoneOn(t, n, th)
    BY <1>1, <1>3, <1>5, ThreadGoesOn
  <2> QED
    BY <2>1 DEF GoneOn
<1>9. /\ place' \in [Trucks -> Places] /\ place'[t] = (IF k > 1 THEN Len(drive[t]) ELSE to)
      /\ \A u \in Trucks \ {t} : place'[u] = place[u] /\ drive'[u] = drive[u]
  BY <1>1, <1>2, <1>3 DEF TypeOK, Places
<1>10. TypeOK'
  BY <1>1, <1>3, <1>7, <1>9 DEF TypeOK, sensorVars, history
<1>11. ASSUME NEW u \in Trucks, NEW m \in 1 .. Len(drive[u]), drive[u][m].pc = "started"
       PROVE  drive'[u][m].pc = "started"
  <2>1. m \in Nat
    BY <1>1, LenProperties DEF TypeOK
  <2> QED
    BY <1>3, <1>8, <1>11, <2>1
<1>12. StoppedInv'
  BY <1>1, <1>3, <1>8, <1>11 DEF StoppedInv, history
<1>13. ASSUME NEW u \in Trucks, place'[u] \in Nat \ {Station}
       PROVE  OnTheRoad(u)'
  <2>1. CASE u # t
    BY <1>1, <1>3, <1>9, <1>13, <2>1 DEF RoadInv, OnTheRoad, history
  <2>2. CASE u = t
    <3>1. k > 1
      BY <1>3, <1>9, <1>13, <2>2, PlacesType
    <3>2. th.ticks > 0
      BY <1>4, <1>5, <3>1
    <3> QED
      BY <1>2, <1>5, <1>8, <2>2, <3>2 DEF OnTheRoad
  <2> QED
    BY <2>1, <2>2
<1>14. RoadInv'
  BY <1>13 DEF RoadInv
<1> QED
  BY <1>7, <1>10, <1>12, <1>14 DEF SimInv, MovesInv

\* A drive that is stopped leaves the truck to the order that stopped it.
LEMMA StopKeeps ==
  ASSUME SimInv, NEW t \in Trucks, NEW n \in 1 .. Len(drive[t]), NEW th,
         drive[t][n].pc \in {"drive", "listen"},
         drive[t][n].pc = "drive" => drive[t][n].ticks = 0 \/ ~running[t],
         DriveStep(t, n, th), th.pc \in {"listen", "over"},
         listeners' \in [Trucks -> Nat],
         UNCHANGED <<place, running, stranded>>
  PROVE  SimInv'
<1>1. /\ TypeOK /\ StoppedInv /\ RoadInv
      /\ drive[t] # <<>> /\ th \in TruckThreads
      /\ UNCHANGED <<available, fires, intensity, crew, fire, sensor, destination, ws, reported, raced>>
  BY DriveType DEF SimInv, MovesInv, DriveStep, sensorVars
<1>2. /\ drive' \in [Trucks -> Seq(TruckThreads)] /\ call' \in [Callers -> Calls]
      /\ CallsInv' /\ DrivesInv' /\ LitInv'
  BY DriveKeeps
<1>3. /\ \A u \in Trucks : Len(drive'[u]) = Len(drive[u])
      /\ \A u \in Trucks : (drive'[u] = <<>>) <=> (drive[u] = <<>>)
      /\ drive'[t][n] = th
      /\ \A u \in Trucks, m \in Nat : u # t \/ m # n => drive'[u][m] = drive[u][m]
  <2>1. GoneOn(t, n, th)
    BY <1>1, ThreadGoesOn DEF DriveStep
  <2> QED
    BY <2>1 DEF GoneOn
<1>4. TypeOK'
  BY <1>1, <1>2 DEF TypeOK
<1>5. ASSUME NEW u \in Trucks, NEW m \in 1 .. Len(drive[u]), u # t \/ m # n
      PROVE  drive'[u][m] = drive[u][m]
  <2>1. m \in Nat
    BY <1>1, LenProperties DEF TypeOK
  <2> QED
    BY <1>3, <1>5, <2>1
<1>6. StoppedInv'
  BY <1>1, <1>3, <1>5 DEF StoppedInv
<1>7. \A c \in Callers : /\ call'[c].pc = call[c].pc /\ call'[c].truck = call[c].truck
                         /\ call'[c].ticks = call[c].ticks
  BY DEF DriveStep, OnlyNoted, Same
<1>8. ASSUME NEW u \in Trucks, place[u] \in Nat \ {Station}
      PROVE  OnTheRoad(u)'
  <2>1. OnTheRoad(u)
    BY <1>1, <1>8 DEF RoadInv
  <2>2. CASE u = t /\ ~running[t]
    BY <1>1, <1>3, <1>5, <2>2 DEF StoppedInv, OnTheRoad
  <2>3. CASE u # t \/ drive[t][n].pc # "drive" \/ drive[t][n].ticks = 0
    <3>1. drive'[u] # <<>>
      BY <1>3, <2>1 DEF OnTheRoad
    <3>2. ASSUME NEW m \in 1 .. Len(drive[u]),
                 drive[u][m].pc = "started" \/ (drive[u][m].pc = "drive" /\ drive[u][m].ticks > 0)
          PROVE  OnTheRoad(u)'
      <4>1. drive[t][n] \in TruckThreads
        BY <1>1, DriveType
      <4>2. drive[t][n].ticks \in Nat
        BY <4>1, Ticks DEF TruckThreads
      <4>3. u # t \/ m # n
        BY <2>3, <3>2, <4>2
      <4>4. drive'[u][m] = drive[u][m]
        BY <1>5, <4>3
      <4>5. m \in 1 .. Len(drive'[u])
        BY <1>3
      <4> QED
        BY <3>1, <3>2, <4>4, <4>5 DEF OnTheRoad
    <3>3. ASSUME NEW c \in Callers, call[c].pc = "home", call[c].truck = u, call[c].ticks > 0
          PROVE  OnTheRoad(u)'
      <4>1. call'[c].pc = "home" /\ call'[c].truck = u /\ call'[c].ticks > 0
        BY <1>7, <3>3
      <4> QED
        BY <3>1, <4>1 DEF OnTheRoad
    <3>4. CASE ws.truck = u \/ u \in stranded
      BY <1>1, <3>1, <3>4 DEF OnTheRoad
    <3> QED
      BY <2>1, <3>2, <3>3, <3>4 DEF OnTheRoad
  <2> QED
    BY <1>1, <2>2, <2>3
<1>9. RoadInv'
  BY <1>8 DEF RoadInv
<1> QED
  BY <1>2, <1>4, <1>6, <1>9 DEF SimInv, MovesInv

\* The thread listens to its truck, and ends.
LEMMA ListenKeeps ==
  ASSUME SimInv, NEW t \in Trucks, NEW n \in 1 .. Len(drive[t]),
         StartListening(t, n) \/ AddAvailabilityListener(t, n)
  PROVE  SimInv'
<1>1. TypeOK /\ drive[t][n] \in TruckThreads
  BY DriveType DEF SimInv
<1>2. CASE StartListening(t, n)
  <2> DEFINE known == listeners[t]
             th == [drive[t][n] EXCEPT !.pc = "listen", !.known = known]
  <2>1. /\ drive[t][n].pc = "drive" /\ (drive[t][n].ticks = 0 \/ ~running[t])
        /\ drive' = [drive EXCEPT ![t][n] = th]
        /\ UNCHANGED <<sensorVars, crew, fire, place, sensor, listeners, destination, running, ws,
                       call, history>>
    BY <1>2 DEF StartListening, DriveEnds
  <2>2. known \in Nat /\ listeners' \in [Trucks -> Nat]
    BY <1>1, <2>1 DEF TypeOK
  <2> HIDE DEF known
  <2>3. th \in TruckThreads /\ th.pc = "listen"
    BY <1>1, <2>2 DEF TruckThreads
  <2> HIDE DEF th
  <2>4. DriveStep(t, n, th)
    BY <1>1, <2>1, <2>3, NothingNoted DEF DriveStep, history
  <2>5. UNCHANGED <<place, running, stranded>>
    BY <2>1 DEF history
  <2> QED
    BY <2>1, <2>2, <2>3, <2>4, <2>5, StopKeeps
<1>3. CASE AddAvailabilityListener(t, n)
  <2> DEFINE th == [drive[t][n] EXCEPT !.pc = "over", !.known = 0]
             b(c) == call[c].touched \/ (call[c].truck = t /\ call[c].pc \in {"tell", "home"})
             g(c) == [call[c] EXCEPT !.touched = b(c)]
  <2>1. /\ drive[t][n].pc = "listen" /\ drive' = [drive EXCEPT ![t][n] = th]
        /\ call' = [c \in Callers |-> g(c)]
        /\ UNCHANGED <<sensorVars, crew, fire, place, sensor, destination, running, ws, history>>
    <3>1. drive' = [drive EXCEPT ![t][n] = th]
      BY <1>3 DEF AddAvailabilityListener
    <3>2. call' = [c \in Callers |-> g(c)]
      BY <1>3 DEF AddAvailabilityListener
    <3> HIDE DEF g
    <3> QED
      BY <1>3, <3>1, <3>2 DEF AddAvailabilityListener
  <2>2. th \in TruckThreads /\ th.pc = "over"
    BY <1>1 DEF TruckThreads
  <2>3. listeners' \in [Trucks -> Nat]
    <3>1. PICK count \in drive[t][n].known + 1 .. listeners[t] + 1 :
             listeners' = [listeners EXCEPT ![t] = count]
      BY <1>3 DEF AddAvailabilityListener
    <3>2. count \in Nat
      BY <1>1 DEF TypeOK, TruckThreads
    <3> QED
      BY <1>1, <3>1, <3>2 DEF TypeOK
  <2>4. ASSUME NEW c \in Callers
        PROVE  /\ g(c) \in Calls
               /\ Same(g(c), call[c]) /\ g(c).pc = call[c].pc /\ g(c).op = call[c].op
               /\ g(c).at = call[c].at /\ g(c).next = call[c].next
               /\ g(c).ticks = call[c].ticks /\ g(c).item = call[c].item
               /\ g(c).old = call[c].old /\ g(c).torn = call[c].torn
    <3>1. call[c] \in Calls /\ b(c) \in BOOLEAN
      BY <1>1, CallType
    <3> HIDE DEF b
    <3> QED
      BY <3>1 DEF Calls, Same
  <2> HIDE DEF g, th
  <2>5. OnlyNoted
    BY <2>1, <2>4 DEF OnlyNoted
  <2>6. DriveStep(t, n, th)
    BY <1>1, <2>1, <2>2, <2>5 DEF DriveStep, history
  <2>7. UNCHANGED <<place, running, stranded>>
    BY <2>1 DEF history
  <2> QED
    BY <2>1, <2>2, <2>3, <2>6, <2>7, StopKeeps
<1> QED
  BY <1>2, <1>3

\* Every step of the threads of a truck.
LEMMA TruckKeeps ==
  ASSUME SimInv, NEW t \in Trucks, NEW n \in 1 .. Len(drive[t]), TruckThread(t, n)
  PROVE  SimInv'
BY StartKeeps, TickKeeps, ListenKeeps DEF TruckThread

----------------------------------------------------------------------------
(* The thread of the web socket. *)

\* The orders under way.
Orders == [pc : {"idle", "join", "set"}, truck : Trucks \cup {NoTruck}, to : Sensors \cup {NoSensor}]

\* The thread has gone on, and its call to h: it had no truck to add.
OrderStep(h) ==
    /\ ws' \in Orders
    /\ ws' = NoOrder \/ (ws'.pc # "idle" /\ ws'.truck \in Trucks /\ ws'.to \in Sensors)
    /\ h \in Calls /\ CallOk(WebSocket, h)
    /\ h.pc # "idle" => ws'.pc = "set" /\ h.truck = ws'.truck /\ h.to = ws'.to
    /\ call[WebSocket].pc # "home" /\ ~Joining(call[WebSocket])
    /\ call' = [call EXCEPT ![WebSocket] = h]
    /\ UNCHANGED <<sensorVars, crew, fire, place, sensor, listeners, reported, raced>>

\* What the thread keeps, whatever its step.
LEMMA OrderKeeps ==
  ASSUME SimInv, NEW h, OrderStep(h)
  PROVE  /\ CallsInv' /\ LitInv' /\ call' \in [Callers -> Calls]
         /\ \A c \in Callers : call[c].pc = "home" => call'[c] = call[c]
<1>1. /\ TypeOK /\ CallsInv /\ LitInv
      /\ UNCHANGED <<available, crew, fire, sensor, raced>>
      /\ ws' = NoOrder \/ (ws'.pc # "idle" /\ ws'.truck \in Trucks /\ ws'.to \in Sensors)
      /\ h \in Calls /\ CallOk(WebSocket, h)
      /\ h.pc # "idle" => ws'.pc = "set" /\ h.truck = ws'.truck /\ h.to = ws'.to
      /\ call[WebSocket].pc # "home" /\ ~Joining(call[WebSocket])
  BY DEF SimInv, OrderStep, sensorVars
<1>2. /\ call' \in [Callers -> Calls] /\ call'[WebSocket] = h
      /\ \A x \in Callers \ {WebSocket} : call'[x] = call[x]
  BY <1>1, CallerType, CallChanges DEF OrderStep
<1>3. OrderInv'
  BY <1>1, <1>2, CallerType DEF CallsInv, OrderInv
<1>4. CallInv'
  BY <1>1, <1>2 DEF CallsInv, CallInv, CallOk, Changing
<1>5. SeenInv'
  BY <1>1, <1>2, CallerType DEF CallsInv, SeenInv, InSet
<1>6. LitInv'
  BY <1>1 DEF LitInv
<1> QED
  BY <1>1, <1>2, <1>3, <1>4, <1>5, <1>6 DEF CallsInv

\* The call of the web socket when its thread is not in one.
LEMMA OrderCallsNot ==
  ASSUME SimInv, ws.pc # "set"
  PROVE  /\ call[WebSocket].pc = "idle" /\ call[WebSocket] \in Calls
         /\ CallOk(WebSocket, call[WebSocket]) /\ ~Joining(call[WebSocket])
         /\ call = [call EXCEPT ![WebSocket] = call[WebSocket]]
<1>1. TypeOK /\ OrderInv /\ CallInv /\ WebSocket \in Callers
  BY CallerType DEF SimInv, CallsInv
<1> QED
  BY <1>1 DEF OrderInv, CallInv, TypeOK, Joining

\* The call that sets the destination of a truck.
LEMMA QuitType ==
  ASSUME NEW t \in Trucks, NEW to \in Sensors
  PROVE  LET h == [NoCall EXCEPT !.pc = "quit", !.truck = t, !.to = to]
         IN  /\ h \in Calls /\ CallOk(WebSocket, h)
             /\ h.pc = "quit" /\ h.truck = t /\ h.to = to
<1> DEFINE h == [NoCall EXCEPT !.pc = "quit", !.truck = t, !.to = to]
<1>1. h \in Calls /\ h.pc = "quit" /\ h.truck = t /\ h.to = to
  BY NoCallType DEF Calls, Steps
<1> HIDE DEF h
<1>2. CallOk(WebSocket, h)
  BY <1>1, CallerType DEF CallOk
<1> QED
  BY <1>1, <1>2 DEF h

\* An order stops its truck, and will start it again.
LEMMA TakeKeeps ==
  ASSUME SimInv, NEW t \in Trucks, NEW to \in Sensors, TakeOrder(t, to)
  PROVE  SimInv'
<1> DEFINE quit == [NoCall EXCEPT !.pc = "quit", !.truck = t, !.to = to]
<1>1. TypeOK /\ OrderInv /\ DestinationInv /\ SecondOrderWaitsForFirst /\ StoppedInv /\ RoadInv
  BY DEF SimInv, CallsInv, DrivesInv, MovesInv
<1>2. /\ ws.pc = "idle"
      /\ UNCHANGED <<sensorVars, crew, fire, place, sensor, listeners, destination, drive, history>>
      /\ \/ /\ drive[t] = <<>> /\ ws' = [pc |-> "set", truck |-> t, to |-> to]
            /\ call' = [call EXCEPT ![WebSocket] = quit]
            /\ UNCHANGED running
         \/ /\ drive[t] # <<>> /\ ws' = [pc |-> "join", truck |-> t, to |-> to]
            /\ running' = [running EXCEPT ![t] = FALSE]
            /\ UNCHANGED call
  BY DEF TakeOrder, SetDestination
<1>3. quit \in Calls /\ CallOk(WebSocket, quit) /\ quit.pc = "quit" /\ quit.truck = t /\ quit.to = to
  BY QuitType
<1> HIDE DEF quit
<1>4. /\ ws'.truck = t /\ ws'.to = to /\ ws'.pc \in {"set", "join"} /\ ws' \in Orders
      /\ ws'.pc = "set" => drive[t] = <<>>
  BY <1>2 DEF Orders
<1>5. \E h : OrderStep(h)
  <2>1. /\ call[WebSocket].pc = "idle" /\ call[WebSocket] \in Calls
        /\ CallOk(WebSocket, call[WebSocket]) /\ ~Joining(call[WebSocket])
        /\ call = [call EXCEPT ![WebSocket] = call[WebSocket]]
    BY <1>2, OrderCallsNot
  <2>2. CASE call' = [call EXCEPT ![WebSocket] = quit] /\ ws'.pc = "set"
    <3>1. OrderStep(quit)
      BY <1>2, <1>3, <1>4, <2>1, <2>2 DEF OrderStep, history
    <3> QED
      BY <3>1
  <2>3. CASE call' = call
    <3>1. OrderStep(call[WebSocket])
      BY <1>2, <1>4, <2>1, <2>3 DEF OrderStep, history
    <3> QED
      BY <3>1
  <2> QED
    BY <1>2, <2>2, <2>3
<1>6. /\ CallsInv' /\ LitInv' /\ call' \in [Callers -> Calls]
      /\ \A c \in Callers : call[c].pc = "home" => call'[c] = call[c]
  BY <1>5, OrderKeeps
<1>7. /\ running' \in [Trucks -> BOOLEAN]
      /\ \A u \in Trucks : running'[u] => running[u]
      /\ \A u \in Trucks \ {t} : running'[u] = running[u]
  BY <1>1, <1>2 DEF TypeOK
<1>8. TypeOK'
  BY <1>1, <1>2, <1>4, <1>6, <1>7 DEF TypeOK, Orders, sensorVars, history
<1>9. \A u \in Trucks : ws.truck # u
  BY <1>1, <1>2, PlacesType DEF OrderInv, NoOrder
<1>10. StoppedInv'
  BY <1>1, <1>2, <1>4, <1>7, <1>9 DEF StoppedInv, history
<1>11. RoadInv'
  BY <1>1, <1>2, <1>6, <1>9 DEF RoadInv, OnTheRoad, history
<1>12. DrivesInv'
  BY <1>1, <1>2, <1>4 DEF DrivesInv, DestinationInv, JoinedInv, SecondOrderWaitsForFirst, Underway
<1> QED
  BY <1>6, <1>8, <1>10, <1>11, <1>12 DEF SimInv, MovesInv

\* The first thread of the truck is over.
LEMMA JoinKeeps ==
  ASSUME SimInv, Join
  PROVE  SimInv'
<1> DEFINE quit == [NoCall EXCEPT !.pc = "quit", !.truck = ws.truck, !.to = ws.to]
           set == [ws EXCEPT !.pc = "set"]
<1>1. /\ TypeOK /\ OrderInv /\ DestinationInv /\ SecondOrderWaitsForFirst /\ StoppedInv /\ RoadInv
      /\ ws \in Orders
  BY DEF SimInv, CallsInv, DrivesInv, MovesInv, TypeOK, Orders
<1>2. /\ ws.pc = "join" /\ drive[ws.truck][1].pc = "over"
      /\ ws' = set /\ call' = [call EXCEPT ![WebSocket] = quit]
      /\ UNCHANGED <<sensorVars, crew, fire, truckVars, history>>
  BY DEF Join, SetDestination
<1>3. ws.truck \in Trucks /\ ws.to \in Sensors
  BY <1>1, <1>2 DEF OrderInv, NoOrder
<1>4. set.truck = ws.truck /\ set.to = ws.to /\ set.pc = "set" /\ set \in Orders
  BY <1>1, <1>3 DEF Orders
<1>5. /\ quit \in Calls /\ CallOk(WebSocket, quit)
      /\ quit.pc = "quit" /\ quit.truck = ws.truck /\ quit.to = ws.to
  BY <1>3, QuitType
<1> HIDE DEF quit, set
<1>6. OrderStep(quit)
  BY <1>2, <1>3, <1>4, <1>5, OrderCallsNot DEF OrderStep, truckVars, history
<1>7. /\ CallsInv' /\ LitInv' /\ call' \in [Callers -> Calls]
      /\ \A c \in Callers : call[c].pc = "home" => call'[c] = call[c]
  BY <1>6, OrderKeeps
<1>8. TypeOK'
  BY <1>1, <1>2, <1>4, <1>7 DEF TypeOK, Orders, sensorVars, truckVars, history
<1>9. StoppedInv' /\ RoadInv'
  BY <1>1, <1>2, <1>4, <1>7 DEF StoppedInv, RoadInv, OnTheRoad, truckVars, history
<1>10. DrivesInv'
  BY <1>1, <1>2, <1>4 DEF DrivesInv, DestinationInv, JoinedInv, SecondOrderWaitsForFirst, Underway,
     truckVars
<1> QED
  BY <1>7, <1>8, <1>9, <1>10 DEF SimInv, MovesInv

\* The truck has its destination, and a thread has started.
LEMMA ThreadStarts ==
  ASSUME TypeOK, NEW t \in Trucks, drive' = [drive EXCEPT ![t] = Append(@, NewThread)]
  PROVE  /\ drive' \in [Trucks -> Seq(TruckThreads)]
         /\ \A u \in Trucks \ {t} : drive'[u] = drive[u]
         /\ Len(drive[t]) \in Nat /\ Len(drive'[t]) = Len(drive[t]) + 1 /\ drive'[t] # <<>>
         /\ \A n \in 1 .. Len(drive[t]) : drive'[t][n] = drive[t][n]
         /\ drive'[t][Len(drive[t]) + 1].pc = "started"
<1>1. drive[t] \in Seq(TruckThreads) /\ NewThread \in TruckThreads /\ NewThread.pc = "started"
  BY Ticks DEF TypeOK, NewThread, TruckThreads
<1> DEFINE new == Append(drive[t], NewThread)
<1>2. /\ new \in Seq(TruckThreads) /\ Len(new) = Len(drive[t]) + 1 /\ Len(drive[t]) \in Nat
      /\ \A n \in 1 .. Len(drive[t]) : new[n] = drive[t][n]
      /\ new[Len(drive[t]) + 1] = NewThread
  BY <1>1, AppendProperties, LenProperties
<1>3. new # <<>>
  BY <1>2, EmptySeq
<1>4. drive' = [drive EXCEPT ![t] = new]
  OBVIOUS
<1> HIDE DEF new
<1> QED
  BY <1>1, <1>2, <1>3, <1>4 DEF TypeOK

\* The start of the truck's thread, the last step of an order (TruckManager.java), keeps the invariant.
LEMMA StartThreadKeeps ==
  ASSUME SimInv, StartThread
  PROVE  SimInv'
<1>0. PICK t, to, new : t = ws.truck /\ to = ws.to /\ new = Len(drive[t]) + 1
  OBVIOUS
<1>1. /\ TypeOK /\ OrderInv /\ DestinationInv /\ JoinedInv /\ SecondOrderWaitsForFirst
      /\ StoppedInv /\ RoadInv
  BY DEF SimInv, CallsInv, DrivesInv, MovesInv
<1>2. /\ call[WebSocket].pc = "return"
      /\ destination' = [destination EXCEPT ![t] = to]
      /\ drive' = [drive EXCEPT ![t] = Append(@, NewThread)]
      /\ ws' = NoOrder /\ call' = [call EXCEPT ![WebSocket] = NoCall]
      /\ UNCHANGED <<sensorVars, crew, fire, place, sensor, listeners, running, history>>
  BY <1>0 DEF StartThread
<1>3. ws.pc = "set" /\ t \in Trucks /\ to \in Sensors
  BY <1>0, <1>1, <1>2 DEF OrderInv, NoOrder
<1>4. drive[t] # <<>> => drive[t][1].pc = "over"
  BY <1>0, <1>1, <1>3 DEF JoinedInv
<1>5. OrderStep(NoCall) /\ ws' \in Orders
  <2>1. NoOrder \in Orders
    BY DEF NoOrder, Orders
  <2>2. CallOk(WebSocket, NoCall) /\ NoCall \in Calls /\ NoCall.pc = "idle"
    BY NoCallType, CallerType DEF CallOk
  <2>3. ~Joining(call[WebSocket])
    BY <1>2 DEF Joining
  <2> QED
    BY <1>2, <2>1, <2>2, <2>3 DEF OrderStep, history
<1>6. /\ CallsInv' /\ LitInv' /\ call' \in [Callers -> Calls]
      /\ \A c \in Callers : call[c].pc = "home" => call'[c] = call[c]
  BY <1>5, OrderKeeps
<1>7. /\ drive' \in [Trucks -> Seq(TruckThreads)]
      /\ \A u \in Trucks \ {t} : drive'[u] = drive[u]
      /\ Len(drive[t]) \in Nat /\ Len(drive'[t]) = new /\ drive'[t] # <<>>
      /\ \A n \in 1 .. Len(drive[t]) : drive'[t][n] = drive[t][n]
      /\ drive'[t][new].pc = "started"
  BY <1>0, <1>1, <1>2, <1>3, ThreadStarts
<1>8. /\ destination' \in [Trucks -> Sensors \cup {NoSensor}] /\ destination'[t] = to
      /\ \A u \in Trucks \ {t} : destination'[u] = destination[u]
  BY <1>1, <1>2, <1>3 DEF TypeOK
<1>9. TypeOK'
  BY <1>1, <1>2, <1>5, <1>6, <1>7, <1>8 DEF TypeOK, Orders, sensorVars, history
<1>10. /\ new \in 1 .. Len(drive'[t])
       /\ \A n \in 1 .. Len(drive'[t]) : n = new \/ n \in 1 .. Len(drive[t])
       /\ \A n \in 1 .. Len(drive[t]) : n \in 1 .. Len(drive'[t])
  BY <1>0, <1>7
<1>11. DestinationInv'
  <2>1. ASSUME NEW n \in 1 .. Len(drive'[t]), drive'[t][n].pc = "drive"
        PROVE  drive'[t][n].to \in Sensors
    BY <1>1, <1>3, <1>7, <1>10, <2>1 DEF DestinationInv
  <2> QED
    BY <1>1, <1>3, <1>7, <1>8, <2>1 DEF DestinationInv
<1>12. JoinedInv'
  BY <1>2 DEF JoinedInv, NoOrder
<1>13. SecondOrderWaitsForFirst'
  <2> SUFFICES ASSUME NEW u \in Trucks, Len(drive'[u]) <= 2,
                      NEW m \in Underway(u)', NEW n \in Underway(u)'
               PROVE  m = n
    BY DEF SecondOrderWaitsForFirst
  <2>1. CASE u # t
    BY <1>1, <1>7, <2>1 DEF SecondOrderWaitsForFirst, Underway
  <2>2. CASE u = t
    <3>1. ASSUME NEW k \in Underway(t)'
          PROVE  k = new
      <4>1. k \in 1 .. Len(drive'[t]) /\ drive'[t][k].pc # "over"
        BY DEF Underway
      <4>2. Len(drive[t]) <= 1
        BY <1>0, <1>7, <2>2
      <4>3. ASSUME k \in 1 .. Len(drive[t])
            PROVE  FALSE
        <5>1. k = 1 /\ drive[t] # <<>>
          BY <1>7, <4>2, <4>3
        <5> QED
          BY <1>4, <1>7, <4>1, <4>3, <5>1
      <4> QED
        BY <1>10, <4>1, <4>3
    <3> QED
      BY <2>2, <3>1
  <2> QED
    BY <2>1, <2>2
<1>14. ws.truck = t /\ UNCHANGED <<place, running, stranded>>
  BY <1>0, <1>2 DEF history
<1>15. StoppedInv'
  BY <1>1, <1>7, <1>10, <1>14 DEF StoppedInv
<1>16. RoadInv'
  <2> SUFFICES ASSUME NEW u \in Trucks, place[u] \in Nat \ {Station}
               PROVE  OnTheRoad(u)'
    BY <1>14 DEF RoadInv
  <2>1. CASE u = t
    BY <1>7, <1>10, <2>1 DEF OnTheRoad
  <2>2. CASE u # t
    <3>1. OnTheRoad(u) /\ drive'[u] = drive[u] /\ ws.truck # u
      BY <1>1, <1>7, <1>14, <2>2 DEF RoadInv
    <3> QED
      BY <1>6, <1>14, <3>1 DEF OnTheRoad
  <2> QED
    BY <2>1, <2>2
<1> QED
  BY <1>6, <1>9, <1>11, <1>12, <1>13, <1>15, <1>16 DEF SimInv, DrivesInv, MovesInv

\* An order that fails leaves its truck where it stopped it.
LEMMA FailKeeps ==
  ASSUME SimInv, OrderFails
  PROVE  SimInv'
<1>1. /\ TypeOK /\ OrderInv /\ DestinationInv /\ SecondOrderWaitsForFirst /\ StoppedInv /\ RoadInv
  BY DEF SimInv, CallsInv, DrivesInv, MovesInv
<1>2. /\ call[WebSocket].pc = "throw"
      /\ ws' = NoOrder /\ call' = [call EXCEPT ![WebSocket] = NoCall]
      /\ stranded' = stranded \cup {ws.truck}
      /\ UNCHANGED <<sensorVars, crew, fire, truckVars, reported, raced>>
  BY DEF OrderFails
<1>3. ws.truck \in Trucks
  BY <1>1, <1>2 DEF OrderInv, NoOrder
<1>4. OrderStep(NoCall) /\ ws' \in Orders
  <2>1. NoOrder \in Orders
    BY DEF NoOrder, Orders
  <2>2. CallOk(WebSocket, NoCall) /\ NoCall \in Calls /\ NoCall.pc = "idle"
    BY NoCallType, CallerType DEF CallOk
  <2>3. ~Joining(call[WebSocket])
    BY <1>2 DEF Joining
  <2> QED
    BY <1>2, <2>1, <2>2, <2>3 DEF OrderStep, truckVars
<1>5. /\ CallsInv' /\ LitInv' /\ call' \in [Callers -> Calls]
      /\ \A c \in Callers : call[c].pc = "home" => call'[c] = call[c]
  BY <1>4, OrderKeeps
<1>6. TypeOK'
  BY <1>1, <1>2, <1>3, <1>4, <1>5 DEF TypeOK, Orders, sensorVars, truckVars
<1>7. StoppedInv' /\ RoadInv'
  BY <1>1, <1>2, <1>5 DEF StoppedInv, RoadInv, OnTheRoad, truckVars
<1>8. DrivesInv'
  BY <1>1, <1>2 DEF DrivesInv, DestinationInv, JoinedInv, SecondOrderWaitsForFirst, Underway,
     truckVars, NoOrder
<1> QED
  BY <1>5, <1>6, <1>7, <1>8 DEF SimInv, MovesInv

----------------------------------------------------------------------------
(* The specification. *)

\* Nothing burns, and no truck has left its station.
LEMMA InitSim == Init => SimInv
<1> SUFFICES ASSUME Init
             PROVE  SimInv
  OBVIOUS
<1>1. /\ NoFire \in FireThreads /\ NoFire.pc = "none"
      /\ NoOrder.pc = "idle" /\ NoOrder.truck = NoTruck
      /\ NoOrder \in [pc : {"idle", "join", "set"}, truck : Trucks \cup {NoTruck},
                      to : Sensors \cup {NoSensor}]
      /\ NoCall \in Calls /\ NoCall.pc = "idle" /\ NoCall.to = NoSensor
  BY FireType, NoCallType DEF NoOrder
<1>2. /\ Station \in Places /\ 0 \in 0 .. MaxFires /\ 0 \in 0 .. MaxIntensity - 1
      /\ <<>> \in Seq(TruckThreads) /\ Len(<<>>) = 0
  BY BoundsType, IntensityType, EmptySeq DEF Station, Places
<1>3. TypeOK
  BY <1>1, <1>2 DEF Init, TypeOK
<1>4. CallsInv
  BY <1>1, CallerType DEF Init, CallsInv, OrderInv, CallInv, CallOk, SeenInv, InSet
<1>5. DrivesInv
  BY <1>1, <1>2 DEF Init, DrivesInv, DestinationInv, JoinedInv, SecondOrderWaitsForFirst, Underway
<1>6. MovesInv /\ LitInv
  BY <1>1 DEF Init, MovesInv, StoppedInv, RoadInv, LitInv
<1> QED
  BY <1>3, <1>4, <1>5, <1>6 DEF SimInv

\* Every step keeps the invariant.
LEMMA NextSim == SimInv /\ [Next]_vars => SimInv'
<1> SUFFICES ASSUME SimInv, [Next]_vars
             PROVE  SimInv'
  OBVIOUS
<1>1. CASE UNCHANGED vars
  <2>1. /\ TypeOK /\ CallsInv /\ DrivesInv /\ MovesInv /\ LitInv
        /\ UNCHANGED <<available, fires, intensity, crew, fire, place, sensor, listeners,
                       destination, running, drive, ws, call, reported, stranded, raced>>
    BY <1>1 DEF SimInv, vars, sensorVars, truckVars, history
  <2>2. TypeOK' /\ LitInv' /\ DrivesInv' /\ MovesInv'
    BY <2>1, DrivesKept, MovesKept DEF TypeOK, LitInv
  <2>3. CallsInv'
    BY <2>1 DEF CallsInv, OrderInv, CallInv, CallOk, Changing, SeenInv, InSet
  <2> QED
    BY <2>2, <2>3 DEF SimInv
<1>2. CASE \E t \in Trucks, s \in Sensors : TakeOrder(t, s)
  BY <1>2, TakeKeeps
<1>3. CASE WebSocketThread
  BY <1>3, CallerType, JoinKeeps, SetSensorKeeps, StartThreadKeeps, FailKeeps DEF WebSocketThread
<1>4. CASE \E t \in Trucks : \E n \in 1 .. Len(drive[t]) : TruckThread(t, n)
  BY <1>4, TruckKeeps
<1>5. CASE NoSensorToLight
  BY <1>1, <1>5 DEF NoSensorToLight
<1>6. CASE \E s \in Sensors : LightFire(s) \/ FireThread(s)
  BY <1>6, FireThreadKeeps
<1> QED
  BY <1>1, <1>2, <1>3, <1>4, <1>5, <1>6 DEF Next

\* The inductive invariant holds.
LEMMA SimulatorInvariant == Spec => []SimInv
  BY InitSim, NextSim, PTL DEF Spec

\* Every variable keeps the values the code gives it: whatever the threads do at
\* once, the intensity keeps its bounds, no fire is lit beyond the bound, and a
\* drive never counts its ticks below zero.
THEOREM SimulatorTypeCorrect == Spec => []TypeOK
  BY SimulatorInvariant, PTL DEF SimInv

\* A truck that has a sensor is in the set of that sensor outside the calls of
\* setSensor, whatever fires and orders do in between and whatever place its
\* hash is of, unless two threads have changed that set at once.
THEOREM SeenCorrect == Spec => []AssignedTruckIsSeen
<1>1. SimInv => AssignedTruckIsSeen
  BY CallerType DEF SimInv, CallsInv, SeenInv, InSet, AssignedTruckIsSeen
<1> QED
  BY <1>1, SimulatorInvariant, PTL

\* A truck stays on a road only if its route could not be had or its last order
\* ended in an exception.
THEOREM RoadCorrect == Spec => []NotLeftOnTheRoad
<1>1. SimInv => NotLeftOnTheRoad
  BY DEF SimInv, MovesInv, TypeOK, RoadInv, OnTheRoad, NotLeftOnTheRoad, Underway
<1> QED
  BY <1>1, SimulatorInvariant, PTL

\* The second order of a truck waits for the drive of the first.
THEOREM JoinCorrect == Spec => []SecondOrderWaitsForFirst
  BY SimulatorInvariant, PTL DEF SimInv, DrivesInv
=============================================================================
