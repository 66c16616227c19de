--------------------------- MODULE DispatchProofs ---------------------------
(***************************************************************************)
(* Proofs about Dispatch, for any sensors, trucks, capacities and bounds.  *)
(***************************************************************************)
EXTENDS Dispatch, FiniteSetTheorems, SequenceTheorems, WellFoundedInduction, TLAPS

----------------------------------------------------------------------------
(* Type correctness. *)

Assignments == [Sensors -> SUBSET TruckObjects]

\* A fire can be reported out.
LEMMA ZeroIsIntensity == 0 \in Intensities
  BY BoundsType DEF Intensities

\* Appending keeps the type of a sequence.
LEMMA AppendType ==
    ASSUME NEW S, NEW q \in Seq(S), NEW e \in S
    PROVE  Append(q, e) \in Seq(S)
  BY AppendProperties

\* There are finitely many Truck objects.
LEMMA TruckObjectsFinite == IsFiniteSet(TruckObjects)
<1>1. IsFiniteSet(1 .. MaxCopies)
  BY FS_Interval, BoundsType
<1> QED
  BY <1>1, FS_Product, FiniteDomain DEF TruckObjects

\* The messages a handler sends are send_truck messages.
LEMMA OrderSequencesType ==
    ASSUME NEW sent \in Assignments, NEW orders \in OrderSequences(sent)
    PROVE  orders \in Seq(Orders)
<1> DEFINE pairs == {p \in TruckObjects \X Sensors : p[1] \in sent[p[2]]}
<1>1. Cardinality(pairs) \in Nat
  <2>1. IsFiniteSet(TruckObjects \X Sensors)
    BY TruckObjectsFinite, FS_Product, FiniteDomain
  <2>2. IsFiniteSet(pairs)
    BY <2>1, FS_Subset
  <2> QED
    BY <2>2, FS_CardinalityType
<1>2. PICK q \in SetToSeqs(pairs) :
          orders = [i \in DOMAIN q |-> [truck |-> q[i][1][1], sensor |-> q[i][2]]]
  BY DEF OrderSequences
<1>3. q \in [1 .. Cardinality(pairs) -> pairs]
  BY <1>2 DEF SetToSeqs
<1>4. \A p \in pairs : p[1][1] \in Trucks /\ p[2] \in Sensors
  BY DEF TruckObjects
<1>5. orders \in [1 .. Cardinality(pairs) -> Orders]
  BY <1>2, <1>3, <1>4 DEF Orders
<1> HIDE DEF pairs
<1> QED
  BY <1>1, <1>5, SeqDef

\* SendTrucks: the sets and the orders that leave are well typed.
LEMMA SendTrucksType ==
    ASSUME toServer \in Seq(Orders),
           NEW sent \in Assignments, NEW kept \in Assignments,
           SendTrucks(sent, kept)
    PROVE  emTrucks' \in Assignments /\ toServer' \in Seq(Orders)
<1>1. PICK orders \in OrderSequences(sent) : toServer' = toServer \o orders
  BY DEF SendTrucks
<1>2. orders \in Seq(Orders)
  BY <1>1, OrderSequencesType
<1> QED
  BY <1>1, <1>2, ConcatProperties DEF SendTrucks, Assignments

\* What findSuitableTrucks returns is taken from what it is given.
LEMMA SuitableTrucksSubset ==
    ASSUME NEW objects, NEW capacity, NEW required \in SuitableTrucks(objects, capacity)
    PROVE  required \subseteq objects
  BY DEF SuitableTrucks

\* FreeSensor: the trucks passed on are some of those the sensor had.
LEMMA FreeSensorType ==
    ASSUME TypeOK, NEW s \in Sensors, FreeSensor(s)
    PROVE  /\ emIntensity' = [emIntensity EXCEPT ![s] = 0]
           /\ emTrucks' \in Assignments
           /\ toServer' \in Seq(Orders)
<1>1. emTrucks \in Assignments /\ emTrucks[s] \subseteq TruckObjects
  BY DEF TypeOK, Assignments
<1>2. PICK sent \in [Sensors -> SUBSET emTrucks[s]] :
          SendTrucks(sent, [emTrucks EXCEPT ![s] = {}])
  BY DEF FreeSensor
<1>3. sent \in Assignments /\ [emTrucks EXCEPT ![s] = {}] \in Assignments
  BY <1>1, <1>2 DEF Assignments
<1> QED
  BY <1>2, <1>3, SendTrucksType DEF FreeSensor, TypeOK

\* UpdateSensor: what is asked for, and the orders that leave, are well typed.
LEMMA UpdateSensorType ==
    ASSUME TypeOK, NEW s \in Sensors, NEW i, UpdateSensor(s, i)
    PROVE  /\ emIntensity' = [emIntensity EXCEPT ![s] = i]
           /\ emTrucks' \in Assignments
           /\ toServer' \in Seq(Orders)
<1>1. emTrucks \in Assignments
  BY DEF TypeOK, Assignments
<1>2. CASE UNCHANGED <<emTrucks, toServer>>
  BY <1>1, <1>2 DEF UpdateSensor, TypeOK
<1>3. CASE ~UNCHANGED <<emTrucks, toServer>>
  <2>1. PICK new \in NewObjects :
            LET filtered == {<<t, new[t]>> : t \in {u \in Trucks : available[u]}}
            IN \E toSend \in SuitableTrucks(filtered, Lacking(s, i)) :
                  SendTrucks([x \in Sensors |-> IF x = s THEN toSend ELSE {}], emTrucks)
    BY <1>3 DEF UpdateSensor
  <2> DEFINE filtered == {<<t, new[t]>> : t \in {u \in Trucks : available[u]}}
  <2>2. PICK toSend \in SuitableTrucks(filtered, Lacking(s, i)) :
            SendTrucks([x \in Sensors |-> IF x = s THEN toSend ELSE {}], emTrucks)
    BY <2>1
  <2>3. filtered \subseteq TruckObjects
    BY <2>1 DEF NewObjects, TruckObjects
  <2>4. toSend \subseteq TruckObjects
    BY <2>2, <2>3, SuitableTrucksSubset
  <2>5. [x \in Sensors |-> IF x = s THEN toSend ELSE {}] \in Assignments
    BY <2>4 DEF Assignments
  <2> QED
    BY <1>1, <2>2, <2>5, SendTrucksType DEF UpdateSensor, TypeOK
<1> QED
  BY <1>2, <1>3

\* A handled fire_update leaves its intensity in the map, whichever way the
\* handler ends.
LEMMA HandlerEffect ==
    ASSUME TypeOK, ManageFireUpdate \/ ManageFireUpdateFails
    PROVE  /\ toEM # <<>> /\ Head(toEM) \in Updates
           /\ toEM' = Tail(toEM) /\ toEM' \in Seq(Updates)
           /\ emIntensity' = [emIntensity EXCEPT ![Head(toEM).sensor] = Head(toEM).intensity]
           /\ emTrucks' \in Assignments
           /\ toServer' \in Seq(Orders)
           /\ Live(emConn)
           /\ UNCHANGED <<emHandler, toSim, fromSim, emConn, simConn, available>>
<1>1. /\ toEM # <<>> /\ toEM' = Tail(toEM) /\ Live(emConn)
      /\ UNCHANGED <<emHandler, toSim, fromSim, emConn, simConn, available>>
  BY DEF ManageFireUpdate, ManageFireUpdateFails, ReceiveUpdate
<1>2. Head(toEM) \in Updates /\ Tail(toEM) \in Seq(Updates)
  BY <1>1, HeadTailProperties DEF TypeOK
<1>3. Head(toEM).sensor \in Sensors /\ Head(toEM).intensity \in Intensities
  BY <1>2 DEF Updates
<1>4. CASE ManageFireUpdate /\ Head(toEM).intensity <= 0
  <2>1. Head(toEM).intensity = 0
    BY <1>3, <1>4, BoundsType DEF Intensities
  <2>2. FreeSensor(Head(toEM).sensor)
    BY <1>4 DEF ManageFireUpdate
  <2> QED
    BY <1>1, <1>2, <1>3, <2>1, <2>2, FreeSensorType
<1>5. CASE ManageFireUpdate /\ ~(Head(toEM).intensity <= 0)
  <2>1. UpdateSensor(Head(toEM).sensor, Head(toEM).intensity)
    BY <1>5 DEF ManageFireUpdate
  <2> QED
    BY <1>1, <1>2, <1>3, <2>1, UpdateSensorType
<1>6. CASE ManageFireUpdateFails
  BY <1>1, <1>2, <1>6 DEF ManageFireUpdateFails, GetTrucksFails, TypeOK, Assignments
<1> QED
  BY <1>4, <1>5, <1>6

\* RestartEM: the new manager's map is well typed.
LEMMA RestartType ==
    ASSUME NEW rows \in SUBSET (Sensors \X Trucks), Restart(rows), EMReset, SimReset
    PROVE  TypeOK'
  BY ZeroIsIntensity, EmptySeq
  DEF Restart, EMReset, SimReset, Idle, CloseEM, AvailableFromDatabase, TypeOK, Connections, Intensities

\* Every reachable state of the manager, the server and what travels between
\* them is well typed, for any finite sets of sensors and trucks.
THEOREM TypeCorrect == Spec => []TypeOK
<1>1. Init => TypeOK
  BY ZeroIsIntensity, EmptySeq
  DEF Init, EMInit, ServerInit, Idle, AvailableFromDatabase, TypeOK, Connections
<1>2. TypeOK /\ [Next]_vars => TypeOK'
  <2> SUFFICES ASSUME TypeOK, [Next]_vars
               PROVE  TypeOK'
    OBVIOUS
  <2>1. CASE EMHandles \/ EMHandlesInPart
    <3>1. /\ toEM' \in Seq(Updates) /\ toServer' \in Seq(Orders)
          /\ emTrucks' \in [Sensors -> SUBSET TruckObjects]
          /\ UNCHANGED <<emHandler, toSim, fromSim, emConn, simConn, available>>
      BY <2>1, HandlerEffect DEF EMHandles, EMHandlesInPart, Assignments
    <3>2. emIntensity' \in [Sensors -> Intensities]
      <4>1. emIntensity' = [emIntensity EXCEPT ![Head(toEM).sensor] = Head(toEM).intensity]
        BY <2>1, HandlerEffect DEF EMHandles, EMHandlesInPart
      <4>2. Head(toEM).sensor \in Sensors /\ Head(toEM).intensity \in Intensities
        BY <2>1, HandlerEffect DEF EMHandles, EMHandlesInPart, Updates
      <4> QED
        BY <4>1, <4>2 DEF TypeOK
    <3> QED
      BY <2>1, <3>1, <3>2 DEF EMHandles, EMHandlesInPart, serverVars, simVars, TypeOK
  <2>2. CASE EMConnects
    BY <2>2, ZeroIsIntensity DEF EMConnects, ConnectEM, EMReset, simVars, TypeOK, Connections
  <2>3. CASE EMCrashes
    <3>1. PICK n \in 0 .. Len(toServer) : toServer' = SubSeq(toServer, 1, n)
      BY <2>3 DEF EMCrashes
    <3>2. toServer' \in Seq(Orders)
      <4>1. \A i \in 1 .. n : toServer[i] \in Orders
        BY <3>1, ElementOfSeq DEF TypeOK
      <4> QED
        BY <3>1, <4>1, SubSeqProperties
    <3> QED
      BY <2>3, <3>2, ZeroIsIntensity, EmptySeq
      DEF EMCrashes, EMReset, serverVars, simVars, TypeOK, Connections
  <2>4. CASE EMDropped
    BY <2>4, ZeroIsIntensity, EmptySeq
    DEF EMDropped, NoticeEMGone, CloseEM, EMReset, serverVars, simVars, TypeOK, Connections
  <2>15. CASE EMAddsHandler \/ SimulatorAddsHandler
    BY <2>15
    DEF EMAddsHandler, AddMessageHandler, SimulatorAddsHandler, channels, emVars, serverVars, simVars, TypeOK
  <2>16. CASE EMIgnores
    <3>1. Head(toEM) \in Updates /\ Tail(toEM) \in Seq(Updates)
      BY <2>16, HeadTailProperties DEF EMIgnores, IgnoreUpdate, TypeOK
    <3> QED
      BY <2>16, <3>1 DEF EMIgnores, IgnoreUpdate, emVars, simVars, TypeOK, Updates
  <2>17. CASE SimulatorIgnores
    <3>1. Tail(toSim) \in Seq(Orders)
      BY <2>17, HeadTailProperties DEF SimulatorIgnores, TypeOK
    <3> QED
      BY <2>17, <3>1 DEF SimulatorIgnores, emVars, serverVars, simVars, TypeOK
  <2>5. CASE SimulatorConnects
    BY <2>5 DEF SimulatorConnects, SimReset, ConnectSimulator, Idle, emVars, serverVars, simVars, TypeOK, Connections
  <2>6. CASE SimulatorTakesOrder
    <3>1. Head(toSim) \in Orders /\ Tail(toSim) \in Seq(Orders)
      BY <2>6, HeadTailProperties DEF SimulatorTakesOrder, TypeOK
    <3>2. simSensor' \in [Trucks -> Sensors \cup {NoSensor}]
      BY <2>6, <3>1 DEF SimulatorTakesOrder, TypeOK, Orders
    <3> QED
      BY <2>6, <3>1, <3>2 DEF SimulatorTakesOrder, emVars, serverVars, simVars, TypeOK
  <2>7. CASE SimulatorCrashes \/ SimulatorDropped
    BY <2>7, EmptySeq
    DEF SimulatorCrashes, SimulatorDropped, SimReset, CloseSimulator, Idle, emVars, serverVars,
        TypeOK, Connections
  <2>8. CASE \E t \in Trucks : SimulatorReleases(t)
    BY <2>8 DEF SimulatorReleases, emVars, serverVars, simVars, TypeOK
  <2>14. CASE \E t \in Trucks : ServerFrees(t)
    BY <2>14 DEF ServerFrees, UpdateAvailable, emVars, serverVars, simVars, TypeOK
  <2>9. CASE \E s \in Sensors, i \in Intensities : ServerReads(s, i)
    <3>1. PICK s \in Sensors, i \in Intensities : ServerReads(s, i)
      BY <2>9
    <3>2. toEM' \in Seq(Updates)
      <4>1. [sensor |-> s, intensity |-> i] \in Updates
        BY DEF Updates
      <4>2. toEM' = toEM \/ toEM' = Append(toEM, [sensor |-> s, intensity |-> i])
        BY <3>1 DEF ServerReads, HandleSensorData
      <4>3. Append(toEM, [sensor |-> s, intensity |-> i]) \in Seq(Updates)
        BY <4>1, AppendType DEF TypeOK
      <4> QED
        BY <4>2, <4>3 DEF TypeOK
    <3> QED
      BY <3>1, <3>2 DEF ServerReads, HandleSensorData, emVars, simVars, TypeOK
  <2>10. CASE ServerSends
    <3>1. Head(toServer) \in Orders /\ Tail(toServer) \in Seq(Orders)
      BY <2>10, HeadTailProperties DEF ServerSends, SendTruckOk, TakeOrder, TypeOK
    <3>2. toSim' \in Seq(Orders)
      BY <2>10, <3>1, AppendProperties DEF ServerSends, SendTruckOk, TypeOK
    <3> QED
      BY <2>10, <3>1, <3>2
      DEF ServerSends, SendTruckOk, StartIntervention, emVars, simVars, TypeOK, Orders
  <2>11. CASE ServerSendFails
    <3>1. Head(toServer) \in Orders
      BY <2>11, HeadTailProperties DEF ServerSendFails, SendTruckFails, TakeOrder, TypeOK
    <3>2. toSim' \in Seq(Orders)
      <4>1. toSim' = toSim \/ toSim' = Append(toSim, Head(toServer))
        BY <2>11 DEF ServerSendFails, SendTruckFails
      <4>2. Append(toSim, Head(toServer)) \in Seq(Orders)
        BY <3>1, AppendType DEF TypeOK
      <4> QED
        BY <4>1, <4>2 DEF TypeOK
    <3>3. /\ emIntensity' \in [Sensors -> Intensities] /\ emTrucks' \in [Sensors -> SUBSET TruckObjects]
          /\ emHandler' \in BOOLEAN
      BY <2>11, ZeroIsIntensity DEF ServerSendFails, EMReset
    <3>4. /\ toEM' \in Seq(Updates) /\ toServer' \in Seq(Orders) /\ emConn' \in Connections
          /\ available' \in [Trucks -> BOOLEAN] /\ unrecorded' \subseteq Sensors \X Trucks
      BY <2>11, <3>1, EmptySeq
      DEF ServerSendFails, SendTruckFails, CloseEM, TypeOK, Orders, Connections
    <3> QED
      BY <2>11, <3>2, <3>3, <3>4 DEF ServerSendFails, SendTruckFails, simVars, TypeOK
  <2>12. CASE ServerCrashes \/ ServerShutsDown
    BY <2>12, RestartType
    DEF ServerCrashes, ServerShutsDown, SimReset, ServerCrash, ServerShutdown, TypeOK
  <2>13. CASE UNCHANGED vars
    BY <2>13 DEF vars, emVars, serverVars, simVars, channels, TypeOK
  <2> QED
    BY <2>1, <2>2, <2>3, <2>4, <2>5, <2>6, <2>7, <2>8, <2>9, <2>10, <2>11, <2>12, <2>13, <2>14, <2>15,
       <2>16, <2>17
    DEF Next, Operation, Failure
<1> QED
  BY <1>1, <1>2, PTL DEF Spec

----------------------------------------------------------------------------
(***************************************************************************)
(* The emergency manager's view.  EmViewIsDelayed says nothing of a socket *)
(* without a peer; what makes it inductive is that nothing waits in one,   *)
(* so a process that connects starts from an empty queue, and that one     *)
(* without a handler knows of no fire, so it is behind by those it         *)
(* ignores.                                                                *)
(***************************************************************************)
NothingWaits == ~Live(emConn) => toEM = <<>>
KnowsNothing == ~emHandler => \A s \in Sensors : emIntensity[s] = 0

ViewInv == EmViewIsDelayed /\ NothingWaits /\ KnowsNothing

\* Steps that touch neither the intensities nor the updates keep the view.
LEMMA ViewUnchanged ==
    ASSUME ViewInv, UNCHANGED <<toEM, emConn, emIntensity, emHandler, intensity, unheard>>
    PROVE  ViewInv'
  BY DEF ViewInv, KnowsNothing, EmViewIsDelayed, NothingWaits, IsLastFor, Waiting, Live

\* A manager that does not live has no updates to wait for.
LEMMA ViewOfNoPeer ==
    ASSUME ~Live(emConn'), toEM' = <<>>, EMReset
    PROVE  ViewInv'
  BY DEF EMReset, ViewInv, KnowsNothing, EmViewIsDelayed, NothingWaits, Live

\* A new reading is appended behind what waits, and is then the last.
LEMMA ViewAfterReading ==
    ASSUME TypeOK, ViewInv, NEW s \in Sensors, NEW r \in Intensities, ServerReads(s, r)
    PROVE  ViewInv'
<1>1. CASE ~Live(emConn)
  BY <1>1 DEF ServerReads, HandleSensorData, emVars, ViewInv, KnowsNothing, EmViewIsDelayed, NothingWaits, Live
<1>2. CASE Live(emConn)
  <2> DEFINE update == [sensor |-> s, intensity |-> r]
  <2>1. /\ toEM' = Append(toEM, update) /\ unheard' = unheard \ {s}
        /\ intensity' = [intensity EXCEPT ![s] = r]
        /\ UNCHANGED <<emConn, emIntensity, emHandler>>
    BY <1>2 DEF ServerReads, HandleSensorData, emVars
  <2>2. toEM \in Seq(Updates) /\ update \in Updates
    BY DEF TypeOK, Updates
  <2>3. /\ Len(toEM) \in Nat /\ DOMAIN toEM = 1 .. Len(toEM)
        /\ DOMAIN toEM' = 1 .. Len(toEM) + 1
        /\ toEM'[Len(toEM) + 1] = update
        /\ \A i \in 1 .. Len(toEM) : toEM'[i] = toEM[i]
    BY <2>1, <2>2, AppendProperties, LenProperties
  <2>4. ASSUME NEW x \in Sensors, NEW i \in DOMAIN toEM', IsLastFor(i, x)'
        PROVE  toEM'[i].intensity = intensity'[x]
    <3>1. CASE x = s
      <4>1. i = Len(toEM) + 1
        BY <2>3, <2>4, <3>1 DEF IsLastFor
      <4> QED
        BY <2>1, <2>3, <3>1, <4>1 DEF TypeOK
    <3>2. CASE x # s
      <4>1. i \in 1 .. Len(toEM)
        BY <2>3, <2>4, <3>2 DEF IsLastFor
      <4>2. IsLastFor(i, x)
        BY <2>3, <2>4, <4>1 DEF IsLastFor
      <4> QED
        BY <1>2, <2>1, <2>3, <3>2, <4>1, <4>2 DEF ViewInv, EmViewIsDelayed, TypeOK
    <3> QED
      BY <3>1, <3>2
  <2>5. ASSUME NEW x \in Sensors
        PROVE  /\ ~Waiting(x)' =>
                     emIntensity'[x] = IF x \in unheard' THEN 0 ELSE intensity'[x]
               /\ x \in unheard' => ~Waiting(x)'
    <3>1. CASE x = s
      <4>1. Waiting(x)'
        BY <2>3, <3>1 DEF Waiting
      <4> QED
        BY <2>1, <3>1, <4>1
    <3>2. CASE x # s
      <4>1. Waiting(x)' <=> Waiting(x)
        BY <2>3, <3>2 DEF Waiting
      <4> QED
        BY <1>2, <2>1, <3>2, <4>1 DEF ViewInv, EmViewIsDelayed, TypeOK
    <3> QED
      BY <3>1, <3>2
  <2> QED
    BY <1>2, <2>1, <2>4, <2>5 DEF ViewInv, KnowsNothing, EmViewIsDelayed, NothingWaits, Live
<1> QED
  BY <1>1, <1>2

\* The first waiting message is handled: it was the last for its sensor, or
\* another one for it still waits.
LEMMA ViewAfterHandler ==
    ASSUME TypeOK, ViewInv, EMHandles \/ EMHandlesInPart
    PROVE  ViewInv'
<1>1. /\ toEM # <<>> /\ toEM' = Tail(toEM) /\ Head(toEM) \in Updates
      /\ emIntensity' = [emIntensity EXCEPT ![Head(toEM).sensor] = Head(toEM).intensity]
      /\ Live(emConn) /\ UNCHANGED <<emConn, intensity, unheard>>
      /\ emHandler /\ emHandler'
  BY HandlerEffect
  DEF EMHandles, EMHandlesInPart, ManageFireUpdate, ManageFireUpdateFails, ReceiveUpdate, serverVars
<1>2. toEM \in Seq(Updates) /\ Head(toEM) = toEM[1]
  BY <1>1 DEF TypeOK
<1>3. /\ Len(toEM) \in Nat /\ Len(toEM) > 0 /\ DOMAIN toEM = 1 .. Len(toEM)
      /\ DOMAIN toEM' = 1 .. Len(toEM) - 1
      /\ \A i \in 1 .. Len(toEM) - 1 : toEM'[i] = toEM[i + 1]
  BY <1>1, <1>2, HeadTailProperties, LenProperties, EmptySeq
<1>4. ASSUME NEW x \in Sensors, NEW i \in DOMAIN toEM', IsLastFor(i, x)'
      PROVE  toEM'[i].intensity = intensity'[x]
  <2>1. i + 1 \in DOMAIN toEM
    BY <1>3
  <2>2. IsLastFor(i + 1, x)
    <3>1. ASSUME NEW j \in DOMAIN toEM, j > i + 1
          PROVE  toEM[j].sensor # x
      <4>1. j - 1 \in DOMAIN toEM' /\ j - 1 > i /\ toEM'[j - 1] = toEM[j]
        BY <1>3, <3>1
      <4> QED
        BY <1>4, <4>1 DEF IsLastFor
    <3> QED
      BY <1>3, <1>4, <3>1 DEF IsLastFor
  <2> QED
    BY <1>1, <1>3, <2>1, <2>2 DEF ViewInv, EmViewIsDelayed
<1>5. ASSUME NEW x \in Sensors
      PROVE  /\ ~Waiting(x)' =>
                   emIntensity'[x] = IF x \in unheard' THEN 0 ELSE intensity'[x]
             /\ x \in unheard' => ~Waiting(x)'
  <2>1. Waiting(x)' => Waiting(x)
    BY <1>3 DEF Waiting
  <2>2. CASE x # Head(toEM).sensor
    <3>1. Waiting(x) => Waiting(x)'
      <4> SUFFICES ASSUME NEW i \in DOMAIN toEM, toEM[i].sensor = x
                   PROVE  Waiting(x)'
        BY DEF Waiting
      <4>1. i - 1 \in DOMAIN toEM' /\ toEM'[i - 1] = toEM[i]
        BY <1>2, <1>3, <2>2
      <4> QED
        BY <4>1 DEF Waiting
    <3> QED
      BY <1>1, <2>1, <2>2, <3>1 DEF ViewInv, EmViewIsDelayed, TypeOK
  <2>3. CASE x = Head(toEM).sensor
    <3>1. Waiting(x)
      BY <1>2, <1>3, <2>3 DEF Waiting
    <3>2. x \notin unheard
      BY <1>1, <3>1 DEF ViewInv, EmViewIsDelayed
    <3>3. ASSUME ~Waiting(x)'
          PROVE  emIntensity'[x] = intensity'[x]
      <4>1. IsLastFor(1, x)
        <5>1. ASSUME NEW j \in DOMAIN toEM, j > 1
              PROVE  toEM[j].sensor # x
          <6>1. j - 1 \in DOMAIN toEM' /\ toEM'[j - 1] = toEM[j]
            BY <1>3, <5>1
          <6> QED
            BY <3>3, <6>1 DEF Waiting
        <5> QED
          BY <1>2, <2>3, <5>1 DEF IsLastFor
      <4>2. toEM[1].intensity = intensity[x]
        BY <1>1, <1>3, <4>1 DEF ViewInv, EmViewIsDelayed
      <4> QED
        BY <1>1, <1>2, <2>3, <4>2 DEF TypeOK
    <3> QED
      BY <1>1, <3>2, <3>3
  <2> QED
    BY <2>2, <2>3
<1> QED
  BY <1>1, <1>4, <1>5 DEF ViewInv, KnowsNothing, EmViewIsDelayed, NothingWaits, Live

\* The first waiting message is thrown away: its sensor is unheard from then on,
\* unless another one for it still waits.
LEMMA ViewAfterIgnoring ==
    ASSUME TypeOK, ViewInv, EMIgnores
    PROVE  ViewInv'
<1> DEFINE s == Head(toEM).sensor
<1>1. /\ toEM # <<>> /\ toEM' = Tail(toEM) /\ Live(emConn)
      /\ UNCHANGED <<emConn, intensity, emIntensity>>
      /\ unheard' = IF \E i \in 2 .. Len(toEM) : toEM[i].sensor = s
                    THEN unheard ELSE unheard \cup {s}
  BY DEF EMIgnores, IgnoreUpdate, emVars
<1>2. toEM \in Seq(Updates) /\ Head(toEM) = toEM[1]
  BY <1>1 DEF TypeOK
<1>3. /\ Len(toEM) \in Nat /\ Len(toEM) > 0 /\ DOMAIN toEM = 1 .. Len(toEM)
      /\ DOMAIN toEM' = 1 .. Len(toEM) - 1
      /\ \A i \in 1 .. Len(toEM) - 1 : toEM'[i] = toEM[i + 1]
  BY <1>1, <1>2, HeadTailProperties, LenProperties, EmptySeq
<1> HIDE DEF s
<1>4. ASSUME NEW x \in Sensors, NEW i \in DOMAIN toEM', IsLastFor(i, x)'
      PROVE  toEM'[i].intensity = intensity'[x]
  <2>1. i + 1 \in DOMAIN toEM
    BY <1>3
  <2>2. ASSUME NEW j \in DOMAIN toEM, j > i + 1
        PROVE  toEM[j].sensor # x
    <3>1. j - 1 \in DOMAIN toEM' /\ j - 1 > i /\ toEM'[j - 1] = toEM[j]
      BY <1>3, <2>2
    <3> QED
      BY <1>4, <3>1 DEF IsLastFor
  <2>3. IsLastFor(i + 1, x)
    BY <1>3, <1>4, <2>2 DEF IsLastFor
  <2> QED
    BY <1>1, <1>3, <2>1, <2>3 DEF ViewInv, EmViewIsDelayed
<1>5. ASSUME NEW x \in Sensors
      PROVE  Waiting(x)' <=> \E i \in 2 .. Len(toEM) : toEM[i].sensor = x
  <2>1. ASSUME NEW i \in 2 .. Len(toEM)
        PROVE  i - 1 \in DOMAIN toEM' /\ toEM'[i - 1] = toEM[i]
    BY <1>3
  <2>2. ASSUME NEW i \in DOMAIN toEM'
        PROVE  i + 1 \in 2 .. Len(toEM) /\ toEM'[i] = toEM[i + 1]
    BY <1>3
  <2> QED
    BY <2>1, <2>2 DEF Waiting
<1>6. ASSUME NEW x \in Sensors
      PROVE  /\ ~Waiting(x)' =>
                   emIntensity'[x] = IF x \in unheard' THEN 0 ELSE intensity'[x]
             /\ x \in unheard' => ~Waiting(x)'
  <2>1. Waiting(x) <=> Waiting(x)' \/ x = s
    BY <1>2, <1>3, <1>5 DEF Waiting, s
  <2>2. CASE x # s
    BY <1>1, <2>1, <2>2 DEF ViewInv, EmViewIsDelayed
  <2>3. CASE x = s
    <3>1. x \notin unheard
      BY <1>1, <2>1, <2>3 DEF ViewInv, EmViewIsDelayed
    <3>2. x \in unheard' <=> ~Waiting(x)'
      BY <1>1, <1>5, <2>3, <3>1
    <3>3. emIntensity[x] = 0
      BY DEF EMIgnores, IgnoreUpdate, ViewInv, KnowsNothing
    <3> QED
      BY <1>1, <3>2, <3>3
  <2> QED
    BY <2>2, <2>3
<1>7. KnowsNothing'
  BY DEF EMIgnores, IgnoreUpdate, emVars, ViewInv, KnowsNothing
<1> QED
  BY <1>1, <1>4, <1>6, <1>7 DEF ViewInv, EmViewIsDelayed, NothingWaits, Live

\* A process that connects knows nothing, and nothing waits for it.
LEMMA ViewAfterConnect ==
    ASSUME TypeOK, ViewInv, EMConnects
    PROVE  ViewInv'
<1>1. /\ toEM = <<>> /\ toEM' = toEM /\ Live(emConn')
      /\ unheard' = {s \in Sensors : intensity[s] # 0} /\ intensity' = intensity
      /\ emIntensity' = [s \in Sensors |-> 0] /\ KnowsNothing'
  BY DEF EMConnects, ConnectEM, EMReset, ViewInv, KnowsNothing, NothingWaits, Live
<1>2. DOMAIN toEM' = {}
  BY <1>1
<1> QED
  BY <1>1, <1>2 DEF ViewInv, EmViewIsDelayed, NothingWaits, Waiting, Live

\* EmViewIsDelayed holds of every behaviour: what the emergency manager acts
\* on is the server's table as of the messages it has read, whatever crashes,
\* connects late or fails to be sent.
THEOREM ViewCorrect == Spec => []EmViewIsDelayed
<1>1. Init => ViewInv
  BY DEF Init, EMInit, ViewInv, KnowsNothing, EmViewIsDelayed, NothingWaits, Live
<1>2. TypeOK /\ ViewInv /\ [Next]_vars => ViewInv'
  <2> SUFFICES ASSUME TypeOK, ViewInv, [Next]_vars
               PROVE  ViewInv'
    OBVIOUS
  <2>1. CASE EMHandles \/ EMHandlesInPart
    BY <2>1, ViewAfterHandler
  <2>2. CASE EMConnects
    BY <2>2, ViewAfterConnect
  <2>10. CASE EMAddsHandler
    BY <2>10
    DEF EMAddsHandler, AddMessageHandler, channels, serverVars, ViewInv, KnowsNothing,
        EmViewIsDelayed, NothingWaits, IsLastFor, Waiting, Live
  <2>11. CASE EMIgnores
    BY <2>11, ViewAfterIgnoring
  <2>3. CASE EMCrashes \/ EMDropped \/ ServerSendFails
    BY <2>3, ViewOfNoPeer
    DEF EMCrashes, EMDropped, NoticeEMGone, ServerSendFails, SendTruckFails, CloseEM, Live
  <2>4. CASE ServerCrashes \/ ServerShutsDown
    BY <2>4, ViewOfNoPeer
    DEF ServerCrashes, ServerShutsDown, ServerCrash, ServerShutdown, Restart, CloseEM, Live
  <2>5. CASE \E s \in Sensors, r \in Intensities : ServerReads(s, r)
    BY <2>5, ViewAfterReading
  <2>6. CASE \/ SimulatorConnects \/ SimulatorAddsHandler \/ SimulatorIgnores
             \/ SimulatorTakesOrder \/ SimulatorCrashes \/ SimulatorDropped
    BY <2>6, ViewUnchanged
    DEF SimulatorAddsHandler, SimulatorIgnores, channels, SimulatorConnects, SimReset, ConnectSimulator, SimulatorTakesOrder, SimulatorCrashes,
        SimulatorDropped, CloseSimulator, emVars, serverVars, simVars
  <2>7. CASE \E t \in Trucks : SimulatorReleases(t) \/ ServerFrees(t)
    BY <2>7, ViewUnchanged DEF SimulatorReleases, ServerFrees, UpdateAvailable, emVars, serverVars, simVars
  <2>8. CASE ServerSends
    BY <2>8, ViewUnchanged DEF ServerSends, SendTruckOk, emVars
  <2>9. CASE UNCHANGED vars
    BY <2>9, ViewUnchanged DEF vars, emVars, serverVars, simVars, channels
  <2> QED
    BY <2>1, <2>2, <2>3, <2>4, <2>5, <2>6, <2>7, <2>8, <2>9, <2>10, <2>11
    DEF Next, Operation, Failure
<1>3. ViewInv => EmViewIsDelayed
  BY DEF ViewInv
<1> QED
  BY <1>1, <1>2, <1>3, TypeCorrect, PTL DEF Spec

----------------------------------------------------------------------------
(* What the database remembers. *)

\* Whatever the outcome of send_truck, its order is recorded.
LEMMA StartRecords ==
    ASSUME ServerSends \/ ServerSendFails
    PROVE  interventions' \cup unrecorded'
              = (interventions \cup unrecorded)
                    \cup {<<Head(toServer).sensor, Head(toServer).truck>>}
  BY DEF ServerSends, SendTruckOk, StartIntervention, ServerSendFails, SendTruckFails

\* UnavailableHasIntervention holds of every behaviour: the database never
\* lets a restarted server offer a truck that is on its way, except one whose
\* send_truck raised.
THEOREM UnavailableCorrect == Spec => []UnavailableHasIntervention
<1>1. Init => UnavailableHasIntervention
  BY DEF Init, ServerInit, AvailableFromDatabase, HasIntervention, UnavailableHasIntervention
<1>2. TypeOK /\ UnavailableHasIntervention /\ [Next]_vars => UnavailableHasIntervention'
  <2> SUFFICES ASSUME TypeOK, UnavailableHasIntervention, [Next]_vars,
                      NEW t \in Trucks, ~available'[t]
               PROVE  HasIntervention(interventions' \cup unrecorded', t)
    BY DEF UnavailableHasIntervention
  <2>1. CASE ServerSends \/ ServerSendFails
    <3>1. Head(toServer) \in Orders
      BY <2>1, HeadTailProperties
      DEF ServerSends, SendTruckOk, ServerSendFails, SendTruckFails, TakeOrder, TypeOK
    <3>2. Head(toServer).sensor \in Sensors /\ Head(toServer).truck \in Trucks
      BY <3>1 DEF Orders
    <3>3. available' = [available EXCEPT ![Head(toServer).truck] = FALSE]
      BY <2>1 DEF ServerSends, SendTruckOk, ServerSendFails, SendTruckFails
    <3>4. CASE t = Head(toServer).truck
      BY <2>1, <3>2, <3>4, StartRecords DEF HasIntervention
    <3>5. CASE t # Head(toServer).truck
      BY <2>1, <3>2, <3>3, <3>5, StartRecords
      DEF HasIntervention, UnavailableHasIntervention, TypeOK
    <3> QED
      BY <3>4, <3>5
  <2>2. CASE ServerCrashes \/ ServerShutsDown
    BY <2>2
    DEF ServerCrashes, ServerShutsDown, ServerCrash, ServerShutdown, Restart,
        AvailableFromDatabase, HasIntervention
  <2>3. CASE \E u \in Trucks : ServerFrees(u)
    BY <2>3
    DEF ServerFrees, UpdateAvailable, serverVars, simVars, TypeOK, UnavailableHasIntervention
  <2>4. CASE UNCHANGED <<available, interventions, unrecorded>>
    BY <2>4 DEF UnavailableHasIntervention
  <2>5. CASE EMHandles \/ EMHandlesInPart
    BY <2>4, <2>5, HandlerEffect DEF EMHandles, EMHandlesInPart, serverVars, simVars
  <2> QED
    BY <2>1, <2>2, <2>3, <2>4, <2>5
    DEF Next, Operation, Failure, EMAddsHandler, AddMessageHandler, EMIgnores, IgnoreUpdate,
        SimulatorAddsHandler, SimulatorIgnores, EMConnects, ConnectEM, EMCrashes, EMDropped,
        NoticeEMGone, SimulatorConnects, SimReset, ConnectSimulator, SimulatorTakesOrder, SimulatorCrashes,
        SimulatorDropped, CloseSimulator, SimulatorReleases, ServerReads, HandleSensorData,
        channels, serverVars, simVars, vars
<1> QED
  BY <1>1, <1>2, TypeCorrect, PTL DEF Spec

\* DispatchIsRecorded holds of every behaviour: the simulator never drives a
\* truck to a fire the database does not know of.
THEOREM RecordedCorrect == Spec => []DispatchIsRecorded
<1>1. Init => DispatchIsRecorded
  BY DEF Init, Idle, DispatchIsRecorded
<1>2. TypeOK /\ DispatchIsRecorded /\ [Next]_vars => DispatchIsRecorded'
  <2> SUFFICES ASSUME TypeOK, DispatchIsRecorded, [Next]_vars
               PROVE  DispatchIsRecorded'
    OBVIOUS
  <2>1. CASE ServerSends \/ ServerSendFails
    <3>1. Head(toServer) \in Orders
      BY <2>1, HeadTailProperties
      DEF ServerSends, SendTruckOk, ServerSendFails, SendTruckFails, TakeOrder, TypeOK
    <3>2. simSensor' = simSensor
      BY <2>1 DEF simVars, ServerSends, ServerSendFails
    <3>3. CASE toSim' = toSim
      BY <2>1, <3>2, <3>3, StartRecords DEF DispatchIsRecorded
    <3>4. CASE toSim' = Append(toSim, Head(toServer))
      <4>1. /\ DOMAIN toSim = 1 .. Len(toSim) /\ Len(toSim) \in Nat
            /\ DOMAIN toSim' = 1 .. Len(toSim) + 1
            /\ toSim'[Len(toSim) + 1] = Head(toServer)
            /\ \A i \in 1 .. Len(toSim) : toSim'[i] = toSim[i]
        BY <3>1, <3>4, AppendProperties, LenProperties DEF TypeOK
      <4> QED
        BY <2>1, <3>2, <4>1, StartRecords DEF DispatchIsRecorded
    <3> QED
      BY <2>1, <3>3, <3>4 DEF ServerSends, SendTruckOk, ServerSendFails, SendTruckFails
  <2>2. CASE SimulatorTakesOrder
    <3>1. /\ toSim # <<>> /\ toSim' = Tail(toSim)
          /\ simSensor' = [simSensor EXCEPT ![Head(toSim).truck] = Head(toSim).sensor]
          /\ UNCHANGED <<interventions, unrecorded>>
      BY <2>2 DEF SimulatorTakesOrder, serverVars, simVars
    <3>2. /\ Head(toSim) \in Orders /\ Head(toSim) = toSim[1] /\ 1 \in DOMAIN toSim
          /\ DOMAIN toSim' = 1 .. Len(toSim) - 1
          /\ \A i \in 1 .. Len(toSim) - 1 : i + 1 \in DOMAIN toSim /\ toSim'[i] = toSim[i + 1]
      BY <3>1, HeadTailProperties, LenProperties, EmptySeq DEF TypeOK
    <3>3. Head(toSim).truck \in Trucks
      BY <3>2 DEF Orders
    <3> QED
      BY <3>1, <3>2, <3>3 DEF DispatchIsRecorded, TypeOK
  <2>3. CASE toSim' = <<>> /\ simSensor' = Idle
    BY <2>3 DEF DispatchIsRecorded, Idle
  <2>4. CASE \E t \in Trucks : SimulatorReleases(t)
    BY <2>4 DEF SimulatorReleases, serverVars, simVars, DispatchIsRecorded, TypeOK
  <2>5. CASE SimulatorConnects
    BY <2>5 DEF SimulatorConnects, SimReset, ConnectSimulator, serverVars, simVars, Idle, DispatchIsRecorded
  <2>6. CASE UNCHANGED <<toSim, simSensor, interventions, unrecorded>>
    BY <2>6 DEF DispatchIsRecorded
  <2>7. CASE EMHandles \/ EMHandlesInPart
    BY <2>6, <2>7, HandlerEffect DEF EMHandles, EMHandlesInPart, serverVars, simVars
  <2>8. CASE SimulatorIgnores
    <3>1. /\ DOMAIN toSim' = 1 .. Len(toSim) - 1
          /\ \A i \in 1 .. Len(toSim) - 1 : i + 1 \in DOMAIN toSim /\ toSim'[i] = toSim[i + 1]
      BY <2>8, HeadTailProperties, LenProperties, EmptySeq DEF SimulatorIgnores, TypeOK
    <3> QED
      BY <2>8, <3>1 DEF SimulatorIgnores, serverVars, simVars, DispatchIsRecorded
  <2> QED
    BY <2>1, <2>2, <2>3, <2>4, <2>5, <2>6, <2>7, <2>8
    DEF Next, Operation, Failure, EMAddsHandler, AddMessageHandler, EMIgnores, IgnoreUpdate,
        SimulatorAddsHandler, channels, SimReset, EMConnects, ConnectEM, EMCrashes, EMDropped, NoticeEMGone,
        SimulatorCrashes, SimulatorDropped, CloseSimulator, ServerReads, HandleSensorData,
        ServerFrees, UpdateAvailable, ServerCrashes, ServerShutsDown, SimReset, ServerCrash, ServerShutdown, Restart,
        serverVars, simVars, channels, vars
<1> QED
  BY <1>1, <1>2, TypeCorrect, PTL DEF Spec

----------------------------------------------------------------------------
(***************************************************************************)
(* The trucks sent to a fire.  NoOverbooking adds capacities up: what the  *)
(* sum over a set is, whichever element CHOOSE takes first, is shown by    *)
(* induction over the subsets of the set, from the well-foundedness of     *)
(* their inclusion.                                                        *)
(***************************************************************************)

\* Induction over the subsets of a finite set, for a property given as a set.
LEMMA SubsetInduction ==
    ASSUME NEW S, IsFiniteSet(S), NEW Q,
           \A A \in SUBSET S : (\A B \in SUBSET A : B # A => B \in Q) => A \in Q
    PROVE  \A A \in SUBSET S : A \in Q
<1> DEFINE T == (SUBSET S) \ Q
<1> SUFFICES ASSUME T # {} PROVE FALSE
  OBVIOUS
<1>1. IsWellFoundedOn(StrictSubsetOrdering(S), FiniteSubsetsOf(S))
  BY FS_StrictSubsetOrderingWellFounded
<1>2. T \subseteq FiniteSubsetsOf(S)
  BY FS_FiniteSubsetsOfFinite
<1>3. PICK A \in T : \A B \in T : ~(<<B, A>> \in StrictSubsetOrdering(S))
  <2> HIDE DEF T
  <2> QED
    BY <1>1, <1>2, WFMin
<1>4. ASSUME NEW B \in SUBSET A, B # A PROVE B \in Q
  BY <1>3, <1>4 DEF StrictSubsetOrdering
<1> QED
  BY <1>3, <1>4

\* TotalCapacity is the value at S of any function that sums over the subsets of S,
\* taking away the element CHOOSE picks.
Cap(o) == Capacity[o[1]]
Pick(s) == CHOOSE x \in s : TRUE
IsSum(f, S) ==
    f = [s \in SUBSET S |-> IF s = {} THEN 0 ELSE Cap(Pick(s)) + f[s \ {Pick(s)}]]

\* TotalCapacity, down to its definition in the community modules.
LEMMA TotalIsSum ==
    ASSUME NEW S
    PROVE  TotalCapacity(S) = (CHOOSE f : IsSum(f, S))[S]
BY DEF TotalCapacity, MapThenSumSet, MapThenFoldSet, IsSum, Cap, Pick

\* Two such functions agree where both are defined.
LEMMA SumsAgree ==
    ASSUME NEW S, IsFiniteSet(S), NEW T, NEW f, NEW g, IsSum(f, S), IsSum(g, T),
           NEW A \in SUBSET (S \cap T)
    PROVE  f[A] = g[A]
<1> DEFINE D == S \cap T
           Q == {B \in SUBSET D : f[B] = g[B]}
<1>1. IsFiniteSet(D)
  BY FS_Intersection
<1>2. ASSUME NEW B \in SUBSET D, \A C \in SUBSET B : C # B => C \in Q
      PROVE  B \in Q
  <2>1. CASE B = {}
    BY <2>1 DEF IsSum
  <2>2. CASE B # {}
    <3>1. Pick(B) \in B
      BY <2>2 DEF Pick
    <3>2. B \ {Pick(B)} \in SUBSET B /\ B \ {Pick(B)} # B
      BY <3>1
    <3>3. f[B \ {Pick(B)}] = g[B \ {Pick(B)}]
      BY <1>2, <3>2
    <3>4. f[B] = Cap(Pick(B)) + f[B \ {Pick(B)}]
      BY <2>2 DEF IsSum
    <3>5. g[B] = Cap(Pick(B)) + g[B \ {Pick(B)}]
      BY <2>2 DEF IsSum
    <3> QED
      BY <3>3, <3>4, <3>5
  <2> QED
    BY <2>1, <2>2
<1> HIDE DEF D, Q
<1>3. \A B \in SUBSET D : B \in Q
  BY <1>1, <1>2, SubsetInduction
<1> QED
  BY <1>3 DEF D, Q

\* There is one for every finite set, so TotalCapacity is not a CHOOSE of nothing.
LEMMA SumExists ==
    ASSUME NEW S, IsFiniteSet(S)
    PROVE  \E f : IsSum(f, S)
<1> DEFINE Q == {A \in SUBSET S : \E f : IsSum(f, A)}
<1>1. ASSUME NEW A \in SUBSET S, \A B \in SUBSET A : B # A => B \in Q
      PROVE  A \in Q
  <2> DEFINE g == [s \in SUBSET A |-> IF s = {} THEN 0
                                      ELSE Cap(Pick(s)) + TotalCapacity(s \ {Pick(s)})]
  <2>1. ASSUME NEW s \in SUBSET A, s # {}
        PROVE  g[s \ {Pick(s)}] = TotalCapacity(s \ {Pick(s)})
    <3> DEFINE B == s \ {Pick(s)}
    <3>1. Pick(s) \in s
      BY <2>1 DEF Pick
    <3>2. B \in SUBSET A /\ B # A
      BY <3>1
    <3>3. \E f : IsSum(f, B)
      BY <1>1, <3>2
    <3> DEFINE f == CHOOSE h : IsSum(h, B)
    <3>4. IsSum(f, B) /\ TotalCapacity(B) = f[B]
      BY <3>3, TotalIsSum
    <3> HIDE DEF B, f
    <3>5. CASE B = {}
      <4>1. TotalCapacity(B) = 0
        BY <3>4, <3>5 DEF IsSum
      <4>2. g[B] = 0
        BY <3>2, <3>5
      <4> QED
        BY <4>1, <4>2 DEF B
    <3>6. CASE B # {}
      <4> DEFINE C == B \ {Pick(B)}
      <4>1. Pick(B) \in B
        BY <3>6 DEF Pick
      <4>2. C \in SUBSET B /\ C # B /\ C # A
        BY <3>2, <4>1
      <4>3. \E h : IsSum(h, C)
        BY <1>1, <3>2, <4>2
      <4> DEFINE h == CHOOSE k : IsSum(k, C)
      <4>4. IsSum(h, C) /\ TotalCapacity(C) = h[C]
        BY <4>3, TotalIsSum
      <4>5. IsFiniteSet(B) /\ IsFiniteSet(C)
        BY <3>2, <4>2, FS_Subset
      <4> HIDE DEF h
      <4>6. f[C] = h[C]
        BY <3>4, <4>2, <4>4, <4>5, SumsAgree
      <4>7. f[B] = Cap(Pick(B)) + f[C]
        BY <3>4, <3>6 DEF IsSum
      <4>8. g[B] = Cap(Pick(B)) + TotalCapacity(C)
        BY <3>2, <3>6
      <4> QED
        BY <3>4, <4>4, <4>6, <4>7, <4>8 DEF B
    <3> QED
      BY <3>5, <3>6
  <2>2. IsSum(g, A)
    <3>1. \A s \in SUBSET A :
             g[s] = IF s = {} THEN 0 ELSE Cap(Pick(s)) + g[s \ {Pick(s)}]
      BY <2>1
    <3>2. g = [s \in SUBSET A |-> g[s]]
      OBVIOUS
    <3> HIDE DEF g
    <3> QED
      BY <3>1, <3>2, Zenon DEF IsSum
  <2> QED
    BY <2>2
<1> HIDE DEF Q
<1>2. S \in Q
  BY <1>1, SubsetInduction
<1> QED
  BY <1>2 DEF Q

\* The sum of nothing, and the step from a set to the set without the picked element.
LEMMA TotalSteps ==
    ASSUME NEW S, IsFiniteSet(S)
    PROVE  /\ TotalCapacity({}) = 0
           /\ S # {} => TotalCapacity(S) = Cap(Pick(S)) + TotalCapacity(S \ {Pick(S)})
<1> DEFINE f(T) == CHOOSE h : IsSum(h, T)
<1>1. \A T : IsFiniteSet(T) => IsSum(f(T), T) /\ TotalCapacity(T) = f(T)[T]
  BY SumExists, TotalIsSum
<1> HIDE DEF f
<1>2. TotalCapacity({}) = 0
  BY <1>1, FS_EmptySet DEF IsSum
<1>3. ASSUME S # {}
      PROVE  TotalCapacity(S) = Cap(Pick(S)) + TotalCapacity(S \ {Pick(S)})
  <2> DEFINE B == S \ {Pick(S)}
  <2>1. B \subseteq S /\ IsFiniteSet(B)
    BY FS_RemoveElement
  <2>2. f(S)[B] = f(B)[B]
    BY <1>1, <2>1, SumsAgree
  <2>3. f(S)[S] = Cap(Pick(S)) + f(S)[B]
    BY <1>1, <1>3 DEF IsSum
  <2> QED
    BY <1>1, <2>1, <2>2, <2>3
<1> QED
  BY <1>2, <1>3

\* Adding an object adds its capacity, whichever CHOOSE takes first.
LEMMA TotalAdd ==
    ASSUME NEW S \in SUBSET TruckObjects, IsFiniteSet(S), NEW x \in S
    PROVE  /\ TotalCapacity(S) \in Nat
           /\ TotalCapacity(S) = Cap(x) + TotalCapacity(S \ {x})
<1> DEFINE Q == {A \in SUBSET S : /\ TotalCapacity(A) \in Nat
                                  /\ \A y \in A : TotalCapacity(A) = Cap(y) + TotalCapacity(A \ {y})}
<1>1. \A y \in S : Cap(y) \in Nat
  BY CapacityType DEF Cap, TruckObjects
<1>2. ASSUME NEW A \in SUBSET S, \A B \in SUBSET A : B # A => B \in Q
      PROVE  A \in Q
  <2>1. IsFiniteSet(A)
    BY FS_Subset
  <2>2. CASE A = {}
    <3>1. TotalCapacity(A) = 0
      BY <2>1, <2>2, TotalSteps
    <3> QED
      BY <2>2, <3>1
  <2>3. CASE A # {}
    <3> DEFINE p == Pick(A)
    <3>1. p \in A
      BY <2>3 DEF Pick
    <3>2. TotalCapacity(A) = Cap(p) + TotalCapacity(A \ {p})
      BY <2>1, <2>3, TotalSteps
    <3> HIDE DEF p
    <3>3. \A y \in A : A \ {y} \in Q
      BY <1>2
    <3>4. \A y \in A : TotalCapacity(A \ {y}) \in Nat /\ Cap(y) \in Nat
      BY <1>1, <3>3
    <3>5. ASSUME NEW y \in A, y # p
          PROVE  TotalCapacity(A) = Cap(y) + TotalCapacity(A \ {y})
      <4> DEFINE C == (A \ {p}) \ {y}
      <4>1. C = (A \ {y}) \ {p} /\ C \in SUBSET A /\ C # A
        BY <3>1, <3>5
      <4>2. TotalCapacity(A \ {p}) = Cap(y) + TotalCapacity(C)
        <5>1. y \in A \ {p}
          BY <3>5
        <5> QED
          BY <3>1, <3>3, <5>1
      <4>3. TotalCapacity(A \ {y}) = Cap(p) + TotalCapacity(C)
        <5>1. p \in A \ {y}
          BY <3>1, <3>5
        <5>2. TotalCapacity(A \ {y}) = Cap(p) + TotalCapacity((A \ {y}) \ {p})
          BY <3>3, <5>1
        <5> QED
          BY <4>1, <5>2
      <4>4. TotalCapacity(C) \in Nat
        BY <1>2, <4>1
      <4> QED
        BY <3>1, <3>2, <3>4, <4>2, <4>3, <4>4
    <3>6. TotalCapacity(A) \in Nat
      BY <3>1, <3>2, <3>4
    <3> QED
      BY <3>2, <3>5, <3>6
  <2> QED
    BY <2>2, <2>3
<1> HIDE DEF Q
<1>3. S \in Q
  BY <1>2, SubsetInduction
<1> QED
  BY <1>3 DEF Q

\* A finite set of trucks has a capacity.
LEMMA TotalType ==
    ASSUME NEW S \in SUBSET TruckObjects, IsFiniteSet(S)
    PROVE  TotalCapacity(S) \in Nat
<1>1. CASE S = {}
  BY <1>1, FS_EmptySet, TotalSteps
<1>2. CASE S # {}
  BY <1>2, TotalAdd
<1> QED
  BY <1>1, <1>2

\* Sets of objects weigh no more together than apart, and a part no more than the whole.
LEMMA TotalUnion ==
    ASSUME NEW S \in SUBSET TruckObjects, IsFiniteSet(S), NEW T \in SUBSET TruckObjects, IsFiniteSet(T)
    PROVE  /\ TotalCapacity(S \cup T) <= TotalCapacity(S) + TotalCapacity(T)
           /\ TotalCapacity(S) <= TotalCapacity(S \cup T)
<1> DEFINE Q == {A \in SUBSET T : /\ TotalCapacity(S \cup A) <= TotalCapacity(S) + TotalCapacity(A)
                                  /\ TotalCapacity(S) <= TotalCapacity(S \cup A)}
<1>1. ASSUME NEW A \in SUBSET T, \A B \in SUBSET A : B # A => B \in Q
      PROVE  A \in Q
  <2>1. /\ IsFiniteSet(A) /\ TotalCapacity(A) \in Nat /\ TotalCapacity(S) \in Nat
        /\ IsFiniteSet(S \cup A) /\ TotalCapacity(S \cup A) \in Nat
    BY FS_Subset, FS_Union, TotalType
  <2>2. CASE A = {}
    <3>1. S \cup A = S /\ TotalCapacity(A) = 0
      BY <2>2, TotalSteps, FS_EmptySet
    <3>2. TotalCapacity(S \cup A) = TotalCapacity(S)
      BY <3>1
    <3> QED
      BY <2>1, <3>1, <3>2
  <2>3. CASE A # {}
    <3>1. PICK y : y \in A
      BY <2>3
    <3> DEFINE B == A \ {y}
    <3>2. B \in Q
      BY <1>1, <3>1
    <3>3. /\ IsFiniteSet(B) /\ TotalCapacity(B) \in Nat
          /\ IsFiniteSet(S \cup B) /\ TotalCapacity(S \cup B) \in Nat
      BY FS_Subset, FS_Union, TotalType
    <3>4. TotalCapacity(A) = Cap(y) + TotalCapacity(B)
      BY <2>1, <3>1, TotalAdd
    <3>5. Cap(y) \in Nat
      BY <3>1, CapacityType DEF Cap, TruckObjects
    <3>6. TotalCapacity(S \cup A) \in {TotalCapacity(S \cup B), Cap(y) + TotalCapacity(S \cup B)}
      <4>1. CASE y \in S
        <5>1. S \cup A = S \cup B
          BY <3>1, <4>1
        <5> QED
          BY <5>1
      <4>2. CASE y \notin S
        <5>1. (S \cup A) \ {y} = S \cup B /\ y \in S \cup A
          BY <3>1, <4>2
        <5>2. TotalCapacity(S \cup A) = Cap(y) + TotalCapacity((S \cup A) \ {y})
          BY <2>1, <5>1, TotalAdd
        <5> QED
          BY <5>1, <5>2
      <4> QED
        BY <4>1, <4>2
    <3>7. TotalCapacity(S \cup B) <= TotalCapacity(S) + TotalCapacity(B)
          /\ TotalCapacity(S) <= TotalCapacity(S \cup B)
      BY <3>2
    <3> HIDE DEF B
    <3> QED
      BY <2>1, <3>3, <3>4, <3>5, <3>6, <3>7
  <2> QED
    BY <2>2, <2>3
<1> HIDE DEF Q
<1>2. T \in Q
  BY <1>1, SubsetInduction
<1> QED
  BY <1>2 DEF Q


\* NoOverbooking for one sensor: the trucks sent there are not too many by one.
CoveredWithoutOne(objects) ==
    objects # {} => \E o \in objects : TotalCapacity(objects \ {o}) < MaxIntensity

\* Trucks chosen for what is lacking, none of which could be left out, are not too
\* many with those that were sent before: the capacity asked for is the intensity.
LEMMA OverbookingStep ==
    ASSUME NEW old \in SUBSET TruckObjects, NEW objects \in SUBSET TruckObjects,
           CoveredWithoutOne(old), NEW i \in Intensities,
           i - TotalCapacity(old) > 0,
           NEW new \in SuitableTrucks(objects, i - TotalCapacity(old))
    PROVE  CoveredWithoutOne(old \cup new)
<1>1. CASE new = {}
  <2>1. old \cup new = old
    BY <1>1
  <2> QED
    BY <2>1
<1>2. CASE new # {}
  <2>1. IsFiniteSet(old) /\ TotalCapacity(old) \in Nat
    BY TruckObjectsFinite, FS_Subset, TotalType
  <2>2. /\ new \in SUBSET objects
        /\ \E last \in new : TotalCapacity(new \ {last}) < i - TotalCapacity(old)
    BY <1>2 DEF SuitableTrucks
  <2>3. PICK last \in new : TotalCapacity(new \ {last}) < i - TotalCapacity(old)
    BY <2>2
  <2> DEFINE rest == new \ {last}
             left == (old \cup new) \ {last}
  <2>4. rest \in SUBSET TruckObjects /\ left \in SUBSET TruckObjects
    BY <2>2
  <2>5. /\ IsFiniteSet(rest) /\ TotalCapacity(rest) \in Nat
        /\ IsFiniteSet(left) /\ TotalCapacity(left) \in Nat
    BY <2>4, TruckObjectsFinite, FS_Subset, TotalType
  <2>6. TotalCapacity(old \cup rest) <= TotalCapacity(old) + TotalCapacity(rest)
    BY <2>1, <2>4, <2>5, TotalUnion
  <2>7. TotalCapacity(left) <= TotalCapacity(old \cup rest)
    <3>1. left \cup (old \cup rest) = old \cup rest
      OBVIOUS
    <3>2. IsFiniteSet(old \cup rest) /\ old \cup rest \in SUBSET TruckObjects
      BY <2>1, <2>4, <2>5, FS_Union
    <3>3. TotalCapacity(left) <= TotalCapacity(left \cup (old \cup rest))
      BY <2>4, <2>5, <3>2, TotalUnion
    <3> QED
      BY <3>1, <3>3
  <2>8. TotalCapacity(old \cup rest) \in Nat
    <3>1. IsFiniteSet(old \cup rest) /\ old \cup rest \in SUBSET TruckObjects
      BY <2>1, <2>4, <2>5, FS_Union
    <3> QED
      BY <3>1, TotalType
  <2>9. i \in Nat /\ i <= MaxIntensity /\ MaxIntensity \in Nat
    BY BoundsType DEF Intensities
  <2>10. TotalCapacity(rest) < i - TotalCapacity(old)
    BY <2>3
  <2> HIDE DEF rest, left
  <2>11. TotalCapacity(left) < MaxIntensity
    BY <2>1, <2>5, <2>6, <2>7, <2>8, <2>9, <2>10
  <2> QED
    BY <2>3, <2>11 DEF CoveredWithoutOne, left
<1> QED
  BY <1>1, <1>2

\* A fire is out: its trucks are sent to the other fires that lack some.
LEMMA NoOverbookingFree ==
    ASSUME TypeOK, NoOverbooking, NEW s \in Sensors, FreeSensor(s)
    PROVE  NoOverbooking'
<1>1. PICK sent \in [Sensors -> SUBSET emTrucks[s]] :
         /\ \A x \in Sensors :
               sent[x] \in IF x \in Sensors \ {s} /\ RequireHelp(x)
                           THEN SuitableTrucks(emTrucks[s], Lacking(x, emIntensity[x]))
                           ELSE {{}}
         /\ emTrucks' = [x \in Sensors |-> [emTrucks EXCEPT ![s] = {}][x] \cup sent[x]]
  BY DEF FreeSensor, SendTrucks
<1>2. emTrucks \in Assignments
  BY DEF TypeOK, Assignments
<1>3. SUFFICES ASSUME NEW x \in Sensors PROVE CoveredWithoutOne(emTrucks'[x])
  BY DEF NoOverbooking, CoveredWithoutOne
<1>4. CASE x = s
  <2>1. sent[x] = {}
    BY <1>1, <1>4
  <2>2. emTrucks'[x] = {}
    BY <1>1, <1>2, <1>4, <2>1 DEF Assignments
  <2> QED
    BY <2>2 DEF CoveredWithoutOne
<1>5. CASE x # s
  <2>1. emTrucks'[x] = emTrucks[x] \cup sent[x] /\ CoveredWithoutOne(emTrucks[x])
    BY <1>1, <1>2, <1>5 DEF Assignments, NoOverbooking, CoveredWithoutOne
  <2>2. emTrucks[x] \in SUBSET TruckObjects /\ emTrucks[s] \in SUBSET TruckObjects
    BY <1>2 DEF Assignments
  <2>3. CASE ~RequireHelp(x)
    <3>1. sent[x] = {}
      BY <1>1, <2>3
    <3>2. emTrucks'[x] = emTrucks[x]
      BY <2>1, <3>1
    <3> QED
      BY <2>1, <3>2
  <2>4. CASE RequireHelp(x)
    <3>1. sent[x] \in SuitableTrucks(emTrucks[s], emIntensity[x] - TotalCapacity(emTrucks[x]))
      BY <1>1, <1>5, <2>4 DEF Lacking
    <3>2. emIntensity[x] \in Intensities
      BY DEF TypeOK
    <3>3. emIntensity[x] - TotalCapacity(emTrucks[x]) > 0
      <4>1. TotalCapacity(emTrucks[x]) \in Nat
        BY <2>2, TruckObjectsFinite, FS_Subset, TotalType
      <4> QED
        BY <2>4, <3>2, <4>1 DEF RequireHelp, Intensities
    <3> QED
      BY <2>1, <2>2, <3>1, <3>2, <3>3, OverbookingStep
  <2> QED
    BY <2>3, <2>4
<1> QED
  BY <1>4, <1>5

\* A fire has changed: the available trucks are sent to it if it lacks some.
LEMMA NoOverbookingUpdate ==
    ASSUME TypeOK, NoOverbooking, NEW s \in Sensors, NEW i \in Intensities, UpdateSensor(s, i)
    PROVE  NoOverbooking'
<1>1. CASE emTrucks' = emTrucks
  BY <1>1 DEF NoOverbooking
<1>2. CASE emTrucks' # emTrucks
  <2>1. /\ Lacking(s, i) > 0
        /\ \E new \in NewObjects :
            LET filtered == {<<t, new[t]>> : t \in {u \in Trucks : available[u]}}
            IN \E toSend \in SuitableTrucks(filtered, Lacking(s, i)) :
                  SendTrucks([x \in Sensors |-> IF x = s THEN toSend ELSE {}], emTrucks)
    BY <1>2 DEF UpdateSensor
  <2>2. PICK new \in NewObjects :
            LET filtered == {<<t, new[t]>> : t \in {u \in Trucks : available[u]}}
            IN \E toSend \in SuitableTrucks(filtered, Lacking(s, i)) :
                  SendTrucks([x \in Sensors |-> IF x = s THEN toSend ELSE {}], emTrucks)
    BY <2>1
  <2> DEFINE filtered == {<<t, new[t]>> : t \in {u \in Trucks : available[u]}}
  <2>3. PICK toSend \in SuitableTrucks(filtered, Lacking(s, i)) :
            SendTrucks([x \in Sensors |-> IF x = s THEN toSend ELSE {}], emTrucks)
    BY <2>2
  <2>4. filtered \in SUBSET TruckObjects
    BY <2>2 DEF NewObjects, TruckObjects
  <2> HIDE DEF filtered
  <2>5. emTrucks' = [x \in Sensors |-> emTrucks[x] \cup (IF x = s THEN toSend ELSE {})]
    BY <2>3 DEF SendTrucks
  <2>6. SUFFICES ASSUME NEW x \in Sensors PROVE CoveredWithoutOne(emTrucks'[x])
    BY DEF NoOverbooking, CoveredWithoutOne
  <2>7. CoveredWithoutOne(emTrucks[x]) /\ emTrucks[x] \in SUBSET TruckObjects
    BY DEF NoOverbooking, CoveredWithoutOne, TypeOK
  <2>8. CASE x # s
    <3>1. emTrucks'[x] = emTrucks[x]
      BY <2>5, <2>8
    <3> QED
      BY <2>7, <3>1
  <2>9. CASE x = s
    <3>1. emTrucks'[x] = emTrucks[x] \cup toSend
      BY <2>5, <2>9
    <3> QED
      BY <2>1, <2>3, <2>4, <2>7, <2>9, <3>1, OverbookingStep DEF Lacking
  <2> QED
    BY <2>8, <2>9
<1> QED
  BY <1>1, <1>2

\* The emergency manager never sends a sensor a truck too many: with some truck of
\* those at a fire left out, the capacity is below the greatest intensity, whatever
\* order the trucks are taken in and whatever is freed or reported meanwhile.
THEOREM OverbookingCorrect == Spec => []NoOverbooking
<1>1. Init => NoOverbooking
  BY DEF Init, EMInit, NoOverbooking
<1>2. TypeOK /\ NoOverbooking /\ [Next]_vars => NoOverbooking'
  <2> SUFFICES ASSUME TypeOK, NoOverbooking, [Next]_vars
               PROVE  NoOverbooking'
    OBVIOUS
  <2>1. CASE EMHandles
    <3> DEFINE s == Head(toEM).sensor
               i == Head(toEM).intensity
    <3>1. s \in Sensors /\ i \in Intensities
      BY <2>1, HandlerEffect DEF EMHandles, Updates
    <3>2. FreeSensor(s) \/ UpdateSensor(s, i)
      BY <2>1 DEF EMHandles, ManageFireUpdate
    <3> HIDE DEF s, i
    <3> QED
      BY <3>1, <3>2, NoOverbookingFree, NoOverbookingUpdate
  <2>2. CASE emTrucks' = [s \in Sensors |-> {}]
    BY <2>2 DEF NoOverbooking
  <2>3. CASE emTrucks' = emTrucks
    BY <2>3 DEF NoOverbooking
  <2> QED
    BY <2>1, <2>2, <2>3
    DEF Next, Operation, Failure, EMHandlesInPart, ManageFireUpdateFails, GetTrucksFails,
        EMAddsHandler, AddMessageHandler, EMIgnores, IgnoreUpdate, SimulatorAddsHandler,
        SimulatorIgnores, EMConnects, EMCrashes, EMDropped, SimulatorConnects, SimulatorTakesOrder,
        SimulatorReleases, SimulatorCrashes, SimulatorDropped, ServerFrees, ServerReads,
        ServerSends, ServerSendFails, ServerCrashes, ServerShutsDown, EMReset, emVars, vars
<1> QED
  BY <1>1, <1>2, TypeCorrect, PTL DEF Spec

=============================================================================
