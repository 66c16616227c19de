------------------------------ MODULE Dispatch ------------------------------
(***************************************************************************)
(* The web server, the emergency manager and, around them, sensors that    *)
(* report any intensity and a simulator that drives trucks to fires.       *)
(*                                                                         *)
(* Of the simulator only what the server can observe is kept here: which   *)
(* sensor each truck is assigned to, and what it reports when it releases  *)
(* one.                                                                    *)
(***************************************************************************)
EXTENDS EmergencyManager, WebServer

VARIABLES
    simSensor,      \* Truck.sensor in the simulator
    simHandler      \* its WebSocketClientEndpoint.messageHandler is set and seen

simVars == <<simSensor, simHandler>>
vars == <<emVars, serverVars, channels, available, simVars>>

Idle == [t \in Trucks |-> NoSensor]

\* A simulator that starts, or has ended.
SimReset == simSensor' = Idle /\ simHandler' = FALSE

Init ==
    /\ EMInit
    /\ ServerInit
    /\ toEM = <<>> /\ toServer = <<>> /\ toSim = <<>> /\ fromSim = {}
    /\ emConn = "none" /\ simConn = "none"
    /\ simSensor = Idle /\ simHandler = FALSE

----------------------------------------------------------------------------
(* The emergency manager's process. *)

EMHandles == ManageFireUpdate /\ UNCHANGED <<serverVars, simVars>>

EMHandlesInPart == ManageFireUpdateFails /\ UNCHANGED <<serverVars, simVars>>

EMConnects == ConnectEM /\ EMReset /\ UNCHANGED simVars

EMAddsHandler == AddMessageHandler /\ UNCHANGED <<serverVars, simVars>>

\* A fire_update that comes before the handler is lost: if no later one of its
\* sensor is on its way, the emergency manager has not heard of the fire.
EMIgnores ==
    LET s == Head(toEM).sensor
    IN  /\ IgnoreUpdate
        /\ unheard' = IF \E i \in 2 .. Len(toEM) : toEM[i].sensor = s
                      THEN unheard ELSE unheard \cup {s}
        /\ UNCHANGED <<intensity, interventions, unrecorded, simVars>>

\* The process dies; a prefix of what it sent is still delivered.
EMCrashes ==
    /\ Live(emConn)
    /\ emConn' = "dead"
    /\ toEM' = <<>>
    /\ \E n \in 0 .. Len(toServer) : toServer' = SubSeq(toServer, 1, n)
    /\ EMReset
    /\ UNCHANGED <<serverVars, available, toSim, fromSim, simConn, simVars>>

EMDropped == NoticeEMGone /\ EMReset /\ UNCHANGED simVars

----------------------------------------------------------------------------
(* The simulator's process. *)

\* TruckManager.run connects, and then sets its handler.
SimulatorConnects == ConnectSimulator /\ SimReset /\ UNCHANGED emVars

SimulatorAddsHandler ==
    /\ Live(simConn) /\ ~simHandler
    /\ simHandler' = TRUE
    /\ UNCHANGED <<emVars, serverVars, channels, available, simSensor>>

\* An order that comes before the handler is lost.
SimulatorIgnores ==
    /\ Live(simConn) /\ ~simHandler
    /\ toSim # <<>>
    /\ toSim' = Tail(toSim)
    /\ UNCHANGED <<emVars, serverVars, available, toEM, toServer, fromSim, emConn, simConn, simVars>>

\* TruckManager.handleSendTruck: the truck is assigned, whatever it was doing.
SimulatorTakesOrder ==
    /\ Live(simConn) /\ simHandler
    /\ toSim # <<>>
    /\ simSensor' = [simSensor EXCEPT ![Head(toSim).truck] = Head(toSim).sensor]
    /\ toSim' = Tail(toSim)
    /\ UNCHANGED <<emVars, serverVars, available, toEM, toServer, fromSim, emConn, simConn, simHandler>>

\* SensorHandler: the simulated fire is out; a truck of the sensor is
\* released.  It reports that it is available only if it had arrived: the
\* listener that does is added at the end of the drive.
SimulatorReleases(t) ==
    /\ Live(simConn)
    /\ simSensor[t] # NoSensor
    /\ simSensor' = [simSensor EXCEPT ![t] = NoSensor]
    /\ fromSim' \in {fromSim, fromSim \cup {t}}
    /\ UNCHANGED <<emVars, serverVars, available, toEM, toServer, toSim, emConn, simConn, simHandler>>

SimulatorCrashes ==
    /\ Live(simConn)
    /\ simConn' = "dead"
    /\ toSim' = <<>>
    /\ fromSim' \in SUBSET fromSim
    /\ SimReset
    /\ UNCHANGED <<emVars, serverVars, available, toEM, toServer, emConn>>

SimulatorDropped == CloseSimulator /\ SimReset /\ UNCHANGED emVars

----------------------------------------------------------------------------
(* The server's process. *)

ServerFrees(t) == UpdateAvailable(t) /\ UNCHANGED <<emVars, simVars>>

ServerReads(s, reading) == HandleSensorData(s, reading) /\ UNCHANGED <<emVars, simVars>>

ServerSends == SendTruckOk /\ UNCHANGED <<emVars, simVars>>

ServerSendFails == SendTruckFails /\ EMReset /\ UNCHANGED simVars

ServerCrashes    == ServerCrash /\ EMReset /\ SimReset
ServerShutsDown  == ServerShutdown /\ EMReset /\ SimReset

\* What happens while every process runs and no send fails.
Operation ==
    \/ EMHandles \/ EMConnects \/ EMAddsHandler \/ EMIgnores
    \/ SimulatorConnects \/ SimulatorAddsHandler \/ SimulatorIgnores \/ SimulatorTakesOrder
    \/ \E t \in Trucks : SimulatorReleases(t) \/ ServerFrees(t)
    \/ \E s \in Sensors, i \in Intensities : ServerReads(s, i)
    \/ ServerSends

Failure ==
    \/ EMHandlesInPart \/ EMCrashes \/ EMDropped
    \/ SimulatorCrashes \/ SimulatorDropped
    \/ ServerSendFails \/ ServerCrashes \/ ServerShutsDown

Next == Operation \/ Failure

Spec == Init /\ [][Next]_vars

\* A process that is up sets its handler and reads its socket.
Fairness ==
    /\ WF_vars(EMAddsHandler)
    /\ WF_vars(SimulatorAddsHandler)
    /\ WF_vars(EMHandles)
    /\ WF_vars(ServerSends)
    /\ WF_vars(SimulatorTakesOrder)

FairSpec == Spec /\ Fairness

----------------------------------------------------------------------------
(* Properties. *)

\* Every variable keeps the values the code gives it.
TypeOK ==
    /\ emIntensity \in [Sensors -> Intensities]
    /\ emTrucks \in [Sensors -> SUBSET TruckObjects]
    /\ intensity \in [Sensors -> Intensities]
    /\ interventions \subseteq Sensors \X Trucks
    /\ unheard \subseteq Sensors
    /\ unrecorded \subseteq Sensors \X Trucks
    /\ toEM \in Seq(Updates)
    /\ toServer \in Seq(Orders)
    /\ toSim \in Seq(Orders)
    /\ fromSim \subseteq Trucks
    /\ emConn \in Connections /\ simConn \in Connections
    /\ available \in [Trucks -> BOOLEAN]
    /\ simSensor \in [Trucks -> Sensors \cup {NoSensor}]
    /\ emHandler \in BOOLEAN /\ simHandler \in BOOLEAN

Waiting(s) == \E i \in DOMAIN toEM : toEM[i].sensor = s

IsLastFor(i, s) ==
    /\ toEM[i].sensor = s
    /\ \A j \in DOMAIN toEM : j > i => toEM[j].sensor # s

\* While it is connected, the emergency manager is behind the server by what
\* is waiting in the socket, and by the fires it has not heard of: those lit
\* before it connected, and those whose last fire_update came before its
\* handler.  These are unknown to it until their intensity changes again; no
\* other fire_update is lost, reordered or overwritten.
EmViewIsDelayed ==
    Live(emConn) =>
        \A s \in Sensors :
            /\ \A i \in DOMAIN toEM : IsLastFor(i, s) => toEM[i].intensity = intensity[s]
            /\ ~Waiting(s) =>
                  emIntensity[s] = IF s \in unheard THEN 0 ELSE intensity[s]
            /\ s \in unheard => ~Waiting(s)

\* A fire is given trucks only while they do not cover it: without one of
\* them its trucks would not cover the strongest fire.  Objects made by
\* different GET requests, and trucks passed on by a fire that is out, add up.
NoOverbooking ==
    \A s \in Sensors :
        emTrucks[s] # {} =>
            \E o \in emTrucks[s] : TotalCapacity(emTrucks[s] \ {o}) < MaxIntensity

\* A server that restarts from the database does not offer a truck that is on
\* its way: every truck held back in memory has an open intervention, unless
\* send_truck raised between the flag and the INSERT.
UnavailableHasIntervention ==
    \A t \in Trucks :
        ~available[t] => HasIntervention(interventions \cup unrecorded, t)

\* Whatever the simulator does or is about to do has been recorded.
DispatchIsRecorded ==
    /\ \A t \in Trucks :
          simSensor[t] # NoSensor => <<simSensor[t], t>> \in interventions \cup unrecorded
    /\ \A i \in DOMAIN toSim :
          <<toSim[i].sensor, toSim[i].truck>> \in interventions \cup unrecorded

\* When a sensor's intensity changes for the last time while the emergency
\* manager has its handler, and keeps it, the emergency manager ends up with
\* that intensity for good.
EmCatchesUp ==
    \A s \in Sensors, i \in Intensities :
        <>(intensity[s] # i /\ []emHandler /\ <>[](intensity[s] = i))
            => <>[](emIntensity[s] = i)

----------------------------------------------------------------------------
(* What the documents say and the code does not do. *)

\* Diagramme Activite EM Evolution.wsd, :send available trucks: a truck that
\* is sent to one fire is not there for the next.  The trucks of a fire that
\* is out are offered unchanged to every fire in need.
OneFirePerTruckObject ==
    \A s, x \in Sensors : s # x => emTrucks[s] \cap emTrucks[x] = {}

\* Diagramme Activite EM.wsd, while (trucks available ?) is (no) :Wait for
\* trucks;: a fire in need and an available truck do not stay side by side
\* for ever.  Nothing tells the emergency manager that a truck is available.
WaitingFireGetsTrucks ==
    \A s \in Sensors :
        ~<>[](Live(emConn) /\ RequireHelp(s) /\ \E t \in Trucks : available[t])

=============================================================================
