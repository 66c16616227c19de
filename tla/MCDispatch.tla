----------------------------- MODULE MCDispatch -----------------------------
(* Instances of Dispatch for TLC. *)
EXTENDS Dispatch

CONSTANTS s1, s2, s3, t1, t2

\* A light and a heavy truck, as in the database (capacities 1 to 5).
OneTruck      == (t1 :> 1)
LightAndHeavy == (t1 :> 1) @@ (t2 :> 2)

Symmetry == Permutations(Sensors)

\* A server without a simulator: orders are recorded and lost.
NoSimulatorSpec ==
    /\ Init
    /\ [][\/ EMHandles \/ EMHandlesInPart \/ EMConnects \/ EMAddsHandler \/ EMIgnores
          \/ EMCrashes \/ EMDropped
          \/ \E s \in Sensors, i \in Intensities : ServerReads(s, i)
          \/ ServerSends \/ ServerSendFails \/ ServerCrashes \/ ServerShutsDown]_vars
    /\ Fairness

\* Every process stays up: larger instances of what the dispatching does.
ReliableSpec == Init /\ [][Operation]_vars

\* As above, with a simulator that answers at once: what the emergency
\* manager can observe is the same, and there are fewer states.
SwiftSimulatorSpec ==
    Init /\ [][IF Live(simConn) /\ ~simHandler THEN SimulatorAddsHandler
               ELSE IF toSim # <<>> THEN SimulatorTakesOrder
               ELSE IF fromSim # {} THEN \E t \in fromSim : ServerFrees(t)
               ELSE Operation]_vars

\* As ReliableSpec, and the simulator releases a truck only when the server has been
\* told that its fire is out.
TimelyRelease == \A t \in Trucks :
    simSensor[t] # NoSensor /\ simSensor'[t] = NoSensor => intensity[simSensor[t]] = 0

FairReliableSpec ==
    /\ Init /\ [][Operation /\ TimelyRelease]_vars
    /\ Fairness
    /\ \A t \in Trucks :
          /\ WF_vars(SimulatorReleases(t) /\ TimelyRelease)
          /\ WF_vars(ServerFrees(t) /\ fromSim' # fromSim)

=============================================================================
