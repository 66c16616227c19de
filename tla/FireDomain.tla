----------------------------- MODULE FireDomain -----------------------------
(***************************************************************************)
(* What the web server, the emergency manager and the simulator share: the *)
(* sensors and trucks of the database, the messages they exchange and the  *)
(* state of the two web sockets that carry them.                           *)
(*                                                                         *)
(* Positions are abstracted: wherever the code sorts by distance, the      *)
(* model lets any order happen.                                            *)
(***************************************************************************)
EXTENDS Integers, Sequences, FiniteSets

CONSTANTS
    Sensors,        \* rows of table sensor
    Trucks,         \* rows of table truck
    Capacity,       \* column truck.capacity
    MaxIntensity,   \* the largest intensity a sensor reports
    MaxCopies,      \* bound: Java objects alive at once for one truck
    MaxPending,     \* bound: messages waiting in one direction of a socket
    NoSensor        \* a simulated truck that is assigned to nothing

ASSUME FiniteDomain == IsFiniteSet(Sensors) /\ IsFiniteSet(Trucks)
ASSUME CapacityType == Capacity \in [Trucks -> Nat]
ASSUME BoundsType   == MaxIntensity \in Nat /\ MaxCopies \in Nat /\ MaxPending \in Nat
ASSUME NoSensorType == NoSensor \notin Sensors

Intensities == 0 .. MaxIntensity
Orders      == [truck : Trucks, sensor : Sensors]            \* send_truck
Updates     == [sensor : Sensors, intensity : Intensities]   \* fire_update

\* The module variable `websocket` of ws/emergency_manager.py and
\* ws/simulator.py, seen with what the server does not know of it:
\*   none      it is None
\*   open      it is the socket of a running peer
\*   shadowed  as open, but the handler of the previous connection is still
\*             blocked in receive() and will close `websocket` when it wakes
\*   dead      the peer has gone and no handler has noticed yet
Connections == {"none", "open", "shadowed", "dead"}
Live(conn)  == conn \in {"open", "shadowed"}

VARIABLES
    toEM,       \* fire_update messages on their way to the emergency manager
    toServer,   \* send_truck messages from it
    toSim,      \* send_truck messages on their way to the simulator
    fromSim,    \* trucks of which a truck_available message is on its way back
    emConn,     \* state of /ws/emergency_manager
    simConn,    \* state of /ws/simulator
    available   \* the flag GET /api/trucks returns for each truck

channels == <<toEM, toServer, toSim, fromSim, emConn, simConn>>

=============================================================================
