------------------------------ MODULE WebServer ------------------------------
(***************************************************************************)
(* The web server (src/server): sensors and trucks in memory, interventions*)
(* in the database, one web socket to the emergency manager and one to the *)
(* simulator.  gevent runs the handlers of the sockets as greenlets that   *)
(* switch only when they wait for a message, so a handler is one step.     *)
(*                                                                         *)
(* A handler that sends on a socket whose peer has gone may see an error,  *)
(* or see none and lose the message: both are possible.                    *)
(***************************************************************************)
EXTENDS FireDomain

VARIABLES
    intensity,      \* _sensors[..]['intensity'] of model/sensors.py
    interventions,  \* open rows of the table: <<sensor, truck>>, ending NULL
    unheard,        \* history: sensors whose intensity the connected
                    \*   emergency manager was never sent, or ignored
    unrecorded      \* history: <<sensor, truck>> whose last send_truck raised

serverVars == <<intensity, interventions, unheard, unrecorded>>

HasIntervention(rows, t) == \E s \in Sensors : <<s, t>> \in rows

\* Mutant: JOIN for LEFT JOIN, trucks without an intervention are not loaded.
AvailableIfJoined(rows) == [t \in {u \in Trucks : HasIntervention(rows, u)} |-> FALSE]

\* The LEFT JOIN of model/trucks.py: available iff no open intervention.
AvailableFromDatabase(rows) == [t \in Trucks |-> ~HasIntervention(rows, t)]

ServerInit ==
    /\ intensity = [s \in Sensors |-> 0]
    /\ interventions = {}
    /\ available = AvailableFromDatabase({})
    /\ unheard = {}
    /\ unrecorded = {}

(***************************************************************************)
(* handle_sensor_data, with emergency_manager.send_fire_update.  When the  *)
(* reading is 0 the last line raises NameError (gateway.py does not import *)
(* intervention) and handle_data swallows it: interventions is unchanged.  *)
(***************************************************************************)
HandleSensorData(s, reading) ==
    /\ reading # intensity[s]
    /\ Len(toEM) < MaxPending
    /\ intensity' = [intensity EXCEPT ![s] = reading]
    /\ IF Live(emConn)
       THEN /\ toEM' = Append(toEM, [sensor |-> s, intensity |-> reading])
            /\ unheard' = unheard \ {s}
       ELSE UNCHANGED <<toEM, unheard>>        \* None, or lost
    /\ UNCHANGED <<interventions, unrecorded, available,
                   toServer, toSim, fromSim, emConn, simConn>>

\* update_available, on truck_available from the simulator, which may have
\* sent the same message several times.
UpdateAvailable(t) ==
    /\ simConn # "none"
    /\ t \in fromSim
    /\ available' = [available EXCEPT ![t] = TRUE]
    /\ fromSim' \in {fromSim, fromSim \ {t}}
    /\ UNCHANGED <<serverVars, toEM, toServer, toSim, emConn, simConn>>

\* Mutants of StartIntervention: the row is inserted only once the order is
\* on its way to the simulator; a truck has one open row, the latest.
StartIfSent(order) ==
    interventions' = IF Live(simConn)
                     THEN interventions \cup {<<order.sensor, order.truck>>}
                     ELSE interventions
StartReplaces(order) ==
    interventions' = {row \in interventions : row[2] # order.truck}
                         \cup {<<order.sensor, order.truck>>}

\* intervention.start: the INSERT.
StartIntervention(order) ==
    interventions' = interventions \cup {<<order.sensor, order.truck>>}

(***************************************************************************)
(* send_truck, for the next message of the emergency manager: the flag,    *)
(* then ws.send_truck, then intervention.start.  When one of the last two  *)
(* raises, handle_emergency_manager closes its own socket.                 *)
(***************************************************************************)
TakeOrder == emConn # "none" /\ toServer # <<>> /\ Len(toSim) < MaxPending

SendTruckOk ==
    LET order == Head(toServer) IN
    /\ TakeOrder
    /\ available' = [available EXCEPT ![order.truck] = FALSE]
    /\ toSim' = IF Live(simConn) THEN Append(toSim, order) ELSE toSim
    /\ StartIntervention(order)
    /\ unrecorded' = unrecorded \ {<<order.sensor, order.truck>>}
    /\ toServer' = Tail(toServer)
    /\ UNCHANGED <<intensity, unheard, toEM, fromSim, emConn, simConn>>

\* The part of a handler's `except` that the server sees: the socket is
\* closed and forgotten, whatever was in flight with it.
CloseEM ==
    /\ emConn' = "none"
    /\ toEM' = <<>>
    /\ toServer' = <<>>

SendTruckFails ==
    LET order == Head(toServer) IN
    /\ TakeOrder
    /\ available' = [available EXCEPT ![order.truck] = FALSE]
    /\ \/ simConn = "dead" /\ toSim' = toSim                 \* send() raises
       \/ toSim' = IF Live(simConn) THEN Append(toSim, order) ELSE toSim
                                                             \* the INSERT raises
    /\ unrecorded' = unrecorded \cup {<<order.sensor, order.truck>>}
    /\ CloseEM
    /\ UNCHANGED <<intensity, interventions, unheard, fromSim, simConn>>

(***************************************************************************)
(* Connections.  `websocket` is replaced by each new connection; an old    *)
(* handler that wakes up later closes whatever `websocket` then is.        *)
(***************************************************************************)
ConnectEM ==
    /\ emConn \in {"none", "dead"}
    /\ toServer = <<>>
    /\ emConn' = IF emConn = "none" THEN "open" ELSE "shadowed"
    /\ unheard' = {s \in Sensors : intensity[s] # 0}
    /\ UNCHANGED <<intensity, interventions, unrecorded, available,
                   toEM, toServer, toSim, fromSim, simConn>>

\* receive() on the socket of the peer that has gone returns None, and
\* json.loads(None) raises.
NoticeEMGone ==
    /\ emConn \in {"dead", "shadowed"}
    /\ emConn = "dead" => toServer = <<>>
    /\ CloseEM
    /\ UNCHANGED <<serverVars, available, toSim, fromSim, simConn>>

ConnectSimulator ==
    /\ simConn \in {"none", "dead"}
    /\ simConn' = IF simConn = "none" THEN "open" ELSE "shadowed"
    /\ UNCHANGED <<serverVars, available, toEM, toServer, toSim, fromSim, emConn>>

\* As NoticeEMGone; also what an error inside the simulator's handler does
\* (client.update_geolocation to a browser that has gone), at any time.
CloseSimulator ==
    /\ simConn # "none"
    /\ simConn' = "none"
    /\ toSim' = <<>>
    /\ fromSim' = {}
    /\ UNCHANGED <<serverVars, available, toEM, toServer, emConn>>

\* The worker process ends and starts again with what the database holds;
\* every socket is closed.
Restart(rows) ==
    /\ intensity' = [s \in Sensors |-> 0]
    /\ interventions' = rows
    /\ available' = AvailableFromDatabase(rows)
    /\ unheard' = {}
    /\ unrecorded' = {}
    /\ CloseEM
    /\ simConn' = "none"
    /\ toSim' = <<>>
    /\ fromSim' = {}

ServerCrash    == Restart(interventions)
ServerShutdown == Restart({})           \* run.sh: SIGUSR1, end_all(), then kill

=============================================================================
