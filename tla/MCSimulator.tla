---------------------------- MODULE MCSimulator ----------------------------
(* Instances of Simulator for TLC. *)
EXTENDS Simulator

CONSTANTS s1, s2, t1, t2

\* Bound: drives started in all, for one truck or for two.
TwoOrders == [t \in Trucks |-> 2]
Ordered   == Len(drive[t1]) + Len(drive[t2])

OrdersSpec ==
    /\ Init
    /\ [][Next /\ (ws.pc = "idle" /\ ws'.pc # "idle" => Ordered < 2)]_vars
    /\ Fairness

=============================================================================
