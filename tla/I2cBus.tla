------------------------------- MODULE I2cBus -------------------------------
(***************************************************************************)
(* What drivers/i2c.c promises its callers: one transaction at a time,     *)
(* which ends either complete, every byte acknowledged and every byte      *)
(* asked for read, or with an error and a part of it done.                 *)
(***************************************************************************)
EXTENDS Integers, Sequences, SequencesExt

CONSTANTS Transactions      \* records: cmd, the bytes sent; count, the bytes read

VARIABLES
    bus_call,       \* the transaction in progress, or the last one
    bus_result,     \* "none", "busy", "ok" or "error"
    bus_acked,      \* of the ended transaction: the bytes sent and acknowledged
    bus_read        \* and the number of bytes read

bus_vars == <<bus_call, bus_result, bus_acked, bus_read>>

BusInit == bus_call = <<>> /\ bus_result = "none" /\ bus_acked = <<>> /\ bus_read = 0

BusBegin ==
    /\ bus_result # "busy"
    /\ bus_call' \in Transactions
    /\ bus_result' = "busy" /\ bus_acked' = <<>> /\ bus_read' = 0

\* A read probe (no byte asked for) still takes one byte from the device.
BytesRead(t) == IF Last(t.cmd) # "R" THEN 0 ELSE IF t.count = 0 THEN 1 ELSE t.count

BusEnd ==
    /\ bus_result = "busy"
    /\ \/ /\ bus_result' = "ok"
          /\ bus_acked' = bus_call.cmd
          /\ bus_read' = BytesRead(bus_call)
       \/ /\ bus_result' = "error"
          /\ \E n \in 0 .. Len(bus_call.cmd) : bus_acked' = SubSeq(bus_call.cmd, 1, n)
          /\ bus_read' \in 0 .. BytesRead(bus_call)
    /\ UNCHANGED bus_call

BusSpec == BusInit /\ [][BusBegin \/ BusEnd]_bus_vars

============================================================================
