-------------------------------- MODULE I2c --------------------------------
(***************************************************************************)
(* The I2C master (drivers/i2c.c): the calls of the main loop, the         *)
(* interrupt that walks the bus's state machine, and the hardware between  *)
(* two interrupts, with a device that may refuse any byte.                 *)
(*                                                                         *)
(* In a command "W" and "R" are the device's address with its direction    *)
(* bit and "d" is any other byte; `restart` is the place in ctrl_buf of    *)
(* I2C_DO_REPEATED_START, 0 when there is none.                            *)
(***************************************************************************)
EXTENDS Integers, Sequences, SequencesExt

CONSTANTS
    Transactions,   \* records [cmd, restart, count] the drivers of extdrv/ ask for
    MaxCalls        \* bound: calls in a behaviour

\* What the drivers ask for: an address, then bytes to write; bytes to read follow
\* an address with the read bit, alone or behind the only repeated start.
ASSUME TransactionsType ==
    \A t \in Transactions :
        /\ t.cmd \in Seq({"W", "R", "d"}) /\ t.cmd # <<>> /\ t.count \in Nat
        /\ t.restart \in {0, Len(t.cmd) - 1}
        /\ t.cmd[1] = "W" \/ (t.cmd[1] = "R" /\ Len(t.cmd) = 1)
        /\ \A i \in 2 .. Len(t.cmd) : t.cmd[i] = IF i = t.restart + 1 THEN "R" ELSE "d"
        /\ t.cmd[Len(t.cmd)] # "R" => t.count = 0
ASSUME MaxCallsType == MaxCalls \in Nat

VARIABLES
    i2c_state,              \* "ok", "busy", "no_data", "nack", "bus_error", "lost"
    transfer,               \* out_buff and write_length, repeated_start_restart, read_length
    write_index, read_index,
    status,                 \* hardware: the status of the pending interrupt, or "none"
    phase,                  \* hardware: "idle", "address", "transmit", "receive"
    sta, sto, aa,           \* hardware: I2C_START_FLAG, I2C_STOP_FLAG, I2C_ASSERT_ACK
    i2c_data,               \* hardware: the data register
    caller,                 \* "free", or "waits" in a blocking call
    acked,                  \* history: bytes acknowledged in this transfer
    calls                   \* history: calls made

i2c_flags == <<sta, sto, aa>>
i2c_index == <<write_index, read_index>>
i2c_vars  == <<i2c_state, transfer, i2c_index, status, phase, i2c_flags, i2c_data, caller, acked, calls>>

I2cInit ==
    /\ i2c_state = "ok" /\ transfer = <<>>
    /\ write_index = 0 /\ read_index = 0
    /\ status = "none" /\ phase = "idle"
    /\ sta = FALSE /\ sto = FALSE /\ aa = FALSE /\ i2c_data = "d"
    /\ caller = "free" /\ acked = <<>> /\ calls = 0

write_length == Len(transfer.cmd)
read_length  == transfer.count

----------------------------------------------------------------------------
(* The hardware, once the interrupt's flag is cleared. *)

HwStopStart ==
    /\ status = "none" /\ (sto \/ sta) /\ phase # "address"
    /\ IF sto /\ phase # "idle"
       THEN /\ phase' = "idle" /\ sto' = FALSE
            /\ UNCHANGED <<status, sta>>
       ELSE /\ sta /\ phase' = "address" /\ sto' = FALSE
            /\ status' = IF phase = "idle" THEN "START" ELSE "REPEATED"
            /\ UNCHANGED sta
    /\ UNCHANGED <<i2c_state, transfer, i2c_index, aa, i2c_data, caller, acked, calls>>

\* The address or a data byte goes out; the device acknowledges it or not.
HwSend ==
    /\ status = "none" /\ ~sta /\ ~sto /\ phase \in {"address", "transmit"}
    /\ \E ack \in BOOLEAN :
          /\ status' = CASE phase = "transmit" -> IF ack THEN "DATA_ACK" ELSE "DATA_NACK"
                         [] i2c_data = "R"         -> IF ack THEN "SLAR_ACK" ELSE "SLAR_NACK"
                         [] OTHER              -> IF ack THEN "SLAW_ACK" ELSE "SLAW_NACK"
          /\ acked' = IF ack THEN Append(acked, i2c_data) ELSE acked
    /\ phase' = IF phase = "address" /\ i2c_data = "R" THEN "receive" ELSE "transmit"
    /\ UNCHANGED <<i2c_state, transfer, i2c_index, i2c_flags, i2c_data, caller, calls>>

HwReceive ==
    /\ status = "none" /\ ~sta /\ ~sto /\ phase = "receive"
    /\ status' = IF aa THEN "READ_ACK" ELSE "READ_NACK"
    /\ UNCHANGED <<i2c_state, transfer, i2c_index, phase, i2c_flags, i2c_data, caller, acked, calls>>

\* A bus error or a lost arbitration.  Not while a repeated start is asked for:
\* the handler leaves I2C_START_FLAG set then, and the command starts over
\* behind the caller's back.
HwFault ==
    /\ status = "none" /\ phase # "idle" /\ ~sto /\ ~sta
    /\ status' \in {"BUS_ERROR", "LOST"} /\ phase' = "idle"
    /\ UNCHANGED <<i2c_state, transfer, i2c_index, i2c_flags, i2c_data, caller, acked, calls>>

----------------------------------------------------------------------------
(* I2C_0_Handler.  Every case clears the interrupt's flag. *)

Raised(codes) == status \in codes /\ status' = "none"

\* Sends the next byte of the command; past its end the byte is another's.
SendNext(i) ==
    /\ i2c_data' = IF i < write_length THEN transfer.cmd[i + 1] ELSE "beyond"
    /\ write_index' = i + 1

EndWith(result) == sto' = TRUE /\ i2c_state' = result

OnStart ==
    /\ Raised({"START"})
    /\ SendNext(0)
    /\ sta' = FALSE
    /\ UNCHANGED <<i2c_state, transfer, read_index, phase, sto, aa, caller, acked, calls>>

OnRepeatedStart ==
    /\ Raised({"REPEATED"})
    /\ SendNext(write_index) /\ read_index' = 0
    /\ sta' = FALSE
    /\ UNCHANGED <<i2c_state, transfer, phase, sto, aa, caller, acked, calls>>

\* Mutant of Continue: the repeated start is asked for one byte late.
ContinueLate ==
    IF transfer.restart # 0 /\ transfer.restart + 1 = write_index
    THEN sta' = TRUE /\ UNCHANGED <<i2c_data, write_index>>
    ELSE SendNext(write_index) /\ UNCHANGED sta

\* The condition that follows the byte just sent: I2C_CONT or the repeated start.
Continue ==
    IF transfer.restart # 0 /\ transfer.restart = write_index
    THEN sta' = TRUE /\ UNCHANGED <<i2c_data, write_index>>
    ELSE SendNext(write_index) /\ UNCHANGED sta

OnWriteAddress ==
    /\ Raised({"SLAW_ACK"})
    /\ IF write_length = 1
       THEN EndWith("no_data") /\ UNCHANGED <<i2c_data, write_index, sta>>
       ELSE Continue /\ UNCHANGED <<sto, i2c_state>>
    /\ UNCHANGED <<transfer, read_index, phase, aa, caller, acked, calls>>

OnDataSent ==
    /\ Raised({"DATA_ACK"})
    /\ IF write_index < write_length
       THEN Continue /\ UNCHANGED <<sto, i2c_state>>
       ELSE IF read_length # 0
       THEN sta' = TRUE /\ UNCHANGED <<i2c_data, write_index, sto, i2c_state>>
       ELSE EndWith("ok") /\ UNCHANGED <<i2c_data, write_index, sta>>
    /\ UNCHANGED <<transfer, read_index, phase, aa, caller, acked, calls>>

OnNack ==
    /\ Raised({"SLAW_NACK", "DATA_NACK", "SLAR_NACK"})
    /\ EndWith("nack")
    /\ UNCHANGED <<transfer, i2c_index, phase, sta, aa, i2c_data, caller, acked, calls>>

\* Whether the byte after `read` of them is followed by another.
MoreToRead(read) == read + 1 < read_length

OnReadAddress ==
    /\ Raised({"SLAR_ACK"})
    /\ aa' = MoreToRead(read_index)
    /\ UNCHANGED <<i2c_state, transfer, i2c_index, phase, sta, sto, i2c_data, caller, acked, calls>>

OnByteRead ==
    /\ Raised({"READ_ACK"})
    /\ read_index' = read_index + 1
    /\ aa' = MoreToRead(read_index')
    /\ UNCHANGED <<i2c_state, transfer, write_index, phase, sta, sto, i2c_data, caller, acked, calls>>

OnLastByteRead ==
    /\ Raised({"READ_NACK"})
    /\ read_index' = read_index + 1
    /\ EndWith("ok")
    /\ UNCHANGED <<transfer, write_index, phase, sta, aa, i2c_data, caller, acked, calls>>

OnFault ==
    /\ Raised({"BUS_ERROR", "LOST"})
    /\ i2c_state' = IF status = "LOST" THEN "lost" ELSE "bus_error"
    /\ sto' = (sto \/ status = "BUS_ERROR") /\ aa' = (aa \/ status = "BUS_ERROR")
    /\ UNCHANGED <<transfer, i2c_index, phase, sta, i2c_data, caller, acked, calls>>

I2C_0_Handler ==
    \/ OnStart \/ OnRepeatedStart \/ OnWriteAddress \/ OnDataSent \/ OnNack
    \/ OnReadAddress \/ OnByteRead \/ OnLastByteRead \/ OnFault

----------------------------------------------------------------------------
(* The calls. *)

\* i2c_read and i2c_write wait, i2c_write_async does not.
I2cBegin(t, wait) ==
    /\ caller = "free" /\ calls < MaxCalls
    /\ i2c_state # "busy"
    /\ i2c_state' = "busy" /\ transfer' = t /\ read_index' = 0
    /\ sta' = TRUE
    /\ caller' = IF wait THEN "waits" ELSE "free"
    /\ acked' = <<>> /\ calls' = calls + 1
    /\ UNCHANGED <<write_index, status, phase, sto, aa, i2c_data>>

I2cReturn ==
    /\ caller = "waits" /\ i2c_state # "busy"
    /\ caller' = "free"
    /\ UNCHANGED <<i2c_state, transfer, i2c_index, status, phase, i2c_flags, i2c_data, acked, calls>>

I2cHardware == HwStopStart \/ HwSend \/ HwReceive

I2cNext ==
    \/ I2cHardware \/ HwFault
    \/ I2C_0_Handler
    \/ \E t \in Transactions, wait \in BOOLEAN : I2cBegin(t, wait)
    \/ I2cReturn

I2cSpec == I2cInit /\ [][I2cNext]_i2c_vars

I2cFairness == WF_i2c_vars(I2cHardware) /\ WF_i2c_vars(I2C_0_Handler) /\ WF_i2c_vars(I2cReturn)

I2cFairSpec == I2cSpec /\ I2cFairness

----------------------------------------------------------------------------
(* Properties. *)

I2cTypeOK ==
    /\ i2c_state \in {"ok", "busy", "no_data", "nack", "bus_error", "lost"}
    /\ transfer \in Transactions \cup {<<>>}
    /\ write_index \in Nat /\ read_index \in Nat
    /\ status \in {"none", "START", "REPEATED", "SLAW_ACK", "SLAW_NACK", "DATA_ACK", "DATA_NACK",
                   "SLAR_ACK", "SLAR_NACK", "READ_ACK", "READ_NACK", "BUS_ERROR", "LOST"}
    /\ phase \in {"idle", "address", "transmit", "receive"}
    /\ {sta, sto, aa} \subseteq BOOLEAN
    /\ i2c_data \in {"W", "R", "d", "beyond"} /\ caller \in {"free", "waits"}
    /\ acked \in Seq({"W", "R", "d", "beyond"}) /\ calls \in 0 .. MaxCalls

\* The interrupt reads out_buff within the command and writes in_buff within the
\* bytes asked for, or one byte for a read probe, whatever the device refuses.
InBuffers ==
    transfer # <<>> =>
        /\ i2c_data # "beyond"
        /\ read_index <= (IF read_length = 0 THEN 1 ELSE read_length)

\* The transfer a caller sees: nothing of it until it has ended.
Ended == i2c_state \notin {"busy"} /\ calls > 0
Bus == INSTANCE I2cBus WITH
    bus_call   <- transfer,
    bus_result <- IF calls = 0 THEN "none"
                  ELSE IF ~Ended THEN "busy"
                  ELSE IF i2c_state \in {"ok", "no_data"} THEN "ok" ELSE "error",
    bus_acked  <- IF Ended THEN acked ELSE <<>>,
    bus_read   <- IF Ended THEN read_index ELSE 0

\* A call that reports success has sent its whole command, every byte of it
\* acknowledged, and read every byte asked for; one that fails has done a part.
ImplementsBus == Bus!BusSpec

\* A transfer, which must end and let its caller go.
I2cWaits == i2c_state = "busy" \/ caller = "waits"

============================================================================
