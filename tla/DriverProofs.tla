---------------------------- MODULE DriverProofs ----------------------------
(***************************************************************************)
(* That drivers/i2c.c keeps what module I2cBus says its callers may rely   *)
(* on, for any transactions of the drivers of extdrv/, and never leaves    *)
(* the buffers it is given; that the lists of lib/list.h are the sequences *)
(* of module ListSequences, for any heads and entries; and what the        *)
(* smaller drivers promise: pins, timers, alarm, sensors, converter and    *)
(* clocks.                                                                 *)
(***************************************************************************)
EXTENDS Clocks, Gpio, LpcRtc, CounterTimers, Tmp101, Adc, I2cSensors,
        I2c, LinkedList, Remainders, SequenceTheorems, FiniteSetTheorems, TLAPS

Bytes == {"W", "R", "d"}

----------------------------------------------------------------------------
(* The invariant: where a transfer stands at each status of the hardware,  *)
(* and what has been acknowledged and read by then.                        *)

\* The first k bytes of the command have been acknowledged.
Acked(k) ==
    /\ k \in 0 .. write_length /\ acked \in Seq(Bytes) /\ Len(acked) = k
    /\ \A i \in 1 .. k : acked[i] = transfer.cmd[i]

Reads == transfer.cmd[write_length] = "R"
ToRead == Bus!BytesRead(transfer)
NoFlags == ~sta /\ ~sto

\* No transfer: at most the stop condition of the last one is on its way.
Quiet ==
    /\ status = "none" /\ ~sta /\ phase # "address" /\ (phase = "idle" \/ sto)
    /\ read_index <= (IF read_length = 0 THEN 1 ELSE read_length)

\* Asked for, behind the stop condition of the one before.
Starting ==
    /\ status = "none" /\ sta /\ phase # "address" /\ (phase = "idle" \/ sto)
    /\ Acked(0) /\ read_index = 0
Started == status = "START" /\ sta /\ ~sto /\ phase = "address" /\ Acked(0) /\ read_index = 0

\* The repeated start: as many bytes are acknowledged as were written.
Again ==
    /\ sta /\ ~sto /\ read_index = 0
    /\ transfer.restart # 0 /\ write_index = transfer.restart /\ Acked(write_index)
Restarting == status = "none" /\ phase = "transmit" /\ Again
Restarted == status = "REPEATED" /\ phase = "address" /\ Again

\* The byte before write_index is in the data register, then sent.
Written == write_index \in 1 .. write_length /\ i2c_data = transfer.cmd[write_index] /\ read_index = 0
Sending ==
    /\ status = "none" /\ NoFlags /\ Written /\ Acked(write_index - 1)
    /\ phase = IF i2c_data = "d" THEN "transmit" ELSE "address"
Sent ==
    /\ NoFlags /\ Written /\ Acked(write_index)
    /\ \/ status = "SLAW_ACK" /\ phase = "transmit" /\ i2c_data = "W"
       \/ status = "DATA_ACK" /\ phase = "transmit" /\ i2c_data = "d"
       \/ status = "SLAR_ACK" /\ phase = "receive" /\ i2c_data = "R"
Refused ==
    /\ status \in {"SLAW_NACK", "DATA_NACK", "SLAR_NACK"} /\ phase \in {"transmit", "receive"}
    /\ NoFlags /\ Written /\ Acked(write_index - 1)

\* Bytes come in, the whole command being acknowledged.
Reading ==
    /\ NoFlags /\ phase = "receive" /\ Reads /\ Acked(write_length)
    /\ read_index \in Nat /\ read_index < ToRead
    /\ aa <=> read_index + 1 < read_length
    /\ \/ status = "none"
       \/ status = "READ_ACK" /\ aa
       \/ status = "READ_NACK" /\ ~aa

Faulty ==
    /\ status \in {"BUS_ERROR", "LOST"} /\ phase = "idle" /\ NoFlags
    /\ (\E k \in 0 .. write_length : Acked(k)) /\ read_index \in 0 .. ToRead

Transferring ==
    \/ Starting \/ Started \/ Restarting \/ Restarted
    \/ Sending \/ Sent \/ Refused \/ Reading \/ Faulty

\* The last address but a byte beyond the command was never in the data register.
I2cInv ==
    /\ i2c_state \in {"ok", "busy", "no_data", "nack", "bus_error", "lost"}
    /\ {sta, sto, aa} \subseteq BOOLEAN
    /\ read_index \in Nat /\ write_index \in Nat /\ calls \in Nat
    /\ i2c_data \in Bytes
    /\ IF calls = 0
       THEN /\ transfer = <<>> /\ status = "none" /\ phase = "idle" /\ NoFlags
            /\ acked = <<>> /\ read_index = 0 /\ i2c_state = "ok"
       ELSE /\ transfer \in Transactions
            /\ IF i2c_state = "busy" THEN Transferring ELSE Quiet

----------------------------------------------------------------------------
(* The shape of a transaction, and the steps of the bus.                   *)

\* A transaction: bytes to write behind an address, then perhaps the only address to read.
LEMMA Shape ==
  ASSUME NEW t \in Transactions
  PROVE  /\ t.cmd \in Seq(Bytes) /\ Len(t.cmd) \in Nat \ {0} /\ t.count \in Nat
         /\ \A i \in 1 .. Len(t.cmd) : t.cmd[i] \in Bytes
         /\ t.cmd[1] # "d"
         /\ \A i \in 2 .. Len(t.cmd) : t.cmd[i] # "W" /\ (t.cmd[i] = "R" <=> i = t.restart + 1)
         /\ \A i \in 1 .. Len(t.cmd) : t.cmd[i] = "R" => i = Len(t.cmd)
         /\ t.restart \in 0 .. Len(t.cmd) - 1
         /\ t.restart # 0 => t.restart = Len(t.cmd) - 1
         /\ t.cmd[Len(t.cmd)] # "R" => t.count = 0
<1>1. t.cmd \in Seq(Bytes) /\ t.cmd # <<>> /\ t.count \in Nat
  BY TransactionsType DEF Bytes
<1>2. Len(t.cmd) \in Nat \ {0} /\ \A i \in 1 .. Len(t.cmd) : t.cmd[i] \in Bytes
  BY <1>1, LenProperties, EmptySeq, ElementOfSeq
<1> QED
  BY <1>1, <1>2, TransactionsType

\* How many bytes a transaction reads: one at least, once it is addressed to read.
LEMMA Read ==
  ASSUME NEW t \in Transactions
  PROVE  Bus!BytesRead(t) = IF t.cmd[Len(t.cmd)] # "R" THEN 0
                            ELSE IF t.count = 0 THEN 1 ELSE t.count
BY DEF Bus!BytesRead, Bus!Last

\* A step within a transfer is not seen.
LEMMA Hidden ==
  ASSUME i2c_state = "busy", calls # 0, UNCHANGED <<i2c_state, transfer, calls>>
  PROVE  UNCHANGED Bus!bus_vars
BY DEF Bus!bus_vars, Ended

\* The end of one is: complete,
LEMMA EndsComplete ==
  ASSUME i2c_state = "busy", calls \in Nat \ {0}, transfer \in Transactions,
         UNCHANGED <<transfer, calls, acked>>, i2c_state' \in {"ok", "no_data"},
         Acked(write_length), read_index' = ToRead
  PROVE  Bus!BusEnd
<1>1. acked = transfer.cmd
  BY Shape, SeqEqual DEF Acked, write_length
<1> QED
  BY <1>1 DEF Bus!BusEnd, Ended, ToRead

\* or in part.
LEMMA EndsInPart ==
  ASSUME i2c_state = "busy", calls \in Nat \ {0}, transfer \in Transactions,
         UNCHANGED <<transfer, calls, acked>>, i2c_state' \in {"nack", "bus_error", "lost"},
         NEW k \in 0 .. write_length, Acked(k), read_index' \in 0 .. ToRead
  PROVE  Bus!BusEnd
<1>1. transfer.cmd \in Seq(Bytes) /\ k \in Int /\ \A i \in 1 .. k : transfer.cmd[i] \in Bytes
  BY Shape DEF write_length
<1>2. /\ SubSeq(transfer.cmd, 1, k) \in Seq(Bytes) /\ Len(SubSeq(transfer.cmd, 1, k)) = k
      /\ \A i \in 1 .. k : SubSeq(transfer.cmd, 1, k)[i] = transfer.cmd[i]
  BY <1>1, SubSeqProperties
<1>3. acked = SubSeq(transfer.cmd, 1, k)
  BY <1>2, SeqEqual DEF Acked
<1> QED
  BY <1>3 DEF Bus!BusEnd, Ended, ToRead, write_length

----------------------------------------------------------------------------
(* One lemma for each group of steps: the invariant, and the bus's step.   *)

BusStep == Bus!BusBegin \/ Bus!BusEnd \/ UNCHANGED Bus!bus_vars
Types ==
    /\ {sta, sto, aa} \subseteq BOOLEAN /\ i2c_data \in Bytes
    /\ read_index \in Nat /\ write_index \in Nat

\* An interrupt, or a start that is asked for, belongs to a transfer.
LEMMA Busy ==
  ASSUME I2cInv, status # "none" \/ sta
  PROVE  /\ calls \in Nat \ {0} /\ i2c_state = "busy" /\ transfer \in Transactions
         /\ Types /\ Transferring
BY DEF I2cInv, Quiet, NoFlags, Types

\* A step that leaves what the caller sees, and goes on with the transfer, is a stutter.
LEMMA StaysOn ==
  ASSUME I2cInv, i2c_state = "busy", calls # 0, UNCHANGED <<i2c_state, transfer, calls>>,
         Types', Transferring'
  PROVE  I2cInv' /\ BusStep
<1>1. UNCHANGED Bus!bus_vars
  BY Hidden
<1> QED
  BY <1>1 DEF I2cInv, BusStep, Types

\* A transfer ends: with all it was asked for, or refused or cut at any place.
LEMMA Finishes ==
  ASSUME I2cInv, i2c_state = "busy", calls # 0, UNCHANGED <<transfer, calls, acked>>, Types', Quiet',
         \/ /\ i2c_state' \in {"ok", "no_data"}
            /\ Acked(write_length) /\ read_index' = ToRead
         \/ /\ i2c_state' \in {"nack", "bus_error", "lost"}
            /\ \E k \in 0 .. write_length : Acked(k)
            /\ read_index' \in 0 .. ToRead
  PROVE  I2cInv' /\ BusStep
<1>1. calls \in Nat \ {0} /\ transfer \in Transactions
  BY DEF I2cInv
<1>2. Bus!BusEnd
  BY <1>1, EndsComplete, EndsInPart
<1> QED
  BY <1>1, <1>2 DEF I2cInv, BusStep, Types

\* What a caller sees of a transfer that has ended stays.
LEMMA Rests ==
  ASSUME UNCHANGED <<i2c_state, transfer, calls, acked, read_index>>
  PROVE  UNCHANGED Bus!bus_vars
BY DEF Bus!bus_vars, Ended

\* The hardware sends a stop condition, a start or both.
LEMMA StopStart ==
  ASSUME I2cInv, HwStopStart
  PROVE  I2cInv' /\ BusStep
<1>1. CASE sta
  <2>1. calls # 0 /\ i2c_state = "busy" /\ Types /\ (Starting \/ Restarting)
    BY <1>1, Busy
       DEF HwStopStart, Transferring, Started, Restarted, Sending, Sent, Refused, Reading, Faulty, NoFlags
  <2>2. UNCHANGED <<i2c_state, transfer, calls, acked, read_index, write_index, sta, aa, i2c_data>>
    BY <1>1 DEF HwStopStart, i2c_index
  <2>3. sto' = FALSE /\ Types'
    BY <2>1, <2>2 DEF HwStopStart, Types
  <2>4. CASE Starting
    <3>1. Acked(0)'
      BY <2>2, <2>4 DEF Starting, Acked, write_length
    <3>2. CASE phase' = "idle"
      <4>1. status' = "none"
        BY <1>1, <2>4, <3>2 DEF HwStopStart, Starting
      <4>2. Starting'
        BY <1>1, <2>2, <2>4, <3>1, <3>2, <4>1 DEF Starting
      <4> QED
        BY <2>1, <2>2, <2>3, <4>2, StaysOn DEF Transferring
    <3>3. CASE phase' # "idle"
      <4>1. status' = "START" /\ phase' = "address"
        BY <1>1, <2>4, <3>3 DEF HwStopStart, Starting
      <4>2. Started'
        BY <1>1, <2>2, <2>3, <2>4, <3>1, <4>1 DEF Started, Starting
      <4> QED
        BY <2>1, <2>2, <2>3, <4>2, StaysOn DEF Transferring
    <3> QED
      BY <3>2, <3>3
  <2>5. CASE Restarting
    <3>1. Again'
      BY <2>2, <2>3, <2>5 DEF Restarting, Again, Acked, write_length
    <3>2. status' = "REPEATED" /\ phase' = "address"
      BY <1>1, <2>5 DEF HwStopStart, Restarting, Again
    <3> QED
      BY <2>1, <2>2, <2>3, <3>1, <3>2, StaysOn DEF Transferring, Restarted
  <2> QED
    BY <2>1, <2>4, <2>5
<1>2. CASE ~sta
  <2>1. /\ sto /\ phase # "idle" /\ status = "none" /\ phase' = "idle" /\ sto' = FALSE
        /\ UNCHANGED <<i2c_state, transfer, read_index, write_index, calls, acked, sta, aa, status, i2c_data>>
    BY <1>2 DEF HwStopStart, i2c_index
  <2>2. calls # 0 /\ i2c_state # "busy"
    BY <1>2, <2>1 DEF I2cInv, NoFlags, Transferring, Starting, Started, Restarting, Restarted,
         Again, Sending, Sent, Refused, Reading, Faulty
  <2>3. I2cInv'
    BY <2>1, <2>2 DEF I2cInv, Quiet, read_length
  <2> QED
    BY <2>1, <2>3, Rests DEF BusStep
<1> QED
  BY <1>1, <1>2

\* Without flags, a bus that is not idle sends or receives a byte of a transfer.
LEMMA Active ==
  ASSUME I2cInv, status = "none", ~sta, ~sto, phase # "idle"
  PROVE  /\ calls \in Nat \ {0} /\ i2c_state = "busy" /\ transfer \in Transactions
         /\ Types /\ (Sending \/ Reading)
BY DEF I2cInv, Quiet, Transferring, Starting, Started, Restarting, Restarted, Again, Sent, Refused,
       Faulty, Types

\* One more byte of the command is acknowledged.
LEMMA OneMore ==
  ASSUME transfer \in Transactions, Types, Written, Acked(write_index - 1),
         acked' = Append(acked, i2c_data), UNCHANGED <<transfer, write_index>>
  PROVE  Acked(write_index)'
<1>1. /\ acked' \in Seq(Bytes) /\ Len(acked') = Len(acked) + 1
      /\ \A i \in 1 .. Len(acked) : acked'[i] = acked[i]
      /\ acked'[Len(acked) + 1] = i2c_data
  BY AppendProperties DEF Acked, Types
<1>2. Len(acked) = write_index - 1 /\ write_index \in 1 .. write_length /\ write_length' = write_length
  BY DEF Acked, Written, write_length
<1>3. write_length \in Nat /\ i2c_data = transfer.cmd[write_index]
  BY Shape DEF Written, write_length
<1>4. ASSUME NEW i \in 1 .. write_index PROVE acked'[i] = transfer.cmd[i]
  BY <1>1, <1>2, <1>3, <1>4 DEF Acked
<1> QED
  BY <1>1, <1>2, <1>3, <1>4 DEF Acked

\* The hardware sends the byte in the data register.
LEMMA Send ==
  ASSUME I2cInv, HwSend
  PROVE  I2cInv' /\ BusStep
<1>1. /\ calls \in Nat \ {0} /\ i2c_state = "busy" /\ transfer \in Transactions /\ Types /\ Sending
  BY Active DEF HwSend, Reading
<1>2. UNCHANGED <<i2c_state, transfer, calls, read_index, write_index, sta, sto, aa, i2c_data>> /\ Types'
  BY <1>1 DEF HwSend, i2c_index, i2c_flags, Types
<1>3. Written' /\ NoFlags' /\ phase' \in {"transmit", "receive"}
  BY <1>1, <1>2 DEF HwSend, Written, write_length, Sending, NoFlags
<1>4. CASE acked' = acked /\ status' \in {"DATA_NACK", "SLAR_NACK", "SLAW_NACK"}
  <2>1. Acked(write_index - 1)'
    BY <1>1, <1>2, <1>4 DEF Sending, Acked, write_length
  <2> QED
    BY <1>1, <1>2, <1>3, <1>4, <2>1, StaysOn DEF Transferring, Refused
<1>5. CASE /\ acked' = Append(acked, i2c_data)
           /\ status' = CASE phase = "transmit" -> "DATA_ACK"
                          [] i2c_data = "R"     -> "SLAR_ACK"
                          [] OTHER              -> "SLAW_ACK"
  <2>1. Acked(write_index)'
    BY <1>1, <1>2, <1>5, OneMore DEF Sending
  <2>2. \/ status' = "SLAW_ACK" /\ phase' = "transmit" /\ i2c_data' = "W"
        \/ status' = "DATA_ACK" /\ phase' = "transmit" /\ i2c_data' = "d"
        \/ status' = "SLAR_ACK" /\ phase' = "receive" /\ i2c_data' = "R"
    BY <1>1, <1>2, <1>5 DEF HwSend, Sending, Types, Bytes
  <2> QED
    BY <1>1, <1>2, <1>3, <2>1, <2>2, StaysOn DEF Transferring, Sent
<1>6. PICK ack \in BOOLEAN :
        /\ status' = CASE phase = "transmit" -> IF ack THEN "DATA_ACK" ELSE "DATA_NACK"
                       [] i2c_data = "R"     -> IF ack THEN "SLAR_ACK" ELSE "SLAR_NACK"
                       [] OTHER              -> IF ack THEN "SLAW_ACK" ELSE "SLAW_NACK"
        /\ acked' = IF ack THEN Append(acked, i2c_data) ELSE acked
  BY DEF HwSend
<1>7. CASE ack
  BY <1>5, <1>6, <1>7
<1>8. CASE ~ack
  BY <1>4, <1>6, <1>8
<1> QED
  BY <1>7, <1>8

\* The hardware receives a byte, and acknowledges it if the flag says so.
LEMMA Receive ==
  ASSUME I2cInv, HwReceive
  PROVE  I2cInv' /\ BusStep
<1>1. calls # 0 /\ i2c_state = "busy" /\ Types /\ Reading
  BY Active DEF HwReceive, Sending
<1>2. /\ UNCHANGED <<i2c_state, transfer, calls, acked, phase>>
      /\ UNCHANGED <<read_index, write_index, sta, sto, aa, i2c_data>>
      /\ status' = IF aa THEN "READ_ACK" ELSE "READ_NACK"
  BY DEF HwReceive, i2c_index, i2c_flags
<1>3. Types' /\ Acked(write_length)' /\ Reads' /\ ToRead' = ToRead
  BY <1>1, <1>2 DEF Types, Reading, Acked, write_length, Reads, ToRead, Bus!BytesRead
<1>4. Reading'
  BY <1>1, <1>2, <1>3 DEF Reading, NoFlags, read_length
<1> QED
  BY <1>1, <1>2, <1>3, <1>4, StaysOn DEF Transferring

\* The bus is lost, or in error, during a byte.
LEMMA Fault ==
  ASSUME I2cInv, HwFault
  PROVE  I2cInv' /\ BusStep
<1>1. /\ calls # 0 /\ i2c_state = "busy" /\ Types /\ (Sending \/ Reading)
      /\ transfer \in Transactions
  BY Active DEF HwFault
<1>2. /\ UNCHANGED <<i2c_state, transfer, calls, acked>>
      /\ UNCHANGED <<read_index, write_index, sta, sto, aa, i2c_data>>
      /\ status' \in {"BUS_ERROR", "LOST"} /\ phase' = "idle" /\ NoFlags'
  BY DEF HwFault, i2c_index, i2c_flags, NoFlags
<1>3. write_length \in Nat /\ ToRead \in Nat
  BY <1>1, Shape, Read DEF write_length, ToRead
<1>4. (\E k \in 0 .. write_length : Acked(k)) /\ read_index \in 0 .. ToRead
  <2>1. CASE Sending
    BY <1>1, <1>3, <2>1 DEF Sending, Written
  <2>2. CASE Reading
    BY <1>1, <1>3, <2>2 DEF Reading
  <2> QED
    BY <1>1, <2>1, <2>2
<1>5. (\E k \in 0 .. write_length : Acked(k))' /\ (read_index \in 0 .. ToRead)'
  BY <1>2, <1>4 DEF Acked, write_length, ToRead, Bus!BytesRead
<1> QED
  BY <1>1, <1>2, <1>5, StaysOn DEF Transferring, Faulty, Types

----------------------------------------------------------------------------
(* The interrupt. *)

\* After a start, the first byte of the command goes to the data register.
LEMMA Start ==
  ASSUME I2cInv, OnStart
  PROVE  I2cInv' /\ BusStep
<1>1. /\ calls # 0 /\ i2c_state = "busy" /\ transfer \in Transactions /\ Types /\ Started
  BY Busy DEF OnStart, Raised, Transferring, Starting, Restarting, Restarted, Sending, Sent,
              Refused, Reading, Faulty
<1>2. write_length \in Nat \ {0} /\ transfer.cmd[1] \in Bytes /\ transfer.cmd[1] # "d"
  BY <1>1, Shape DEF write_length
<1>3. /\ UNCHANGED <<i2c_state, transfer, calls, acked, phase, read_index, sto, aa>>
      /\ i2c_data' = transfer.cmd[1] /\ write_index' = 1 /\ sta' = FALSE /\ status' = "none"
  BY <1>2 DEF OnStart, Raised, SendNext
<1>4. Types' /\ Written' /\ NoFlags' /\ Acked(write_index - 1)'
  <2>1. write_length' = write_length /\ write_index' - 1 = 0
    BY <1>3 DEF write_length
  <2>2. Acked(write_index - 1)'
    BY <1>1, <1>3, <2>1 DEF Started, Acked
  <2>3. Types' /\ NoFlags'
    BY <1>1, <1>2, <1>3 DEF Types, NoFlags, Started
  <2>4. Written'
    BY <1>1, <1>2, <1>3, <2>1 DEF Written, Started
  <2> QED
    BY <2>2, <2>3, <2>4
<1>5. Sending'
  BY <1>1, <1>2, <1>3, <1>4 DEF Sending, Started
<1> QED
  BY <1>1, <1>3, <1>4, <1>5, StaysOn DEF Transferring

\* After a repeated start, the address to read does.
LEMMA RepeatedStart ==
  ASSUME I2cInv, OnRepeatedStart
  PROVE  I2cInv' /\ BusStep
<1>1. /\ calls # 0 /\ i2c_state = "busy" /\ transfer \in Transactions /\ Types /\ Restarted
  BY Busy DEF OnRepeatedStart, Raised, Transferring, Starting, Started, Restarting, Sending, Sent,
              Refused, Reading, Faulty
<1>2. /\ write_index \in Nat \ {0} /\ write_index + 1 = write_length
      /\ transfer.cmd[write_index + 1] = "R"
  <2>1. transfer.restart \in Nat \ {0} /\ write_index = transfer.restart
    BY <1>1, Shape DEF Restarted, Again
  <2>2. transfer.restart + 1 = Len(transfer.cmd) /\ transfer.restart + 1 \in 2 .. Len(transfer.cmd)
    BY <1>1, <2>1, Shape
  <2> QED
    BY <1>1, <2>1, <2>2, Shape DEF write_length
<1>3. /\ UNCHANGED <<i2c_state, transfer, calls, acked, phase, read_index, sto, aa>>
      /\ i2c_data' = "R" /\ write_index' = write_index + 1 /\ sta' = FALSE /\ status' = "none"
  BY <1>1, <1>2 DEF OnRepeatedStart, Raised, SendNext, Restarted, Again, write_length
<1>4. Types' /\ Written' /\ NoFlags' /\ Acked(write_index - 1)'
  <2>1. write_length' = write_length /\ write_index' - 1 = write_index
    BY <1>2, <1>3 DEF write_length
  <2>2. Acked(write_index - 1)'
    BY <1>1, <1>3, <2>1 DEF Restarted, Again, Acked
  <2>3. Types' /\ NoFlags'
    <3>1. write_index' \in Nat /\ read_index' \in Nat
      BY <1>1, <1>2, <1>3 DEF Types
    <3>2. aa' \in BOOLEAN /\ sto' = FALSE
      <4>1. aa \in BOOLEAN /\ sto = FALSE
        BY <1>1 DEF Restarted, Again, Types
      <4> QED
        BY <1>3, <4>1
    <3>3. i2c_data' \in Bytes
      BY <1>3 DEF Bytes
    <3> QED
      BY <1>3, <3>1, <3>2, <3>3 DEF Types, NoFlags
  <2>4. Written'
    BY <1>1, <1>2, <1>3, <2>1 DEF Written, Restarted, Again
  <2> QED
    BY <2>2, <2>3, <2>4
<1>5. Sending'
  BY <1>1, <1>3, <1>4 DEF Sending, Restarted
<1> QED
  BY <1>1, <1>3, <1>4, <1>5, StaysOn DEF Transferring

\* The byte after one that was written: it is written too, or the address to read from.
LEMMA Continues ==
  ASSUME I2cInv, i2c_state = "busy", calls # 0, transfer \in Transactions, Types,
         Sent, phase = "transmit", write_index < write_length, Continue, status' = "none",
         UNCHANGED <<sto, i2c_state, transfer, read_index, phase, aa, acked, calls>>
  PROVE  I2cInv' /\ BusStep
<1>1. /\ write_index \in 1 .. write_length /\ write_length \in Nat /\ NoFlags
      /\ read_index = 0 /\ Acked(write_index) /\ write_index + 1 \in 2 .. Len(transfer.cmd)
  BY Shape DEF Sent, Written, write_length
<1>2. CASE transfer.restart # 0 /\ transfer.restart = write_index
  <2>1. sta' = TRUE /\ UNCHANGED <<i2c_data, write_index>>
    BY <1>2 DEF Continue
  <2>2. Types' /\ Acked(write_index)'
    BY <1>1, <2>1 DEF Types, Acked, write_length
  <2>3. Restarting'
    BY <1>1, <1>2, <2>1, <2>2 DEF Restarting, Again, NoFlags
  <2> QED
    BY <2>2, <2>3, StaysOn DEF Transferring
<1>3. CASE ~(transfer.restart # 0 /\ transfer.restart = write_index)
  <2>1. /\ i2c_data' = transfer.cmd[write_index + 1] /\ write_index' = write_index + 1
        /\ UNCHANGED sta
    BY <1>3 DEF Continue, SendNext
  <2>2. transfer.cmd[write_index + 1] = "d"
    <3>1. transfer.cmd[write_index + 1] \in Bytes /\ transfer.cmd[write_index + 1] # "W"
      BY <1>1, Shape
    <3>2. transfer.restart \in Nat /\ write_index \in Nat \ {0}
      BY <1>1, Shape
    <3>3. transfer.cmd[write_index + 1] # "R"
      BY <1>1, <1>3, <3>2, Shape
    <3> QED
      BY <3>1, <3>3 DEF Bytes
  <2>3. Types' /\ Written' /\ NoFlags' /\ Acked(write_index - 1)'
    BY <1>1, <2>1, <2>2 DEF Types, Written, NoFlags, Acked, write_length, Bytes
  <2>4. Sending'
    BY <2>1, <2>2, <2>3 DEF Sending
  <2> QED
    BY <2>3, <2>4, StaysOn DEF Transferring
<1> QED
  BY <1>2, <1>3

\* The address to write is acknowledged: the next byte, the repeated start or the end.
LEMMA WriteAddress ==
  ASSUME I2cInv, OnWriteAddress
  PROVE  I2cInv' /\ BusStep
<1>1. /\ calls # 0 /\ i2c_state = "busy" /\ transfer \in Transactions /\ Types /\ Sent
      /\ status = "SLAW_ACK"
  BY Busy DEF OnWriteAddress, Raised, Transferring, Starting, Started, Restarting, Restarted,
              Sending, Refused, Reading, Faulty
<1>2. phase = "transmit" /\ i2c_data = "W" /\ Written /\ NoFlags /\ Acked(write_index)
  BY <1>1 DEF Sent
<1>3. write_index = 1 /\ write_length \in Nat \ {0}
  BY <1>1, <1>2, Shape DEF Written, write_length
<1>4. status' = "none" /\ UNCHANGED <<transfer, read_index, phase, aa, acked, calls>>
  BY DEF OnWriteAddress, Raised
<1>5. CASE write_length = 1
  <2>1. /\ sto' = TRUE /\ i2c_state' = "no_data" /\ UNCHANGED <<i2c_data, write_index, sta>>
    BY <1>5 DEF OnWriteAddress, EndWith
  <2>2. ToRead = 0 /\ read_index = 0
    BY <1>1, <1>2, <1>3, <1>5, Read DEF ToRead, Written, write_length
  <2>3. Types'
    BY <1>1, <1>4, <2>1 DEF Types
  <2>4. Quiet'
    BY <1>2, <1>4, <2>1, <2>2, Shape, <1>1 DEF Quiet, NoFlags, read_length
  <2> QED
    BY <1>1, <1>2, <1>3, <1>4, <1>5, <2>1, <2>2, <2>3, <2>4, Finishes
<1>6. CASE write_length # 1
  <2>1. Continue /\ UNCHANGED <<sto, i2c_state>>
    BY <1>6 DEF OnWriteAddress
  <2> QED
    BY <1>1, <1>2, <1>3, <1>4, <1>6, <2>1, Continues
<1> QED
  BY <1>5, <1>6

\* A byte is acknowledged: the next one, the repeated start or the end.
LEMMA DataSent ==
  ASSUME I2cInv, OnDataSent
  PROVE  I2cInv' /\ BusStep
<1>1. /\ calls # 0 /\ i2c_state = "busy" /\ transfer \in Transactions /\ Types /\ Sent
      /\ status = "DATA_ACK"
  BY Busy DEF OnDataSent, Raised, Transferring, Starting, Started, Restarting, Restarted,
              Sending, Refused, Reading, Faulty
<1>2. phase = "transmit" /\ i2c_data = "d" /\ Written /\ NoFlags /\ Acked(write_index)
  BY <1>1 DEF Sent
<1>3. status' = "none" /\ UNCHANGED <<transfer, read_index, phase, aa, acked, calls>>
  BY DEF OnDataSent, Raised
<1>4. CASE write_index < write_length
  <2>1. Continue /\ UNCHANGED <<sto, i2c_state>>
    BY <1>4 DEF OnDataSent
  <2> QED
    BY <1>1, <1>2, <1>3, <1>4, <2>1, Continues
<1>5. CASE ~(write_index < write_length)
  <2>1. write_index = write_length /\ transfer.cmd[write_length] = "d" /\ read_index = 0
    BY <1>1, <1>2, <1>5, Shape DEF Written, write_length
  <2>2. read_length = 0 /\ ToRead = 0
    BY <1>1, <2>1, Shape, Read DEF read_length, ToRead, write_length
  <2>3. sto' = TRUE /\ i2c_state' = "ok" /\ UNCHANGED <<i2c_data, write_index, sta>>
    BY <1>5, <2>2 DEF OnDataSent, EndWith
  <2>4. Types'
    BY <1>1, <1>3, <2>3 DEF Types
  <2>5. Quiet'
    BY <1>1, <1>2, <1>3, <2>1, <2>3, Shape DEF Quiet, NoFlags, read_length
  <2> QED
    BY <1>1, <1>2, <1>3, <2>1, <2>2, <2>3, <2>4, <2>5, Finishes
<1> QED
  BY <1>4, <1>5

\* A byte that is refused ends the transfer.
LEMMA Nack ==
  ASSUME I2cInv, OnNack
  PROVE  I2cInv' /\ BusStep
<1>1. /\ calls # 0 /\ i2c_state = "busy" /\ transfer \in Transactions /\ Types /\ Refused
  BY Busy DEF OnNack, Raised, Transferring, Starting, Started, Restarting, Restarted,
              Sending, Sent, Reading, Faulty
<1>2. /\ status' = "none" /\ sto' = TRUE /\ i2c_state' = "nack"
      /\ UNCHANGED <<transfer, read_index, write_index, phase, sta, aa, i2c_data, acked, calls>>
  BY DEF OnNack, Raised, EndWith, i2c_index
<1>3. /\ write_length \in Nat /\ ToRead \in Nat /\ read_length \in Nat
      /\ read_index = 0 /\ write_index - 1 \in 0 .. write_length
  BY <1>1, Shape, Read DEF write_length, ToRead, Refused, Written, read_length
<1>4. Types'
  BY <1>1, <1>2 DEF Types
<1>5. Quiet'
  BY <1>1, <1>2, <1>3 DEF Quiet, Refused, NoFlags, read_length
<1> QED
  BY <1>1, <1>2, <1>3, <1>4, <1>5, Finishes DEF Refused

\* The address to read is acknowledged.
LEMMA ReadAddress ==
  ASSUME I2cInv, OnReadAddress
  PROVE  I2cInv' /\ BusStep
<1>1. /\ calls # 0 /\ i2c_state = "busy" /\ transfer \in Transactions /\ Types /\ Sent
      /\ status = "SLAR_ACK"
  BY Busy DEF OnReadAddress, Raised, Transferring, Starting, Started, Restarting, Restarted,
              Sending, Refused, Reading, Faulty
<1>2. /\ status' = "none" /\ aa' = MoreToRead(read_index)
      /\ UNCHANGED <<i2c_state, transfer, phase, sta, sto, i2c_data, acked, calls>>
      /\ UNCHANGED <<read_index, write_index>>
  BY DEF OnReadAddress, Raised, i2c_index
<1>3. /\ phase = "receive" /\ write_index = write_length /\ Reads /\ read_index = 0 /\ NoFlags
      /\ Acked(write_length)
  BY <1>1, Shape DEF Sent, Written, Reads, write_length
<1>4. ToRead \in Nat \ {0} /\ read_length \in Nat
  BY <1>1, <1>3, Read, Shape DEF ToRead, Reads, write_length, read_length
<1>5. Acked(write_length)' /\ Reads' /\ ToRead' = ToRead /\ read_length' = read_length
  BY <1>2, <1>3 DEF Acked, write_length, read_length, Reads, ToRead, Bus!BytesRead
<1>6. read_index' = 0 /\ aa' = (1 < read_length')
  BY <1>2, <1>3, <1>5 DEF MoreToRead
<1>7. aa' \in BOOLEAN
  BY <1>6
<1>8. Types'
  BY <1>1, <1>2, <1>7 DEF Types
<1>9. Reading'
  <2>1. (NoFlags /\ phase = "receive" /\ Reads /\ Acked(write_length))' /\ status' = "none"
    BY <1>2, <1>3, <1>5 DEF NoFlags
  <2>2. read_index' \in Nat /\ read_index' < ToRead'
    BY <1>4, <1>5, <1>6
  <2>3. 1 < read_length' <=> read_index' + 1 < read_length'
    BY <1>6
  <2>4. aa' <=> 1 < read_length'
    BY <1>6, Zenon
  <2> QED
    BY <2>1, <2>2, <2>3, <2>4 DEF Reading
<1> QED
  BY <1>1, <1>2, <1>8, <1>9, StaysOn DEF Transferring

\* A byte that was acknowledged is stored, and another one follows.
LEMMA ByteRead ==
  ASSUME I2cInv, OnByteRead
  PROVE  I2cInv' /\ BusStep
<1>1. /\ calls # 0 /\ i2c_state = "busy" /\ transfer \in Transactions /\ Types /\ Reading /\ aa
  BY Busy DEF OnByteRead, Raised, Transferring, Starting, Started, Restarting, Restarted,
              Sending, Sent, Refused, Faulty, Reading
<1>2. /\ status' = "none" /\ read_index' = read_index + 1 /\ aa' = MoreToRead(read_index')
      /\ UNCHANGED <<i2c_state, transfer, write_index, phase, sta, sto, i2c_data, acked, calls>>
  BY DEF OnByteRead, Raised
<1>3. read_length \in Nat /\ read_index + 1 < read_length /\ ToRead = read_length
  <2>1. read_length \in Nat /\ read_index + 1 < read_length /\ read_index \in Nat
    BY <1>1, Shape DEF Reading, read_length
  <2>2. Reads
    BY <1>1 DEF Reading
  <2> QED
    BY <1>1, <2>1, <2>2, Read DEF ToRead, Reads, write_length, read_length
<1>4. Acked(write_length)' /\ Reads' /\ ToRead' = ToRead /\ read_length' = read_length
  BY <1>1, <1>2 DEF Reading, Acked, write_length, read_length, Reads, ToRead, Bus!BytesRead
<1>5. aa' = (read_index' + 1 < read_length')
  BY <1>2, <1>4 DEF MoreToRead
<1>6. aa' \in BOOLEAN
  BY <1>5
<1>7. read_index' \in Nat
  BY <1>1, <1>2 DEF Types
<1>8. Types'
  BY <1>1, <1>2, <1>6, <1>7 DEF Types
<1>9. Reading'
  BY <1>1, <1>2, <1>3, <1>4, <1>5, <1>7 DEF Reading, NoFlags
<1> QED
  BY <1>1, <1>2, <1>8, <1>9, StaysOn DEF Transferring

\* The byte that was not acknowledged is stored and ends the transfer.
LEMMA LastByteRead ==
  ASSUME I2cInv, OnLastByteRead
  PROVE  I2cInv' /\ BusStep
<1>1. /\ calls # 0 /\ i2c_state = "busy" /\ transfer \in Transactions /\ Types /\ Reading /\ ~aa
  BY Busy DEF OnLastByteRead, Raised, Transferring, Starting, Started, Restarting, Restarted,
              Sending, Sent, Refused, Faulty, Reading
<1>2. /\ status' = "none" /\ read_index' = read_index + 1 /\ sto' = TRUE /\ i2c_state' = "ok"
      /\ UNCHANGED <<transfer, write_index, phase, sta, aa, i2c_data, acked, calls>>
  BY DEF OnLastByteRead, Raised, EndWith
<1>3. /\ read_length \in Nat /\ read_index + 1 >= read_length /\ read_index \in Nat
      /\ read_index < ToRead /\ Reads /\ Acked(write_length)
  BY <1>1, Shape DEF Reading, read_length
<1>4. ToRead = IF read_length = 0 THEN 1 ELSE read_length
  BY <1>1, <1>3, Read DEF ToRead, Reads, write_length, read_length
<1>5. read_index' = ToRead
  BY <1>2, <1>3, <1>4
<1>6. Types'
  BY <1>1, <1>2 DEF Types
<1>7. Quiet'
  BY <1>1, <1>2, <1>3, <1>4, <1>5 DEF Quiet, Reading, NoFlags, read_length
<1> QED
  BY <1>1, <1>2, <1>3, <1>5, <1>6, <1>7, Finishes

\* A fault ends the transfer.
LEMMA FaultEnds ==
  ASSUME I2cInv, OnFault
  PROVE  I2cInv' /\ BusStep
<1>1. /\ calls # 0 /\ i2c_state = "busy" /\ transfer \in Transactions /\ Types /\ Faulty
  BY Busy DEF OnFault, Raised, Transferring, Starting, Started, Restarting, Restarted,
              Sending, Sent, Refused, Reading
<1>2. /\ status' = "none" /\ i2c_state' \in {"lost", "bus_error"}
      /\ sto' \in BOOLEAN /\ aa' \in BOOLEAN
      /\ UNCHANGED <<transfer, read_index, write_index, phase, sta, i2c_data, acked, calls>>
  BY <1>1 DEF OnFault, Raised, i2c_index, Types
<1>3. Types'
  BY <1>1, <1>2 DEF Types
<1>4. read_length \in Nat /\ ToRead <= (IF read_length = 0 THEN 1 ELSE read_length)
  BY <1>1, Read, Shape DEF ToRead, read_length
<1>5. Quiet'
  <2>1. ToRead \in Nat /\ read_index \in 0 .. ToRead
    BY <1>1, Read, Shape DEF ToRead, Faulty
  <2>2. read_index <= (IF read_length = 0 THEN 1 ELSE read_length)
    BY <1>4, <2>1
  <2> QED
    BY <1>1, <1>2, <2>2 DEF Quiet, Faulty, NoFlags, read_length
<1> QED
  BY <1>1, <1>2, <1>3, <1>5, Finishes DEF Faulty

\* i2c_read and i2c_write begin a transfer, behind the stop condition of the last one.
LEMMA Begin ==
  ASSUME I2cInv, NEW t \in Transactions, NEW wait \in BOOLEAN, I2cBegin(t, wait)
  PROVE  I2cInv' /\ BusStep
<1>1. /\ i2c_state # "busy" /\ i2c_state' = "busy" /\ transfer' = t /\ read_index' = 0
      /\ sta' = TRUE /\ acked' = <<>> /\ calls' = calls + 1
      /\ UNCHANGED <<write_index, status, phase, sto, aa, i2c_data>>
  BY DEF I2cBegin
<1>2. calls \in Nat /\ status = "none" /\ phase # "address" /\ (phase = "idle" \/ sto)
  BY <1>1 DEF I2cInv, Quiet
<1>3. calls' \in Nat \ {0}
  BY <1>1, <1>2
<1>4. t.cmd \in Seq(Bytes) /\ Len(t.cmd) \in Nat
  BY Shape
<1>5. Acked(0)'
  BY <1>1, <1>4 DEF Acked, write_length
<1>6. Starting'
  BY <1>1, <1>2, <1>5 DEF Starting
<1>7. {sta, sto, aa}' \subseteq BOOLEAN
  BY <1>1 DEF I2cInv
<1>8. I2cInv'
  BY <1>1, <1>3, <1>6, <1>7 DEF I2cInv, Transferring
<1>9. Bus!BusBegin
  <2>1. (IF calls = 0 THEN "none"
         ELSE IF ~Ended THEN "busy"
         ELSE IF i2c_state \in {"ok", "no_data"} THEN "ok" ELSE "error") # "busy"
    BY <1>1, <1>2 DEF Ended
  <2>2. calls' # 0 /\ ~Ended'
    BY <1>1, <1>3 DEF Ended
  <2> QED
    BY <1>1, <2>1, <2>2 DEF Bus!BusBegin
<1> QED
  BY <1>8, <1>9 DEF BusStep

\* A step that leaves the driver and the bus as they are.
LEMMA Stutter ==
  ASSUME I2cInv, UNCHANGED <<i2c_state, transfer, i2c_index, status, phase, i2c_flags, i2c_data, acked, calls>>
  PROVE  I2cInv' /\ BusStep
<1>1. /\ UNCHANGED <<i2c_state, transfer, status, phase, i2c_data, acked, calls>>
      /\ UNCHANGED <<write_index, read_index, sta, sto, aa>>
  BY DEF i2c_index, i2c_flags
<1>2. BusStep
  BY <1>1, Rests DEF BusStep
<1>3. CASE calls # 0 /\ i2c_state = "busy"
  <2>1. (\A k : Acked(k)' <=> Acked(k)) /\ (Reads' <=> Reads) /\ ToRead' = ToRead
    BY <1>1 DEF Acked, write_length, Reads, ToRead, Bus!BytesRead
  <2>2. write_length' = write_length /\ read_length' = read_length
    BY <1>1 DEF write_length, read_length
  <2>3. Transferring'
    <3>1. Transferring
      BY <1>3 DEF I2cInv
    <3>2. CASE Starting \/ Started \/ Restarting \/ Restarted
      BY <1>1, <2>1, <3>2 DEF Transferring, Starting, Started, Restarting, Restarted, Again
    <3>3. CASE Sending \/ Sent \/ Refused
      <4>1. Written'
        BY <1>1, <2>2, <3>3 DEF Sending, Sent, Refused, Written
      <4> QED
        BY <1>1, <2>1, <3>3, <4>1 DEF Transferring, Sending, Sent, Refused, NoFlags
    <3>4. CASE Reading
      <4>1. Reading'
        BY <1>1, <2>1, <2>2, <3>4 DEF Reading, NoFlags
      <4> QED
        BY <4>1 DEF Transferring
    <3>5. CASE Faulty
      BY <1>1, <2>1, <2>2, <3>5 DEF Transferring, Faulty, NoFlags
    <3> QED
      BY <3>1, <3>2, <3>3, <3>4, <3>5 DEF Transferring
  <2>4. {sta, sto, aa}' \subseteq BOOLEAN
    BY <1>1 DEF I2cInv
  <2> QED
    BY <1>1, <1>2, <1>3, <2>3, <2>4 DEF I2cInv
<1>4. CASE calls = 0 \/ i2c_state # "busy"
  <2>1. Quiet => Quiet'
    BY <1>1 DEF Quiet, read_length
  <2>2. {sta, sto, aa}' \subseteq BOOLEAN
    BY <1>1 DEF I2cInv
  <2> QED
    BY <1>1, <1>2, <1>4, <2>1, <2>2 DEF I2cInv, NoFlags
<1> QED
  BY <1>3, <1>4

----------------------------------------------------------------------------
(* The theorems.                                                           *)

\* Nothing has been asked for.
LEMMA Initially == I2cInit => I2cInv /\ Bus!BusInit
<1> SUFFICES ASSUME I2cInit PROVE I2cInv /\ Bus!BusInit
  OBVIOUS
<1>1. {sta, sto, aa} \subseteq BOOLEAN
  BY DEF I2cInit
<1>2. I2cInv
  BY <1>1 DEF I2cInit, I2cInv, NoFlags, Bytes
<1>3. Bus!BusInit
  BY DEF I2cInit, Bus!BusInit, Ended
<1> QED
  BY <1>2, <1>3

\* Every step keeps the invariant and is one of I2cBus, or a stutter.
LEMMA Steps == I2cInv /\ [I2cNext]_i2c_vars => I2cInv' /\ BusStep
<1> SUFFICES ASSUME I2cInv, [I2cNext]_i2c_vars PROVE I2cInv' /\ BusStep
  OBVIOUS
<1>1. CASE I2cHardware
  BY <1>1, StopStart, Send, Receive DEF I2cHardware
<1>2. CASE HwFault
  BY <1>2, Fault
<1>3. CASE I2C_0_Handler
  BY <1>3, Start, RepeatedStart, WriteAddress, DataSent, Nack, ReadAddress, ByteRead,
     LastByteRead, FaultEnds DEF I2C_0_Handler
<1>4. CASE \E t \in Transactions, wait \in BOOLEAN : I2cBegin(t, wait)
  BY <1>4, Begin
<1>5. CASE I2cReturn
  BY <1>5, Stutter DEF I2cReturn
<1>6. CASE UNCHANGED i2c_vars
  BY <1>6, Stutter DEF i2c_vars
<1> QED
  BY <1>1, <1>2, <1>3, <1>4, <1>5, <1>6 DEF I2cNext

\* The indexes stay within the buffers of the caller.
LEMMA Within == I2cInv => InBuffers
<1> SUFFICES ASSUME I2cInv, transfer # <<>> PROVE InBuffers
  BY DEF InBuffers
<1>1. /\ transfer \in Transactions /\ i2c_data # "beyond"
      /\ IF i2c_state = "busy" THEN Transferring ELSE Quiet
  BY DEF I2cInv, Bytes
<1>2. /\ ToRead \in Nat /\ read_length \in Nat
      /\ ToRead <= (IF read_length = 0 THEN 1 ELSE read_length)
  BY <1>1, Read, Shape DEF ToRead, read_length
<1>3. CASE Quiet
  BY <1>1, <1>3 DEF InBuffers, Quiet
<1>4. CASE Transferring
  <2>1. read_index \in 0 .. ToRead
    BY <1>2, <1>4 DEF Transferring, Starting, Started, Restarting, Restarted, Again,
                      Sending, Sent, Refused, Written, Reading, Faulty
  <2>2. read_index <= (IF read_length = 0 THEN 1 ELSE read_length)
    BY <1>2, <2>1
  <2> QED
    BY <1>1, <2>2 DEF InBuffers
<1> QED
  BY <1>1, <1>3, <1>4

\* drivers/i2c.c implements I2cBus: a call that reports success has had its whole
\* command acknowledged and every byte asked for read, one that fails a part of
\* it, and nothing changes under a caller in between.
THEOREM BusIsKept == I2cSpec => ImplementsBus
<1>1. BusStep => [Bus!BusBegin \/ Bus!BusEnd]_(Bus!bus_vars)
  BY DEF BusStep
<1> QED
  BY <1>1, Initially, Steps, PTL DEF I2cSpec, ImplementsBus, Bus!BusSpec

\* The interrupt of drivers/i2c.c never sends a byte past the end of ctrl_buf and
\* never writes past the end of inbuff.
THEOREM BuffersAreKept == I2cSpec => []InBuffers
<1> QED
  BY Initially, Steps, Within, PTL DEF I2cSpec

----------------------------------------------------------------------------
(* LinkedList. *)

\* The links l are those of the rings of the sequences c, in both directions; an
\* entry is in one of them once, or has no links.
InOrder(l, c) ==
    /\ {l.next, l.prev} \subseteq [Nodes -> Nodes \cup {NULL}]
    /\ c \in [Heads -> Seq(Entries)]
    /\ \A g, h \in Heads : \A i \in 1 .. Len(c[g]), j \in 1 .. Len(c[h]) :
          c[g][i] = c[h][j] => g = h /\ i = j
    /\ \A h \in Heads : \A i \in 0 .. Len(c[h]) :
          /\ l.next[Node(c[h], h, i)] = Node(c[h], h, i + 1)
          /\ l.prev[Node(c[h], h, i + 1)] = Node(c[h], h, i)
    /\ \A e \in Entries : l.next[e] = NULL \/ (\E h \in Heads : \E i \in 1 .. Len(c[h]) : c[h][i] = e)
    /\ \A e \in Entries : l.next[e] = NULL <=> l.prev[e] = NULL

WalkInv ==
    /\ walked \in Heads \cup {NULL} /\ pos \in Nodes \cup {NULL}
    /\ walked # NULL => pos \in Nodes /\ n \in Nodes /\ Linked(n) /\ (n \in Entries => n # pos)

ListInv == WalkInv /\ \E c : InOrder(Links, c)

\* A node of a ring: the head at both ends, or an entry.
LEMMA NodeIs ==
  ASSUME NEW s \in Seq(Entries), NEW h \in Heads, NEW i \in 0 .. Len(s) + 1
  PROVE  /\ Node(s, h, i) \in Nodes
         /\ i \in 1 .. Len(s) => Node(s, h, i) = s[i] /\ s[i] \in Entries
         /\ i = 0 \/ i = Len(s) + 1 => Node(s, h, i) = h
         /\ Node(s, h, i) \in Entries => i \in 1 .. Len(s)
<1>1. Len(s) \in Nat /\ \A k \in 1 .. Len(s) : s[k] \in Entries
  BY LenProperties, ElementOfSeq
<1>2. h \in Nodes /\ h \notin Entries /\ Entries \subseteq Nodes
  BY ListConstants DEF Nodes
<1>3. CASE i \in 1 .. Len(s)
  BY <1>1, <1>2, <1>3 DEF Node
<1>4. CASE i \notin 1 .. Len(s)
  BY <1>1, <1>2, <1>4 DEF Node
<1> QED BY <1>1, <1>3, <1>4

\* Two places that hold the same node are the same place, the head being at both ends.
LEMMA NodesDiffer ==
  ASSUME NEW l, NEW c, InOrder(l, c), NEW g \in Heads, NEW h \in Heads,
         NEW i \in 0 .. Len(c[g]) + 1, NEW j \in 0 .. Len(c[h]) + 1,
         Node(c[g], g, i) = Node(c[h], h, j)
  PROVE  /\ g = h
         /\ i = j \/ (i \in {0, Len(c[g]) + 1} /\ j \in {0, Len(c[g]) + 1})
<1>1. c[g] \in Seq(Entries) /\ c[h] \in Seq(Entries)
  BY DEF InOrder
<1>2. Len(c[g]) \in Nat /\ Len(c[h]) \in Nat
  BY <1>1, LenProperties
<1>3. CASE i \in 1 .. Len(c[g]) /\ j \in 1 .. Len(c[h])
  <2>1. c[g][i] = c[h][j]
    BY <1>1, <1>3, NodeIs
  <2> QED BY <1>3, <2>1 DEF InOrder
<1>4. CASE i \in 1 .. Len(c[g]) /\ j \notin 1 .. Len(c[h])
  <2>1. Node(c[g], g, i) \in Entries /\ Node(c[h], h, j) = h
    BY <1>1, <1>2, <1>4, NodeIs
  <2> QED BY <2>1, ListConstants
<1>5. CASE i \notin 1 .. Len(c[g]) /\ j \in 1 .. Len(c[h])
  <2>1. Node(c[h], h, j) \in Entries /\ Node(c[g], g, i) = g
    BY <1>1, <1>2, <1>5, NodeIs
  <2> QED BY <2>1, ListConstants
<1>6. CASE i \notin 1 .. Len(c[g]) /\ j \notin 1 .. Len(c[h])
  <2>1. i \in {0, Len(c[g]) + 1} /\ j \in {0, Len(c[h]) + 1}
    BY <1>2, <1>6
  <2>2. Node(c[g], g, i) = g /\ Node(c[h], h, j) = h
    BY <1>1, <2>1, NodeIs
  <2> QED BY <2>1, <2>2
<1> QED BY <1>3, <1>4, <1>5, <1>6

----------------------------------------------------------------------------
\* An entry put behind the k-th node of a ring, and one taken from its k-th.
Inserted(s, k, e) == [i \in 1 .. Len(s) + 1 |-> IF i <= k THEN s[i] ELSE IF i = k + 1 THEN e ELSE s[i - 1]]
Deleted(s, k) == [i \in 1 .. Len(s) - 1 |-> IF i < k THEN s[i] ELSE s[i + 1]]

\* The ring of a sequence with an entry more.
LEMMA InsertedIs ==
  ASSUME NEW s \in Seq(Entries), NEW k \in 0 .. Len(s), NEW e \in Entries
  PROVE  /\ Inserted(s, k, e) \in Seq(Entries) /\ Len(Inserted(s, k, e)) = Len(s) + 1
         /\ k = 0 => Inserted(s, k, e) = <<e>> \o s
         /\ k = Len(s) => Inserted(s, k, e) = Append(s, e)
<1>1. Len(s) \in Nat /\ \A i \in 1 .. Len(s) : s[i] \in Entries
  BY LenProperties, ElementOfSeq
<1>2. PICK t : t = Inserted(s, k, e)
  OBVIOUS
<1>3. /\ t \in [1 .. Len(s) + 1 -> Entries]
      /\ \A i \in 1 .. Len(s) + 1 : t[i] = IF i <= k THEN s[i] ELSE IF i = k + 1 THEN e ELSE s[i - 1]
  <2>1. \A i \in 1 .. Len(s) + 1 :
           (IF i <= k THEN s[i] ELSE IF i = k + 1 THEN e ELSE s[i - 1]) \in Entries
    BY <1>1
  <2> QED BY <1>2, <2>1 DEF Inserted
<1>4. t \in Seq(Entries) /\ Len(t) = Len(s) + 1
  BY <1>1, <1>3
<1>6. ASSUME k = 0 PROVE t = <<e>> \o s
  <2>1. PICK w : w = <<e>> \o s
    OBVIOUS
  <2>2. /\ w \in Seq(Entries) /\ Len(w) = 1 + Len(s) /\ w[1] = e
        /\ \A i \in 2 .. Len(s) + 1 : w[i] = s[i - 1]
    <3>1. <<e>> \in Seq(Entries) /\ Len(<<e>>) = 1
      OBVIOUS
    <3> QED BY <1>1, <2>1, <3>1, ConcatProperties
  <2>3. \A i \in 1 .. Len(t) : t[i] = w[i]
    <3> SUFFICES ASSUME NEW i \in 1 .. Len(s) + 1 PROVE t[i] = w[i]
      BY <1>4
    <3>1. t[i] = IF i = 1 THEN e ELSE s[i - 1]
      BY <1>1, <1>3, <1>6
    <3>2. i # 1 => w[i] = s[i - 1]
      BY <1>1, <2>2
    <3> QED BY <2>2, <3>1, <3>2
  <2>4. Len(t) = Len(w)
    BY <1>1, <1>4, <2>2
  <2> QED BY <1>4, <2>1, <2>2, <2>3, <2>4, SeqEqual
<1>7. ASSUME k = Len(s) PROVE t = Append(s, e)
  <2>1. PICK w : w = Append(s, e)
    OBVIOUS
  <2>2. /\ w \in Seq(Entries) /\ Len(w) = Len(s) + 1 /\ w[Len(s) + 1] = e
        /\ \A i \in 1 .. Len(s) : w[i] = s[i]
    BY <1>1, <2>1, AppendProperties
  <2>3. \A i \in 1 .. Len(t) : t[i] = w[i]
    BY <1>1, <1>3, <1>4, <1>7, <2>2
  <2>4. Len(t) = Len(w)
    BY <1>1, <1>4, <2>2
  <2> QED BY <1>4, <2>1, <2>2, <2>3, <2>4, SeqEqual
<1> QED BY <1>2, <1>4, <1>6, <1>7

\* Its nodes: those before the new one stay where they were, the others go one on.
LEMMA InsertedRing ==
  ASSUME NEW s \in Seq(Entries), NEW k \in 0 .. Len(s), NEW e \in Entries, NEW h \in Heads
  PROVE  \A i \in 0 .. Len(s) + 2 :
            Node(Inserted(s, k, e), h, i) =
               IF i <= k THEN Node(s, h, i) ELSE IF i = k + 1 THEN e ELSE Node(s, h, i - 1)
<1>1. Len(s) \in Nat
  BY LenProperties
<1>2. PICK t : t = Inserted(s, k, e)
  OBVIOUS
<1>3. \A i \in 1 .. Len(s) + 1 : t[i] = IF i <= k THEN s[i] ELSE IF i = k + 1 THEN e ELSE s[i - 1]
  BY <1>2 DEF Inserted
<1>4. t \in Seq(Entries) /\ Len(t) = Len(s) + 1
  BY <1>2, InsertedIs
<1>5. ASSUME NEW i \in 0 .. Len(s) + 2
      PROVE  Node(t, h, i) = IF i <= k THEN Node(s, h, i) ELSE IF i = k + 1 THEN e ELSE Node(s, h, i - 1)
  <2>1. CASE i = 0 \/ i = Len(s) + 2
    BY <1>1, <1>4, <2>1 DEF Node
  <2>2. CASE i \in 1 .. Len(s) + 1
    <3>1. Node(t, h, i) = t[i]
      BY <1>1, <1>4, <2>2 DEF Node
    <3>2. i <= k => Node(s, h, i) = s[i]
      BY <1>1, <2>2 DEF Node
    <3>3. i > k + 1 => Node(s, h, i - 1) = s[i - 1]
      BY <1>1, <2>2 DEF Node
    <3> QED BY <1>1, <1>3, <2>2, <3>1, <3>2, <3>3
  <2> QED BY <1>1, <2>1, <2>2
<1> QED BY <1>2, <1>5

\* The ring of a sequence with an entry less.
LEMMA DeletedIs ==
  ASSUME NEW s \in Seq(Entries), NEW k \in 1 .. Len(s)
  PROVE  /\ Deleted(s, k) \in Seq(Entries) /\ Len(Deleted(s, k)) = Len(s) - 1
         /\ Deleted(s, k) = SubSeq(s, 1, k - 1) \o SubSeq(s, k + 1, Len(s))
<1>1. Len(s) \in Nat /\ \A i \in 1 .. Len(s) : s[i] \in Entries
  BY LenProperties, ElementOfSeq
<1>2. PICK t : t = Deleted(s, k)
  OBVIOUS
<1>3. /\ t \in [1 .. Len(s) - 1 -> Entries]
      /\ \A i \in 1 .. Len(s) - 1 : t[i] = IF i < k THEN s[i] ELSE s[i + 1]
  <2>1. \A i \in 1 .. Len(s) - 1 : (IF i < k THEN s[i] ELSE s[i + 1]) \in Entries
    BY <1>1
  <2> QED BY <1>2, <2>1 DEF Deleted
<1>4. t \in Seq(Entries) /\ Len(t) = Len(s) - 1
  BY <1>1, <1>3
<1>6. t = SubSeq(s, 1, k - 1) \o SubSeq(s, k + 1, Len(s))
  <2>1. PICK a, b : a = SubSeq(s, 1, k - 1) /\ b = SubSeq(s, k + 1, Len(s))
    OBVIOUS
  <2>2. a \in Seq(Entries) /\ Len(a) = k - 1 /\ \A i \in 1 .. k - 1 : a[i] = s[i]
    BY <1>1, <2>1, SubSeqProperties
  <2>3. b \in Seq(Entries) /\ Len(b) = Len(s) - k /\ \A i \in 1 .. Len(s) - k : b[i] = s[k + i]
    BY <1>1, <2>1, SubSeqProperties
  <2>4. PICK w : w = a \o b
    OBVIOUS
  <2>5. /\ w \in Seq(Entries) /\ Len(w) = Len(s) - 1
        /\ \A i \in 1 .. Len(s) - 1 : w[i] = IF i <= k - 1 THEN a[i] ELSE b[i - (k - 1)]
    <3>1. /\ w \in Seq(Entries) /\ Len(w) = Len(a) + Len(b)
          /\ \A i \in 1 .. Len(a) + Len(b) : w[i] = IF i <= Len(a) THEN a[i] ELSE b[i - Len(a)]
      BY <2>2, <2>3, <2>4, ConcatProperties
    <3>2. Len(a) = k - 1 /\ Len(a) + Len(b) = Len(s) - 1
      BY <1>1, <2>2, <2>3
    <3> QED BY <3>1, <3>2
  <2>6. \A i \in 1 .. Len(t) : t[i] = w[i]
    BY <1>1, <1>3, <1>4, <2>2, <2>3, <2>5
  <2>7. Len(t) = Len(w)
    BY <1>1, <1>4, <2>5
  <2> QED BY <1>4, <2>1, <2>4, <2>5, <2>6, <2>7, SeqEqual
<1> QED BY <1>2, <1>4, <1>6

\* Its nodes: those before the one that went stay, the others come one back.
LEMMA DeletedRing ==
  ASSUME NEW s \in Seq(Entries), NEW k \in 1 .. Len(s), NEW h \in Heads
  PROVE  \A i \in 0 .. Len(s) :
            Node(Deleted(s, k), h, i) = IF i < k THEN Node(s, h, i) ELSE Node(s, h, i + 1)
<1>1. Len(s) \in Nat
  BY LenProperties
<1>2. PICK t : t = Deleted(s, k)
  OBVIOUS
<1>3. \A i \in 1 .. Len(s) - 1 : t[i] = IF i < k THEN s[i] ELSE s[i + 1]
  BY <1>2 DEF Deleted
<1>4. t \in Seq(Entries) /\ Len(t) = Len(s) - 1
  BY <1>2, DeletedIs
<1>5. ASSUME NEW i \in 0 .. Len(s)
      PROVE  Node(t, h, i) = IF i < k THEN Node(s, h, i) ELSE Node(s, h, i + 1)
  <2>1. CASE i = 0 \/ i = Len(s)
    BY <1>1, <1>4, <2>1 DEF Node
  <2>2. CASE i \in 1 .. Len(s) - 1
    <3>1. Node(t, h, i) = t[i]
      BY <1>1, <1>4, <2>2 DEF Node
    <3>2. Node(s, h, i) = s[i] /\ Node(s, h, i + 1) = s[i + 1]
      BY <1>1, <2>2 DEF Node
    <3> QED BY <1>1, <1>3, <2>2, <3>1, <3>2
  <2> QED BY <1>1, <2>1, <2>2
<1> QED BY <1>2, <1>5

----------------------------------------------------------------------------
\* __list_add puts an entry that is in no list between two neighbours.
LEMMA AddKeepsOrder ==
  ASSUME NEW l, NEW c, InOrder(l, c), NEW h \in Heads, NEW k \in 0 .. Len(c[h]),
         NEW e \in Entries, l.next[e] = NULL
  PROVE  InOrder(Add(l, e, Node(c[h], h, k), Node(c[h], h, k + 1)), [c EXCEPT ![h] = Inserted(c[h], k, e)])
<1>1. PICK d, s, before, after, new :
         /\ s = c[h] /\ d = [c EXCEPT ![h] = Inserted(s, k, e)]
         /\ before = Node(s, h, k) /\ after = Node(s, h, k + 1) /\ new = Add(l, e, before, after)
  OBVIOUS
<1>2. /\ s \in Seq(Entries) /\ Len(s) \in Nat /\ k \in 0 .. Len(s)
      /\ c \in [Heads -> Seq(Entries)]
      /\ \A i \in 1 .. Len(s) : s[i] \in Entries
  BY <1>1, LenProperties, ElementOfSeq DEF InOrder
<1>3. /\ d \in [Heads -> Seq(Entries)] /\ d[h] = Inserted(s, k, e) /\ Len(d[h]) = Len(s) + 1
      /\ \A g \in Heads : g # h => d[g] = c[g]
  BY <1>1, <1>2, InsertedIs
<1>4. /\ e \in Nodes /\ before \in Nodes /\ after \in Nodes /\ Entries \subseteq Nodes
  BY <1>1, <1>2, NodeIs DEF Nodes
<1>5. ASSUME NEW g \in Heads, NEW i \in 0 .. Len(c[g]) + 1
      PROVE  Node(c[g], g, i) # e
  <2>1. c[g] \in Seq(Entries) /\ Len(c[g]) \in Nat
    BY <1>2, LenProperties
  <2>2. PICK j \in 0 .. Len(c[g]) : i = j \/ (i = Len(c[g]) + 1 /\ j = 0)
    BY <2>1
  <2>3. Node(c[g], g, i) = Node(c[g], g, j)
    BY <2>1, <2>2, NodeIs
  <2>4. l.next[Node(c[g], g, j)] \in Nodes
    <3>1. l.next[Node(c[g], g, j)] = Node(c[g], g, j + 1)
      BY DEF InOrder
    <3> QED BY <2>1, <3>1, NodeIs
  <2> QED BY <2>3, <2>4, ListConstants DEF Nodes
<1>6. e # before /\ e # after
  BY <1>1, <1>2, <1>5
<1>7. /\ l.next \in [Nodes -> Nodes \cup {NULL}] /\ l.prev \in [Nodes -> Nodes \cup {NULL}]
  BY DEF InOrder
<1>8. /\ new.next \in [Nodes -> Nodes \cup {NULL}] /\ new.prev \in [Nodes -> Nodes \cup {NULL}]
      /\ new.next[e] = after /\ new.next[before] = e
      /\ new.prev[e] = before /\ new.prev[after] = e
      /\ \A x \in Nodes : x # e /\ x # before => new.next[x] = l.next[x]
      /\ \A x \in Nodes : x # e /\ x # after => new.prev[x] = l.prev[x]
  BY <1>1, <1>4, <1>6, <1>7 DEF Add
\* Where the nodes are now.
<1>9. /\ \A g \in Heads : g # h => Len(d[g]) = Len(c[g])
                                   /\ \A i \in 0 .. Len(d[g]) + 1 : Node(d[g], g, i) = Node(c[g], g, i)
      /\ \A i \in 0 .. Len(s) + 2 :
            Node(d[h], h, i) = IF i <= k THEN Node(s, h, i) ELSE IF i = k + 1 THEN e ELSE Node(s, h, i - 1)
  <2>1. s \in Seq(Entries) /\ k \in 0 .. Len(s)
    BY <1>2
  <2>2. \A i \in 0 .. Len(s) + 2 :
           Node(Inserted(s, k, e), h, i) =
              IF i <= k THEN Node(s, h, i) ELSE IF i = k + 1 THEN e ELSE Node(s, h, i - 1)
    BY <2>1, InsertedRing
  <2>3. d[h] = Inserted(s, k, e)
    BY <1>3
  <2>4. \A g \in Heads : g # h => d[g] = c[g]
    BY <1>3
  <2> QED BY <2>2, <2>3, <2>4
<1>10. ASSUME NEW g \in Heads, NEW i \in 0 .. Len(d[g])
       PROVE  /\ new.next[Node(d[g], g, i)] = Node(d[g], g, i + 1)
              /\ new.prev[Node(d[g], g, i + 1)] = Node(d[g], g, i)
  <2>1. c[g] \in Seq(Entries) /\ Len(c[g]) \in Nat
    BY <1>2, LenProperties
  \* A pair of neighbours that were so already, not the one that is put apart.
  <2>2. ASSUME NEW j \in 0 .. Len(c[g]), g # h \/ j # k
        PROVE  /\ new.next[Node(c[g], g, j)] = Node(c[g], g, j + 1)
               /\ new.prev[Node(c[g], g, j + 1)] = Node(c[g], g, j)
    <3>1. j \in 0 .. Len(c[g]) + 1 /\ j + 1 \in 0 .. Len(c[g]) + 1
      BY <2>1
    <3>2. Node(c[g], g, j) \in Nodes /\ Node(c[g], g, j + 1) \in Nodes
      BY <2>1, <3>1, NodeIs
    <3>3. Node(c[g], g, j) # e /\ Node(c[g], g, j + 1) # e
      BY <1>5, <3>1
    <3>4. Node(c[g], g, j) # before
      <4>1. k \in 0 .. Len(c[h]) + 1 /\ before = Node(c[h], h, k)
        BY <1>1, <1>2
      <4> QED BY <1>1, <1>2, <2>1, <2>2, <3>1, <4>1, NodesDiffer
    <3>5. Node(c[g], g, j + 1) # after
      <4>1. k + 1 \in 0 .. Len(c[h]) + 1 /\ after = Node(c[h], h, k + 1)
        BY <1>1, <1>2
      <4> QED BY <1>1, <1>2, <2>1, <2>2, <3>1, <4>1, NodesDiffer
    <3>6. l.next[Node(c[g], g, j)] = Node(c[g], g, j + 1) /\ l.prev[Node(c[g], g, j + 1)] = Node(c[g], g, j)
      BY DEF InOrder
    <3> QED BY <1>8, <3>2, <3>3, <3>4, <3>5, <3>6
  <2>3. CASE g # h
    <3>1. i \in 0 .. Len(c[g]) /\ i \in 0 .. Len(d[g]) + 1 /\ i + 1 \in 0 .. Len(d[g]) + 1
      BY <1>9, <2>1, <2>3
    <3> QED BY <1>9, <2>2, <2>3, <3>1
  <2>4. CASE g = h
    <3>1. i \in 0 .. Len(s) + 1 /\ i + 1 \in 0 .. Len(s) + 2 /\ i \in 0 .. Len(s) + 2
      BY <1>2, <1>3, <2>4
    <3>2. CASE i < k
      <4>1. Node(d[h], h, i) = Node(s, h, i) /\ Node(d[h], h, i + 1) = Node(s, h, i + 1)
        BY <1>2, <1>9, <3>1, <3>2
      <4> QED BY <1>1, <1>2, <2>2, <2>4, <3>1, <3>2, <4>1
    <3>3. CASE i = k
      <4>1. Node(d[h], h, i) = before /\ Node(d[h], h, i + 1) = e
        <5>1. /\ Node(d[h], h, k) = (IF k <= k THEN Node(s, h, k) ELSE IF k = k + 1 THEN e ELSE Node(s, h, k - 1))
              /\ Node(d[h], h, k + 1) =
                    (IF k + 1 <= k THEN Node(s, h, k + 1) ELSE IF k + 1 = k + 1 THEN e ELSE Node(s, h, k + 1 - 1))
          BY <1>9, <3>1, <3>3
        <5>2. k \in Int
          BY <1>2
        <5>3. Node(d[h], h, k) = Node(s, h, k) /\ Node(d[h], h, k + 1) = e
          BY <5>1, <5>2
        <5> QED BY <1>1, <3>3, <5>3
      <4>2. new.next[before] = e /\ new.prev[e] = before
        BY <1>8
      <4> QED BY <2>4, <4>1, <4>2
    <3>4. CASE i = k + 1
      <4>1. Node(d[h], h, i) = e /\ Node(d[h], h, i + 1) = after
        BY <1>1, <1>2, <1>9, <3>1, <3>4
      <4>2. new.next[e] = after /\ new.prev[after] = e
        BY <1>8
      <4> QED BY <2>4, <4>1, <4>2
    <3>5. CASE i > k + 1
      <4>1. PICK j : j = i - 1
        OBVIOUS
      <4>2. j \in 0 .. Len(c[g]) /\ j # k /\ j + 1 = i
        BY <1>1, <1>2, <2>4, <3>1, <3>5, <4>1
      <4>3. Node(d[h], h, i) = Node(s, h, j) /\ Node(d[h], h, i + 1) = Node(s, h, j + 1)
        BY <1>2, <1>9, <3>1, <3>5, <4>1, <4>2
      <4> QED BY <1>1, <2>2, <2>4, <4>2, <4>3
    <3> QED BY <1>2, <3>1, <3>2, <3>3, <3>4, <3>5
  <2> QED BY <2>3, <2>4
<1>11. \A i \in 1 .. Len(s) + 1 : d[h][i] = IF i <= k THEN s[i] ELSE IF i = k + 1 THEN e ELSE s[i - 1]
  <2>1. /\ s \in Seq(Entries) /\ k \in 0 .. Len(s)
        /\ d[h] = Inserted(s, k, e)
    BY <1>2, <1>3
  <2>2. \A i \in 1 .. Len(s) + 1 :
           Inserted(s, k, e)[i] = IF i <= k THEN s[i] ELSE IF i = k + 1 THEN e ELSE s[i - 1]
    BY DEF Inserted
  <2> QED BY <2>1, <2>2
<1>12. \A g \in Heads : \A i \in 1 .. Len(c[g]) : c[g][i] # e
  <2> SUFFICES ASSUME NEW g \in Heads, NEW i \in 1 .. Len(c[g]) PROVE c[g][i] # e
    OBVIOUS
  <2>1. c[g] \in Seq(Entries) /\ Len(c[g]) \in Nat
    BY <1>2, LenProperties
  <2>2. i \in 0 .. Len(c[g]) + 1 /\ Node(c[g], g, i) = c[g][i]
    BY <2>1, NodeIs
  <2> QED BY <1>5, <2>2
<1>13. ASSUME NEW f \in Heads, NEW g \in Heads, NEW i \in 1 .. Len(d[f]), NEW j \in 1 .. Len(d[g]),
              d[f][i] = d[g][j]
       PROVE  f = g /\ i = j
  \* An entry of d is the new one, or stood in c.
  <2>1. ASSUME NEW m \in Heads, NEW x \in 1 .. Len(d[m]), m = h, x = k + 1
        PROVE  d[m][x] = e
    <3>1. k + 1 \in 1 .. Len(s) + 1 /\ ~(k + 1 <= k)
      BY <1>2
    <3>2. d[h][k + 1] = e
      BY <1>11, <3>1
    <3> QED BY <2>1, <3>2
  <2>2. ASSUME NEW m \in Heads, NEW x \in 1 .. Len(d[m]), ~(m = h /\ x = k + 1)
        PROVE  \E y \in 1 .. Len(c[m]) : d[m][x] = c[m][y] /\ y = IF m = h /\ x > k THEN x - 1 ELSE x
    <3>1. CASE m = h
      <4>1. PICK y : y = IF x > k THEN x - 1 ELSE x
        OBVIOUS
      <4>2. x \in 1 .. Len(s) + 1 /\ x # k + 1
        BY <1>3, <2>2, <3>1
      <4>3. y \in 1 .. Len(s) /\ d[h][x] = s[y]
        BY <1>2, <1>11, <4>1, <4>2
      <4> QED BY <1>1, <3>1, <4>1, <4>3
    <3>2. CASE m # h
      BY <1>3, <3>2
    <3> QED BY <3>1, <3>2
  <2>3. \A m \in Heads : \A x \in 1 .. Len(d[m]) : ~(m = h /\ x = k + 1) => d[m][x] # e
    <3> SUFFICES ASSUME NEW m \in Heads, NEW x \in 1 .. Len(d[m]), ~(m = h /\ x = k + 1)
                 PROVE  d[m][x] # e
      OBVIOUS
    <3>1. PICK y \in 1 .. Len(c[m]) : d[m][x] = c[m][y]
      BY <2>2
    <3> QED BY <1>12, <3>1
  <2>4. CASE f = h /\ i = k + 1
    <3>1. d[g][j] = e
      BY <1>13, <2>1, <2>4
    <3> QED BY <2>3, <2>4, <3>1
  <2>5. CASE g = h /\ j = k + 1
    <3>1. d[f][i] = e
      BY <1>13, <2>1, <2>5
    <3> QED BY <2>3, <2>5, <3>1
  <2>6. CASE ~(f = h /\ i = k + 1) /\ ~(g = h /\ j = k + 1)
    <3>1. PICK y \in 1 .. Len(c[f]) : d[f][i] = c[f][y] /\ y = IF f = h /\ i > k THEN i - 1 ELSE i
      BY <2>2, <2>6
    <3>2. PICK z \in 1 .. Len(c[g]) : d[g][j] = c[g][z] /\ z = IF g = h /\ j > k THEN j - 1 ELSE j
      BY <2>2, <2>6
    <3>3. f = g /\ y = z
      <4>1. c[f][y] = c[g][z]
        BY <1>13, <3>1, <3>2
      <4>2. \A a, b \in Heads : \A u \in 1 .. Len(c[a]), v \in 1 .. Len(c[b]) :
               c[a][u] = c[b][v] => a = b /\ u = v
        BY DEF InOrder
      <4> QED BY <4>1, <4>2
    <3>4. i \in Nat /\ j \in Nat /\ k \in Nat
      BY <1>2
    <3> QED BY <2>6, <3>1, <3>2, <3>3, <3>4
  <2> QED BY <2>4, <2>5, <2>6
<1>14. ASSUME NEW x \in Entries, new.next[x] # NULL
       PROVE  \E g \in Heads : \E i \in 1 .. Len(d[g]) : d[g][i] = x
  <2>1. CASE x = e
    <3>1. k + 1 \in 1 .. Len(d[h]) /\ d[h][k + 1] = e
      BY <1>2, <1>3, <1>11
    <3> QED BY <2>1, <3>1
  <2>2. CASE x # e
    <3>1. l.next[x] # NULL
      <4>1. CASE x = before
        <5>1. l.next[before] = after
          BY <1>1, <1>2 DEF InOrder
        <5> QED BY <1>4, <4>1, <5>1, ListConstants DEF Nodes
      <4>2. CASE x # before
        BY <1>4, <1>8, <1>14, <2>2, <4>2
      <4> QED BY <4>1, <4>2
    <3>5. PICK g \in Heads : \E i \in 1 .. Len(c[g]) : c[g][i] = x
      BY <3>1 DEF InOrder
    <3>2. PICK i \in 1 .. Len(c[g]) : c[g][i] = x
      BY <3>5
    <3>3. CASE g # h
      BY <1>3, <3>2, <3>3
    <3>4. CASE g = h
      <4>1. PICK j : j = IF i <= k THEN i ELSE i + 1
        OBVIOUS
      <4>2. j \in 1 .. Len(d[h]) /\ d[h][j] = x
        BY <1>1, <1>2, <1>3, <1>11, <3>2, <3>4, <4>1
      <4> QED BY <4>2
    <3> QED BY <3>3, <3>4
  <2> QED BY <2>1, <2>2
<1>15. \A x \in Entries : new.next[x] = NULL <=> new.prev[x] = NULL
  <2> SUFFICES ASSUME NEW x \in Entries PROVE new.next[x] = NULL <=> new.prev[x] = NULL
    OBVIOUS
  <2>1. l.next[x] = NULL <=> l.prev[x] = NULL
    BY DEF InOrder
  <2>2. NULL \notin Nodes /\ x \in Nodes
    BY <1>4, ListConstants DEF Nodes
  <2>3. l.next[before] = after /\ l.prev[after] = before
    BY <1>1, <1>2 DEF InOrder
  <2>4. l.prev[before] # NULL
    <3>1. CASE k = 0
      <4>1. before = Node(c[h], h, Len(s) + 1) /\ Len(s) \in 0 .. Len(s)
        BY <1>1, <1>2, <3>1, NodeIs
      <4>2. l.prev[before] = Node(s, h, Len(s))
        BY <1>1, <4>1 DEF InOrder
      <4>3. Node(s, h, Len(s)) \in Nodes
        BY <1>2, NodeIs
      <4> QED BY <2>2, <4>2, <4>3
    <3>2. CASE k # 0
      <4>1. k - 1 \in 0 .. Len(s) /\ (k - 1) + 1 = k /\ k - 1 \in 0 .. Len(s) + 1
        BY <1>2, <3>2
      <4>2. l.prev[Node(c[h], h, (k - 1) + 1)] = Node(c[h], h, k - 1)
        BY <1>1, <4>1 DEF InOrder
      <4>3. l.prev[before] = Node(s, h, k - 1)
        BY <1>1, <4>1, <4>2
      <4>4. Node(s, h, k - 1) \in Nodes
        BY <1>2, <4>1, NodeIs
      <4> QED BY <2>2, <4>3, <4>4
    <3> QED BY <3>1, <3>2
  <2>5. l.next[after] # NULL
    <3>1. CASE k = Len(s)
      <4>1. after = h /\ h = Node(c[h], h, 0) /\ 0 \in 0 .. Len(s)
        BY <1>1, <1>2, <3>1, NodeIs
      <4>2. l.next[after] = Node(s, h, 1)
        BY <1>1, <4>1 DEF InOrder
      <4>3. Node(s, h, 1) \in Nodes
        BY <1>2, NodeIs
      <4> QED BY <2>2, <4>2, <4>3
    <3>2. CASE k # Len(s)
      <4>1. k + 1 \in 0 .. Len(s) /\ k + 2 \in 0 .. Len(s) + 1 /\ (k + 1) + 1 = k + 2
        BY <1>2, <3>2
      <4>2. l.next[after] = Node(s, h, k + 2)
        BY <1>1, <4>1 DEF InOrder
      <4>3. Node(s, h, k + 2) \in Nodes
        BY <1>2, <4>1, NodeIs
      <4> QED BY <2>2, <4>2, <4>3
    <3> QED BY <3>1, <3>2
  <2> QED BY <1>4, <1>8, <2>1, <2>2, <2>3, <2>4, <2>5
<1>16. InOrder(new, d)
  <2>1. {new.next, new.prev} \subseteq [Nodes -> Nodes \cup {NULL}] /\ d \in [Heads -> Seq(Entries)]
    BY <1>3, <1>8
  <2> QED BY <2>1, <1>10, <1>13, <1>14, <1>15 DEF InOrder
<1> QED BY <1>1, <1>16

----------------------------------------------------------------------------
\* list_del links the neighbours of an entry to each other.
LEMMA DelKeepsOrder ==
  ASSUME NEW l, NEW c, InOrder(l, c), NEW h \in Heads, NEW k \in 1 .. Len(c[h]),
         NEW e, e = c[h][k]
  PROVE  /\ InOrder(Del(l, e), [c EXCEPT ![h] = Deleted(c[h], k)])
         /\ e \in Entries /\ Del(l, e).next[e] = NULL
<1>1. PICK d, s, before, after, rest :
         /\ s = c[h] /\ d = [c EXCEPT ![h] = Deleted(s, k)]
         /\ before = Node(s, h, k - 1) /\ after = Node(s, h, k + 1) /\ rest = Del(l, e)
  OBVIOUS
<1>2. /\ s \in Seq(Entries) /\ Len(s) \in Nat /\ k \in 1 .. Len(s)
      /\ c \in [Heads -> Seq(Entries)]
      /\ \A i \in 1 .. Len(s) : s[i] \in Entries
  BY <1>1, LenProperties, ElementOfSeq DEF InOrder
<1>3. /\ d \in [Heads -> Seq(Entries)] /\ d[h] = Deleted(s, k) /\ Len(d[h]) = Len(s) - 1
      /\ \A g \in Heads : g # h => d[g] = c[g]
  BY <1>1, <1>2, DeletedIs
<1>4. /\ k - 1 \in 0 .. Len(s) /\ (k - 1) + 1 = k /\ k \in 0 .. Len(s)
      /\ {k - 1, k, k + 1} \subseteq 0 .. Len(s) + 1
  BY <1>2
<1>5. /\ e \in Nodes /\ before \in Nodes /\ after \in Nodes /\ Entries \subseteq Nodes
      /\ e = Node(s, h, k) /\ e \in Entries
  BY <1>1, <1>2, <1>4, NodeIs DEF Nodes
<1>6. /\ l.next \in [Nodes -> Nodes \cup {NULL}] /\ l.prev \in [Nodes -> Nodes \cup {NULL}]
  BY DEF InOrder
<1>7. l.prev[e] = before /\ l.next[e] = after
  <2>1. l.prev[Node(s, h, (k - 1) + 1)] = Node(s, h, k - 1) /\ l.next[Node(s, h, k)] = Node(s, h, k + 1)
    BY <1>1, <1>4 DEF InOrder
  <2> QED BY <1>1, <1>4, <1>5, <2>1
<1>8. e # before /\ e # after
  <2>1. Node(c[h], h, k) = Node(c[h], h, k - 1) => FALSE
    BY <1>1, <1>2, <1>4, NodesDiffer
  <2>2. Node(c[h], h, k) = Node(c[h], h, k + 1) => FALSE
    BY <1>1, <1>2, <1>4, NodesDiffer
  <2> QED BY <1>1, <1>5, <2>1, <2>2
<1>9. /\ rest.next \in [Nodes -> Nodes \cup {NULL}] /\ rest.prev \in [Nodes -> Nodes \cup {NULL}]
      /\ rest.next[e] = NULL /\ rest.next[before] = after
      /\ rest.prev[e] = NULL /\ rest.prev[after] = before
      /\ \A x \in Nodes : x # e /\ x # before => rest.next[x] = l.next[x]
      /\ \A x \in Nodes : x # e /\ x # after => rest.prev[x] = l.prev[x]
  BY <1>1, <1>5, <1>6, <1>7, <1>8 DEF Del
<1>10. \A i \in 0 .. Len(s) : Node(d[h], h, i) = IF i < k THEN Node(s, h, i) ELSE Node(s, h, i + 1)
  <2>1. s \in Seq(Entries) /\ k \in 1 .. Len(s) /\ d[h] = Deleted(s, k)
    BY <1>2, <1>3
  <2>2. \A i \in 0 .. Len(s) :
           Node(Deleted(s, k), h, i) = IF i < k THEN Node(s, h, i) ELSE Node(s, h, i + 1)
    BY <2>1, DeletedRing
  <2> QED BY <2>1, <2>2
<1>11. ASSUME NEW g \in Heads, NEW i \in 0 .. Len(d[g])
       PROVE  /\ rest.next[Node(d[g], g, i)] = Node(d[g], g, i + 1)
              /\ rest.prev[Node(d[g], g, i + 1)] = Node(d[g], g, i)
  <2>1. c[g] \in Seq(Entries) /\ Len(c[g]) \in Nat
    BY <1>2, LenProperties
  \* A pair of neighbours without the entry.
  <2>2. ASSUME NEW j \in 0 .. Len(c[g]), g # h \/ j \notin {k - 1, k}
        PROVE  /\ rest.next[Node(c[g], g, j)] = Node(c[g], g, j + 1)
               /\ rest.prev[Node(c[g], g, j + 1)] = Node(c[g], g, j)
    <3>1. j \in 0 .. Len(c[g]) + 1 /\ j + 1 \in 0 .. Len(c[g]) + 1
      BY <2>1
    <3>2. Node(c[g], g, j) \in Nodes /\ Node(c[g], g, j + 1) \in Nodes
      BY <2>1, <3>1, NodeIs
    <3>7. /\ k - 1 \in 0 .. Len(c[h]) + 1 /\ k + 1 \in 0 .. Len(c[h]) + 1 /\ k \in 0 .. Len(c[h]) + 1
          /\ before = Node(c[h], h, k - 1) /\ after = Node(c[h], h, k + 1) /\ e = Node(c[h], h, k)
      BY <1>1, <1>4, <1>5
    <3>3. Node(c[g], g, j) # e /\ Node(c[g], g, j + 1) # e
      <4>1. Node(c[g], g, j) # e
        BY <1>1, <1>2, <2>1, <2>2, <3>1, <3>7, NodesDiffer
      <4>2. Node(c[g], g, j + 1) # e
        BY <1>1, <1>2, <2>1, <2>2, <3>1, <3>7, NodesDiffer
      <4> QED BY <4>1, <4>2
    <3>4. Node(c[g], g, j) # before
      BY <1>1, <1>2, <2>1, <2>2, <3>1, <3>7, NodesDiffer
    <3>5. Node(c[g], g, j + 1) # after
      BY <1>1, <1>2, <2>1, <2>2, <3>1, <3>7, NodesDiffer
    <3>6. l.next[Node(c[g], g, j)] = Node(c[g], g, j + 1) /\ l.prev[Node(c[g], g, j + 1)] = Node(c[g], g, j)
      BY DEF InOrder
    <3> QED BY <1>9, <3>2, <3>3, <3>4, <3>5, <3>6
  <2>3. CASE g # h
    <3>1. i \in 0 .. Len(c[g]) /\ d[g] = c[g]
      BY <1>3, <2>3
    <3> QED BY <2>2, <2>3, <3>1
  <2>4. CASE g = h
    <3>1. i \in 0 .. Len(s) - 1 /\ i \in 0 .. Len(s) /\ i + 1 \in 0 .. Len(s)
      BY <1>2, <1>3, <2>4
    <3>2. CASE i < k - 1
      <4>0. i < k /\ i + 1 < k
        BY <1>2, <3>1, <3>2
      <4>1. Node(d[h], h, i) = Node(s, h, i) /\ Node(d[h], h, i + 1) = Node(s, h, i + 1)
        <5>1. Node(d[h], h, i) = Node(s, h, i)
          BY <1>10, <3>1, <4>0
        <5>2. Node(d[h], h, i + 1) = Node(s, h, i + 1)
          BY <1>10, <3>1, <4>0
        <5> QED BY <5>1, <5>2
      <4>2. i \in 0 .. Len(c[g]) /\ i \notin {k - 1, k} /\ s = c[g]
        BY <1>1, <1>2, <2>4, <3>1, <3>2
      <4>3. /\ rest.next[Node(c[g], g, i)] = Node(c[g], g, i + 1)
            /\ rest.prev[Node(c[g], g, i + 1)] = Node(c[g], g, i)
        BY <2>2, <4>2
      <4> QED BY <2>4, <4>1, <4>2, <4>3
    <3>3. CASE i = k - 1
      <4>1. Node(d[h], h, i) = Node(s, h, k - 1)
        BY <1>2, <1>10, <3>1, <3>3
      <4>2. Node(d[h], h, i + 1) = Node(s, h, k + 1)
        BY <1>2, <1>10, <3>1, <3>3
      <4> QED BY <1>1, <1>9, <2>4, <4>1, <4>2
    <3>4. CASE i >= k
      <4>1. PICK j : j = i + 1
        OBVIOUS
      <4>2. j \in 0 .. Len(c[g]) /\ j \notin {k - 1, k}
        BY <1>1, <1>2, <2>4, <3>1, <3>4, <4>1
      <4>3. Node(d[h], h, i) = Node(s, h, j)
        BY <1>2, <1>10, <3>1, <3>4, <4>1
      <4>4. Node(d[h], h, i + 1) = Node(s, h, j + 1)
        BY <1>2, <1>10, <3>1, <3>4, <4>1
      <4> QED BY <1>1, <2>2, <2>4, <4>2, <4>3, <4>4
    <3> QED BY <1>2, <3>1, <3>2, <3>3, <3>4
  <2> QED BY <2>3, <2>4
<1>12. \A i \in 1 .. Len(s) - 1 : d[h][i] = IF i < k THEN s[i] ELSE s[i + 1]
  BY <1>3 DEF Deleted
<1>13. \A a, b \in Heads : \A u \in 1 .. Len(c[a]), v \in 1 .. Len(c[b]) :
          c[a][u] = c[b][v] => a = b /\ u = v
  BY DEF InOrder
<1>14. ASSUME NEW f \in Heads, NEW g \in Heads, NEW i \in 1 .. Len(d[f]), NEW j \in 1 .. Len(d[g]),
              d[f][i] = d[g][j]
       PROVE  f = g /\ i = j
  <2>1. ASSUME NEW m \in Heads, NEW x \in 1 .. Len(d[m])
        PROVE  \E y \in 1 .. Len(c[m]) : d[m][x] = c[m][y] /\ y = IF m = h /\ x >= k THEN x + 1 ELSE x
    <3>1. CASE m = h
      <4>1. PICK y : y = IF x >= k THEN x + 1 ELSE x
        OBVIOUS
      <4>2. x \in 1 .. Len(s) - 1
        BY <1>3, <3>1
      <4>3. y \in 1 .. Len(s) /\ d[h][x] = s[y]
        <5>1. d[h][x] = IF x < k THEN s[x] ELSE s[x + 1]
          BY <1>12, <4>2
        <5>2. x \in Nat /\ x >= 1 /\ x <= Len(s) - 1 /\ k \in Nat /\ Len(s) \in Nat
          BY <1>2, <4>2
        <5>3. CASE x >= k
          <6>1. y = x + 1 /\ d[h][x] = s[x + 1]
            BY <4>1, <5>1, <5>2, <5>3
          <6> QED BY <5>2, <6>1
        <5>4. CASE x < k
          <6>1. y = x /\ d[h][x] = s[x]
            BY <4>1, <5>1, <5>2, <5>4
          <6> QED BY <5>2, <6>1
        <5> QED BY <5>2, <5>3, <5>4
      <4> QED BY <1>1, <3>1, <4>1, <4>3
    <3>2. CASE m # h
      BY <1>3, <3>2
    <3> QED BY <3>1, <3>2
  <2>2. PICK y \in 1 .. Len(c[f]) : d[f][i] = c[f][y] /\ y = IF f = h /\ i >= k THEN i + 1 ELSE i
    BY <2>1
  <2>3. PICK z \in 1 .. Len(c[g]) : d[g][j] = c[g][z] /\ z = IF g = h /\ j >= k THEN j + 1 ELSE j
    BY <2>1
  <2>4. f = g /\ y = z
    <3>1. c[f][y] = c[g][z]
      BY <1>14, <2>2, <2>3
    <3> QED BY <1>13, <3>1
  <2>5. i \in Nat /\ j \in Nat /\ k \in Nat
    BY <1>2
  <2> QED BY <2>2, <2>3, <2>4, <2>5
<1>15. ASSUME NEW x \in Entries, rest.next[x] # NULL
       PROVE  \E g \in Heads : \E i \in 1 .. Len(d[g]) : d[g][i] = x
  <2>1. x # e /\ x \in Nodes
    BY <1>5, <1>9, <1>15
  <2>2. l.next[x] # NULL
    <3>1. x = before => l.next[x] = e
      <4>1. l.next[Node(c[h], h, k - 1)] = Node(c[h], h, (k - 1) + 1)
        BY <1>1, <1>4 DEF InOrder
      <4> QED BY <1>1, <1>4, <1>5, <4>1
    <3> QED BY <1>5, <1>9, <1>15, <2>1, <3>1, ListConstants DEF Nodes
  <2>3. PICK g \in Heads : \E i \in 1 .. Len(c[g]) : c[g][i] = x
    BY <2>2 DEF InOrder
  <2>4. PICK i \in 1 .. Len(c[g]) : c[g][i] = x
    BY <2>3
  <2>5. CASE g # h
    BY <1>3, <2>4, <2>5
  <2>6. CASE g = h
    <3>1. PICK j : j = IF i < k THEN i ELSE i - 1
      OBVIOUS
    <3>2. i # k
      BY <1>1, <2>1, <2>4, <2>6
    <3>3. j \in 1 .. Len(s) - 1 /\ d[h][j] = s[i]
      BY <1>1, <1>2, <1>12, <2>4, <2>6, <3>1, <3>2
    <3> QED BY <1>1, <1>3, <2>4, <2>6, <3>3
  <2> QED BY <2>5, <2>6
<1>16. \A x \in Entries : rest.next[x] = NULL <=> rest.prev[x] = NULL
  <2> SUFFICES ASSUME NEW x \in Entries PROVE rest.next[x] = NULL <=> rest.prev[x] = NULL
    OBVIOUS
  <2>1. l.next[x] = NULL <=> l.prev[x] = NULL
    BY DEF InOrder
  <2>2. NULL \notin Nodes /\ x \in Nodes
    BY <1>5, ListConstants DEF Nodes
  <2>3. x = before => l.next[x] = e
    <3>1. l.next[Node(c[h], h, k - 1)] = Node(c[h], h, (k - 1) + 1)
      BY <1>1, <1>4 DEF InOrder
    <3> QED BY <1>1, <1>4, <1>5, <3>1
  <2>4. x = after => l.prev[x] = e
    <3>1. l.prev[Node(c[h], h, k + 1)] = Node(c[h], h, k)
      BY <1>1, <1>4 DEF InOrder
    <3> QED BY <1>1, <1>5, <3>1
  <2> QED BY <1>5, <1>9, <2>1, <2>2, <2>3, <2>4
<1>17. InOrder(rest, d)
  <2>1. {rest.next, rest.prev} \subseteq [Nodes -> Nodes \cup {NULL}] /\ d \in [Heads -> Seq(Entries)]
    BY <1>3, <1>9
  <2> QED BY <2>1, <1>11, <1>14, <1>15, <1>16 DEF InOrder
<1> QED BY <1>1, <1>5, <1>9, <1>17

----------------------------------------------------------------------------
\* What is reached from the heads is what the links are in the order of.
LEMMA ReachedIs ==
  ASSUME NEW c, InOrder(Links, c), NEW h \in Heads
  PROVE  Reached(h) = c[h]
<1>1. PICK t : t = c[h]
  OBVIOUS
<1>2. /\ t \in Seq(Entries) /\ Len(t) \in Nat /\ \A i \in 1 .. Len(t) : t[i] \in Entries
      /\ \A i, j \in 1 .. Len(t) : t[i] = t[j] => i = j
  <2>1. t \in Seq(Entries)
    BY <1>1 DEF InOrder
  <2>2. \A i, j \in 1 .. Len(t) : t[i] = t[j] => i = j
    BY <1>1 DEF InOrder
  <2> QED BY <2>1, <2>2, LenProperties, ElementOfSeq
<1>3. t \in OnceEach
  <2>1. Len(t) <= Cardinality(Entries)
    <3>1. IsFiniteSet(Entries) /\ IsFiniteSet(1 .. Len(t)) /\ Cardinality(1 .. Len(t)) = Len(t)
      <4>1. 1 \in Int /\ Len(t) \in Int
        BY <1>2
      <4>2. Len(t) = IF 1 > Len(t) THEN 0 ELSE Len(t) - 1 + 1
        BY <1>2
      <4> QED BY <4>1, <4>2, FS_Interval, ListConstants
    <3>2. t \in [1 .. Len(t) -> Entries]
      BY <1>2
    <3>3. Cardinality(Entries) \in Nat
      BY <3>1, FS_CardinalityType
    <3>4. ASSUME Cardinality(Entries) < Len(t) PROVE FALSE
      <4>1. \E i, j \in 1 .. Len(t) : i # j /\ t[i] = t[j]
        BY <3>1, <3>2, <3>4, FS_PigeonHole
      <4> QED BY <1>2, <4>1
    <3> QED BY <1>2, <3>3, <3>4
  <2>2. Cardinality(Entries) \in Nat
    BY ListConstants, FS_CardinalityType
  <2>3. t \in [1 .. Len(t) -> Entries] /\ Len(t) \in 0 .. Cardinality(Entries)
    BY <1>2, <2>1, <2>2
  <2> QED BY <1>2, <2>3 DEF OnceEach
<1>4. Along(h, t)
  BY <1>1 DEF Along, InOrder, Links
<1>5. ASSUME NEW s \in OnceEach, Along(h, s) PROVE s = t
  <2>1. s \in Seq(Entries) /\ Len(s) \in Nat
    <3>1. PICK k \in 0 .. Cardinality(Entries) : s \in [1 .. k -> Entries]
      BY DEF OnceEach
    <3>2. k \in Nat
      BY <3>1, ListConstants, FS_CardinalityType
    <3> QED BY <3>1, <3>2
  \* The two go the same way, as long as neither is at its end.
  <2>2. \A m \in Nat : m <= Len(s) + 1 /\ m <= Len(t) + 1 => Node(s, h, m) = Node(t, h, m)
    <3> DEFINE Off == {m \in Nat : /\ m <= Len(s) + 1 /\ m <= Len(t) + 1
                                    /\ Node(s, h, m) # Node(t, h, m)}
    <3>1. SUFFICES ASSUME Off # {} PROVE FALSE
      OBVIOUS
    <3>2. PICK m \in Off : \A k \in Off : m <= k
      <4>1. Off \subseteq Nat
        OBVIOUS
      <4> QED BY <3>1, <4>1, LeastNat
    <3>3. m # 0
      <4>1. Node(s, h, 0) = h /\ Node(t, h, 0) = h
        BY DEF Node
      <4> QED BY <3>2, <4>1
    <3>4. PICK k : k = m - 1
      OBVIOUS
    <3>5. k \in Nat /\ m = k + 1 /\ k \in 0 .. Len(s) /\ k \in 0 .. Len(t) /\ k \notin Off
      BY <1>2, <2>1, <3>2, <3>3, <3>4
    <3>6. Node(s, h, k) = Node(t, h, k)
      BY <1>2, <2>1, <3>5
    <3>7. next[Node(s, h, k)] = Node(s, h, k + 1) /\ next[Node(t, h, k)] = Node(t, h, k + 1)
      BY <1>4, <1>5, <3>5 DEF Along
    <3> QED BY <3>2, <3>5, <3>6, <3>7
  <2>3. Len(s) >= Len(t)
    <3>1. SUFFICES ASSUME Len(s) < Len(t) PROVE FALSE
      BY <1>2, <2>1
    <3>2. Len(s) + 1 \in 1 .. Len(t) /\ Len(s) + 1 \in Nat
      BY <1>2, <2>1, <3>1
    <3>3. Node(s, h, Len(s) + 1) = h /\ Node(t, h, Len(s) + 1) = t[Len(s) + 1]
      BY <2>1, <3>2 DEF Node
    <3>4. h \in Entries
      BY <1>2, <2>2, <3>2, <3>3
    <3> QED BY <3>4, ListConstants
  <2>4. Len(t) >= Len(s)
    <3>1. SUFFICES ASSUME Len(t) < Len(s) PROVE FALSE
      BY <1>2, <2>1
    <3>2. Len(t) + 1 \in 1 .. Len(s) /\ Len(t) + 1 \in Nat
      BY <1>2, <2>1, <3>1
    <3>3. Node(t, h, Len(t) + 1) = h /\ Node(s, h, Len(t) + 1) = s[Len(t) + 1]
      BY <1>2, <3>2 DEF Node
    <3>4. h = s[Len(t) + 1]
      BY <1>2, <2>1, <2>2, <3>2, <3>3
    <3>5. h \in Entries
      BY <2>1, <3>2, <3>4, ElementOfSeq
    <3> QED BY <3>5, ListConstants
  <2>5. Len(s) = Len(t)
    BY <1>2, <2>1, <2>3, <2>4
  <2>6. ASSUME NEW i \in 1 .. Len(s) PROVE s[i] = t[i]
    <3>1. i \in Nat /\ i <= Len(s) + 1 /\ i <= Len(t) + 1 /\ i \in 1 .. Len(t)
      BY <2>1, <2>5
    <3>2. Node(s, h, i) = s[i] /\ Node(t, h, i) = t[i]
      BY <3>1 DEF Node
    <3> QED BY <2>2, <3>1, <3>2
  <2> QED BY <1>2, <2>1, <2>5, <2>6, SeqEqual
<1>6. Reached(h) = t
  <2>1. \E s \in OnceEach : Along(h, s)
    BY <1>3, <1>4
  <2>2. PICK u : u = CHOOSE s \in OnceEach : Along(h, s)
    OBVIOUS
  <2>3. u \in OnceEach /\ Along(h, u)
    BY <2>1, <2>2
  <2>4. u = t
    BY <1>5, <2>3
  <2> QED BY <2>1, <2>2, <2>4 DEF Reached
<1> QED BY <1>1, <1>6

----------------------------------------------------------------------------
\* A node that is linked has a next one and a previous one, which agree; it is its own
\* next only as the head of an empty list.
LEMMA NeighboursAgree ==
  ASSUME NEW l, NEW c, InOrder(l, c), NEW x \in Nodes, l.next[x] # NULL
  PROVE  /\ l.next[x] \in Nodes /\ l.prev[l.next[x]] = x /\ l.next[l.next[x]] # NULL
         /\ l.prev[x] \in Nodes /\ l.next[l.prev[x]] = x /\ l.next[l.prev[x]] # NULL
         /\ l.prev[x] # NULL
         /\ l.next[x] \in Entries => l.next[x] # x
<1>1. PICK g \in Heads : \E i \in 0 .. Len(c[g]) : x = Node(c[g], g, i)
  <2>1. CASE x \in Heads
    <3>1. c[x] \in Seq(Entries)
      BY <2>1 DEF InOrder
    <3>2. 0 \in 0 .. Len(c[x]) /\ x = Node(c[x], x, 0)
      BY <3>1, LenProperties DEF Node
    <3> QED BY <2>1, <3>2
  <2>2. CASE x \in Entries
    <3>1. PICK h \in Heads : \E i \in 1 .. Len(c[h]) : c[h][i] = x
      BY <2>2 DEF InOrder
    <3>2. PICK i \in 1 .. Len(c[h]) : c[h][i] = x
      BY <3>1
    <3>3. c[h] \in Seq(Entries)
      BY DEF InOrder
    <3>4. i \in 0 .. Len(c[h]) /\ Node(c[h], h, i) = c[h][i]
      BY <3>3, LenProperties DEF Node
    <3> QED BY <3>2, <3>4
  <2> QED BY <2>1, <2>2 DEF Nodes
<1>2. PICK i \in 0 .. Len(c[g]) : x = Node(c[g], g, i)
  BY <1>1
<1>3. PICK s : s = c[g] /\ s \in Seq(Entries) /\ Len(s) \in Nat
  BY LenProperties DEF InOrder
<1>4. \A k \in 0 .. Len(s) :
         l.next[Node(s, g, k)] = Node(s, g, k + 1) /\ l.prev[Node(s, g, k + 1)] = Node(s, g, k)
  BY <1>3 DEF InOrder
<1>5. NULL \notin Nodes
  BY ListConstants DEF Nodes
<1>6. PICK y : y = Node(s, g, i + 1)
  OBVIOUS
<1>7. y \in Nodes /\ l.next[x] = y /\ l.prev[y] = x
  BY <1>2, <1>3, <1>4, <1>6, NodeIs
<1>8. l.next[y] # NULL
  <2>1. CASE i < Len(s)
    <3>1. i + 1 \in 0 .. Len(s) /\ (i + 1) + 1 \in 0 .. Len(s) + 1
      BY <1>2, <1>3, <2>1
    <3>2. l.next[y] = Node(s, g, (i + 1) + 1)
      BY <1>4, <1>6, <3>1
    <3> QED BY <1>3, <1>5, <3>1, <3>2, NodeIs
  <2>2. CASE i = Len(s)
    <3>1. y = Node(s, g, 0) /\ 0 \in 0 .. Len(s) /\ 0 + 1 \in 0 .. Len(s) + 1
      BY <1>3, <1>6, <2>2 DEF Node
    <3>2. l.next[y] = Node(s, g, 0 + 1)
      BY <1>4, <3>1
    <3> QED BY <1>3, <1>5, <3>1, <3>2, NodeIs
  <2> QED BY <1>2, <1>3, <2>1, <2>2
<1>9. PICK z \in Nodes : l.prev[x] = z /\ l.next[z] = x
  <2>1. CASE i > 0
    <3>1. i - 1 \in 0 .. Len(s) /\ (i - 1) + 1 = i /\ i - 1 \in 0 .. Len(s) + 1
      BY <1>2, <1>3, <2>1
    <3>2. l.next[Node(s, g, i - 1)] = Node(s, g, (i - 1) + 1) /\ l.prev[Node(s, g, (i - 1) + 1)] = Node(s, g, i - 1)
      BY <1>4, <3>1
    <3>3. Node(s, g, i - 1) \in Nodes
      BY <1>3, <3>1, NodeIs
    <3> QED BY <1>2, <1>3, <3>1, <3>2, <3>3
  <2>2. CASE i = 0
    <3>1. x = Node(s, g, Len(s) + 1) /\ Len(s) \in 0 .. Len(s) /\ Len(s) \in 0 .. Len(s) + 1
      BY <1>2, <1>3, <2>2 DEF Node
    <3>2. l.next[Node(s, g, Len(s))] = x /\ l.prev[x] = Node(s, g, Len(s))
      BY <1>4, <3>1
    <3>3. Node(s, g, Len(s)) \in Nodes
      BY <1>3, <3>1, NodeIs
    <3> QED BY <3>2, <3>3
  <2> QED BY <1>2, <1>3, <2>1, <2>2
<1>10. y \in Entries => y # x
  <2>1. i + 1 \in 0 .. Len(s) + 1 /\ i \in 0 .. Len(s) + 1 /\ i # i + 1
    BY <1>2, <1>3
  <2>2. y \in Entries => i + 1 \in 1 .. Len(s)
    BY <1>3, <1>6, <2>1, NodeIs
  <2>3. y = x => (i \in {0, Len(s) + 1} /\ i + 1 \in {0, Len(s) + 1})
    BY <1>2, <1>3, <1>6, <2>1, NodesDiffer
  <2> QED BY <1>2, <1>3, <2>2, <2>3
<1> QED BY <1>5, <1>7, <1>8, <1>9, <1>10

\* The links of a head are set.
LEMMA HeadsAreLinked ==
  ASSUME NEW l, NEW c, InOrder(l, c), NEW h \in Heads
  PROVE  /\ l.next[h] # NULL /\ c[h] \in Seq(Entries) /\ Len(c[h]) \in Nat
         /\ h = Node(c[h], h, 0) /\ l.next[h] = Node(c[h], h, 1)
         /\ h = Node(c[h], h, Len(c[h]) + 1) /\ l.prev[h] = Node(c[h], h, Len(c[h]))
         /\ l.next[h] = h <=> c[h] = << >>
<1>1. c[h] \in Seq(Entries)
  BY DEF InOrder
<1>2. Len(c[h]) \in Nat
  BY <1>1, LenProperties
<1>3. h = Node(c[h], h, 0) /\ h = Node(c[h], h, Len(c[h]) + 1)
  BY <1>2 DEF Node
<1>4. 0 \in 0 .. Len(c[h]) /\ Len(c[h]) \in 0 .. Len(c[h]) /\ 0 + 1 = 1 /\ 1 \in 0 .. Len(c[h]) + 1
  BY <1>2
<1>5. l.next[Node(c[h], h, 0)] = Node(c[h], h, 0 + 1)
  BY <1>4 DEF InOrder
<1>6. l.prev[Node(c[h], h, Len(c[h]) + 1)] = Node(c[h], h, Len(c[h]))
  BY <1>4 DEF InOrder
<1>7. Node(c[h], h, 1) \in Nodes
  BY <1>1, <1>4, NodeIs
<1>8. Node(c[h], h, 1) = h <=> c[h] = << >>
  <2>1. CASE c[h] = << >>
    BY <2>1 DEF Node
  <2>2. CASE c[h] # << >>
    <3>1. 1 \in 1 .. Len(c[h])
      <4>1. Len(c[h]) # 0
        BY <1>1, <2>2, EmptySeq
      <4> QED BY <1>2, <4>1
    <3>2. Node(c[h], h, 1) \in Entries
      BY <1>1, <1>4, <3>1, NodeIs
    <3> QED BY <2>2, <3>2, ListConstants
  <2> QED BY <2>1, <2>2
<1> QED BY <1>1, <1>2, <1>3, <1>4, <1>5, <1>6, <1>7, <1>8, ListConstants DEF Nodes

\* list_add puts an entry before the first of a list, list_add_tail behind its last.
LEMMA AddIs ==
  ASSUME NEW l, NEW c, InOrder(l, c), NEW h \in Heads, NEW e \in Entries, l.next[e] = NULL
  PROVE  /\ InOrder(Add(l, e, h, l.next[h]), [c EXCEPT ![h] = <<e>> \o c[h]])
         /\ InOrder(Add(l, e, l.prev[h], h), [c EXCEPT ![h] = Append(c[h], e)])
<1>1. PICK s : s = c[h] /\ s \in Seq(Entries) /\ Len(s) \in Nat
  BY HeadsAreLinked
<1>2. /\ h = Node(s, h, 0) /\ l.next[h] = Node(s, h, 0 + 1) /\ 0 \in 0 .. Len(s)
      /\ h = Node(s, h, Len(s) + 1) /\ l.prev[h] = Node(s, h, Len(s)) /\ Len(s) \in 0 .. Len(s)
  BY <1>1, HeadsAreLinked
<1>3. InOrder(Add(l, e, Node(c[h], h, 0), Node(c[h], h, 0 + 1)), [c EXCEPT ![h] = Inserted(c[h], 0, e)])
  BY <1>1, <1>2, AddKeepsOrder
<1>4. InOrder(Add(l, e, Node(c[h], h, Len(s)), Node(c[h], h, Len(s) + 1)),
              [c EXCEPT ![h] = Inserted(c[h], Len(s), e)])
  BY <1>1, <1>2, AddKeepsOrder
<1>5. Inserted(s, 0, e) = <<e>> \o s
  BY <1>1, <1>2, InsertedIs
<1>6. Inserted(s, Len(s), e) = Append(s, e)
  BY <1>1, <1>2, InsertedIs
<1> QED BY <1>1, <1>2, <1>3, <1>4, <1>5, <1>6

\* The lists without the k-th entry of one, and with an entry last in one.
Taken(c, h, k) == [c EXCEPT ![h] = SubSeq(c[h], 1, k - 1) \o SubSeq(c[h], k + 1, Len(c[h]))]
Moved(c, h, k, g, e) == [Taken(c, h, k) EXCEPT ![g] = Append(Taken(c, h, k)[g], e)]

\* list_del takes an entry out of the list it is in, and list_move_tail puts it in another.
LEMMA DelIs ==
  ASSUME NEW l, NEW c, InOrder(l, c), NEW e \in Entries, l.next[e] # NULL
  PROVE  \E h \in Heads : \E k \in 1 .. Len(c[h]) :
            /\ c[h][k] = e
            /\ InOrder(Del(l, e), Taken(c, h, k))
            /\ \A g \in Heads : InOrder(MoveTail(l, e, g), Moved(c, h, k, g, e))
<1>1. PICK h \in Heads : \E k \in 1 .. Len(c[h]) : c[h][k] = e
  BY DEF InOrder
<1>2. PICK k \in 1 .. Len(c[h]) : c[h][k] = e
  BY <1>1
<1>3. Deleted(c[h], k) = SubSeq(c[h], 1, k - 1) \o SubSeq(c[h], k + 1, Len(c[h]))
  BY HeadsAreLinked, DeletedIs
<1>4. Taken(c, h, k) = [c EXCEPT ![h] = Deleted(c[h], k)]
  BY <1>3 DEF Taken
<1>5. InOrder(Del(l, e), Taken(c, h, k)) /\ Del(l, e).next[e] = NULL
  <2>1. InOrder(Del(l, e), [c EXCEPT ![h] = Deleted(c[h], k)]) /\ Del(l, e).next[e] = NULL
    BY <1>2, DelKeepsOrder
  <2> QED BY <1>4, <2>1
<1>6. ASSUME NEW g \in Heads PROVE InOrder(MoveTail(l, e, g), Moved(c, h, k, g, e))
  <2>1. PICK m, rest : m = Del(l, e) /\ rest = Taken(c, h, k)
    OBVIOUS
  <2>2. InOrder(Add(m, e, m.prev[g], g), [rest EXCEPT ![g] = Append(rest[g], e)])
    BY <1>5, <2>1, AddIs
  <2> QED BY <2>1, <2>2 DEF MoveTail, Moved
<1> QED BY <1>2, <1>5, <1>6

\* What a call links stays linked; only list_del unlinks, and nothing but its entry.
LEMMA StaysLinked ==
  ASSUME NEW l, NEW c, InOrder(l, c), NEW e \in Entries, NEW x \in Nodes, l.next[x] # NULL, NEW h \in Heads
  PROVE  /\ l.next[e] = NULL => /\ Add(l, e, h, l.next[h]).next[x] # NULL
                                /\ Add(l, e, l.prev[h], h).next[x] # NULL
         /\ (l.next[e] # NULL /\ x # e) => Del(l, e).next[x] # NULL
         /\ l.next[e] # NULL => MoveTail(l, e, h).next[x] # NULL
<1>1. l.next \in [Nodes -> Nodes \cup {NULL}]
  BY DEF InOrder
<1>2. l.next[h] # NULL
  BY HeadsAreLinked
<1>3. e \in Nodes /\ h \in Nodes /\ NULL \notin Nodes
  BY ListConstants DEF Nodes
<1>4. /\ Add(l, e, h, l.next[h]).next[x] # NULL
      /\ Add(l, e, l.prev[h], h).next[x] # NULL
  <2>1. l.prev[h] \in Nodes
    BY <1>2, <1>3, NeighboursAgree
  <2> QED BY <1>1, <1>2, <1>3, <2>1 DEF Add
<1>5. ASSUME l.next[e] # NULL, x # e PROVE Del(l, e).next[x] # NULL
  <2>1. l.prev[e] \in Nodes
    BY <1>3, <1>5, NeighboursAgree
  <2> QED BY <1>1, <1>3, <1>5, <2>1 DEF Del
<1>6. ASSUME l.next[e] # NULL PROVE MoveTail(l, e, h).next[x] # NULL
  <2>1. PICK rest : InOrder(Del(l, e), rest)
    <3>1. PICK g \in Heads : \E k \in 1 .. Len(c[g]) : c[g][k] = e
      BY <1>6 DEF InOrder
    <3>2. PICK k \in 1 .. Len(c[g]) : c[g][k] = e
      BY <3>1
    <3>3. InOrder(Del(l, e), [c EXCEPT ![g] = Deleted(c[g], k)])
      BY <3>2, DelKeepsOrder
    <3> QED BY <3>3
  <2>2. PICK m : m = Del(l, e)
    OBVIOUS
  <2>3. InOrder(m, rest)
    BY <2>1, <2>2
  <2>4. m.next[h] # NULL
    BY <2>3, HeadsAreLinked
  <2>8. m.next \in [Nodes -> Nodes \cup {NULL}]
    BY <2>3 DEF InOrder
  <2>5. m.prev[h] \in Nodes
    BY <1>3, <2>3, <2>4, NeighboursAgree
  <2>6. x # e => m.next[x] # NULL
    BY <1>5, <1>6, <2>2
  <2>7. Add(m, e, m.prev[h], h).next[x] # NULL
    BY <1>3, <2>4, <2>5, <2>6, <2>8 DEF Add
  <2> QED BY <2>2, <2>7 DEF MoveTail
<1> QED BY <1>4, <1>5, <1>6

----------------------------------------------------------------------------
Contents == [h \in Heads |-> Reached(h)]

\* In every state, the sequences of the abstract lists are those the links are in the order of.
LEMMA ContentsAre == \A c : InOrder(Links, c) => Contents = c
<1> SUFFICES ASSUME NEW c, InOrder(Links, c) PROVE Contents = c
  OBVIOUS
<1>1. \A h \in Heads : Reached(h) = c[h]
  BY ReachedIs
<1>2. c \in [Heads -> Seq(Entries)]
  BY DEF InOrder
<1> QED BY <1>1, <1>2 DEF Contents

\* The same in the state after a step.
LEMMA ContentsAreAfter == (\A c : InOrder(Links, c) => Contents = c)'
BY ContentsAre, PTL

\* From lists in order to lists in order, along a call of the abstract lists.
LEMMA OrderedStep ==
  ASSUME NEW c, NEW d, InOrder(Links, c), InOrder(Links', d)
  PROVE  Contents = c /\ Contents' = d
<1>1. Contents = c
  BY ContentsAre
<1>2. Contents' = d
  BY ContentsAreAfter
<1> QED BY <1>1, <1>2

\* An entry without links is in no list.
LEMMA NotListed ==
  ASSUME NEW c, InOrder(Links, c), NEW e \in Entries, next[e] = NULL
  PROVE  \A h \in Heads : \A i \in 1 .. Len(c[h]) : c[h][i] # e
<1> SUFFICES ASSUME NEW h \in Heads, NEW i \in 1 .. Len(c[h]), c[h][i] = e PROVE FALSE
  OBVIOUS
<1>1. c[h] \in Seq(Entries) /\ Len(c[h]) \in Nat
  BY HeadsAreLinked
<1>2. i \in 0 .. Len(c[h]) /\ i + 1 \in 0 .. Len(c[h]) + 1 /\ Node(c[h], h, i) = e
  BY <1>1 DEF Node
<1>3. next[Node(c[h], h, i)] = Node(c[h], h, i + 1)
  BY <1>2 DEF InOrder, Links
<1>4. Node(c[h], h, i + 1) \in Nodes
  BY <1>1, <1>2, NodeIs
<1> QED BY <1>2, <1>3, <1>4, ListConstants DEF Nodes

\* The same, of the abstract lists.
LEMMA SetsOfLists ==
  ASSUME NEW c, InOrder(Links, c), NEW e \in Entries, next[e] = NULL
  PROVE  e \notin Abstract!Listed
<1>1. Contents = c
  BY ContentsAre
<1>2. \A h \in Heads : \A i \in 1 .. Len(c[h]) : c[h][i] # e
  BY NotListed
<1>3. \A h \in Heads : DOMAIN c[h] = 1 .. Len(c[h])
  <2>1. \A h \in Heads : c[h] \in Seq(Entries)
    BY DEF InOrder
  <2> QED BY <2>1, LenProperties
<1>4. \A h \in Heads : e \notin {c[h][i] : i \in DOMAIN c[h]}
  BY <1>2, <1>3
<1> QED BY <1>1, <1>4 DEF Abstract!Listed, Abstract!ToSet, Contents

----------------------------------------------------------------------------
\* Each call, on lists in order: the links after it are in an order the abstract lists
\* come to by the same call.
LEMMA AddStep ==
  ASSUME NEW c, InOrder(Links, c), NEW h \in Heads, NEW e \in Entries, list_add(e, h)
  PROVE  /\ \E d : InOrder(Links', d)
         /\ Abstract!SeqAdd(e, h)
<1>1. PICK d : d = [c EXCEPT ![h] = <<e>> \o c[h]]
  OBVIOUS
<1>2. Links' = Add(Links, e, h, next[h]) /\ next[e] = NULL /\ Links.next = next
  BY DEF list_add, Becomes, Add, Links, Linked
<1>3. InOrder(Links', d)
  BY <1>1, <1>2, AddIs
<1>4. Contents = c /\ Contents' = d
  BY <1>3, OrderedStep
<1>5. e \notin Abstract!Listed
  BY <1>2, SetsOfLists
<1> QED BY <1>1, <1>3, <1>4, <1>5 DEF Abstract!SeqAdd, Contents

\* list_add_tail: the entry is the last of the abstract list.
LEMMA AddTailStep ==
  ASSUME NEW c, InOrder(Links, c), NEW h \in Heads, NEW e \in Entries, list_add_tail(e, h)
  PROVE  /\ \E d : InOrder(Links', d)
         /\ Abstract!SeqAddTail(e, h)
<1>1. PICK d : d = [c EXCEPT ![h] = Append(c[h], e)]
  OBVIOUS
<1>2. Links' = Add(Links, e, prev[h], h) /\ next[e] = NULL /\ Links.next = next /\ Links.prev = prev
  BY DEF list_add_tail, Becomes, Add, Links, Linked
<1>3. InOrder(Links', d)
  BY <1>1, <1>2, AddIs
<1>4. Contents = c /\ Contents' = d
  BY <1>3, OrderedStep
<1>5. e \notin Abstract!Listed
  BY <1>2, SetsOfLists
<1> QED BY <1>1, <1>3, <1>4, <1>5 DEF Abstract!SeqAddTail, Contents

\* list_del: the abstract list is without the entry.
LEMMA DelStep ==
  ASSUME NEW c, InOrder(Links, c), NEW e \in Entries, list_del(e)
  PROVE  /\ \E d : InOrder(Links', d)
         /\ Abstract!SeqDel(e)
<1>1. Links' = Del(Links, e) /\ Links.next = next /\ next[e] # NULL
  BY DEF list_del, Becomes, Del, Links, Linked, MayRemove
<1>2. PICK h \in Heads : \E k \in 1 .. Len(c[h]) : c[h][k] = e /\ InOrder(Del(Links, e), Taken(c, h, k))
  BY <1>1, DelIs
<1>3. PICK k \in 1 .. Len(c[h]) : c[h][k] = e /\ InOrder(Del(Links, e), Taken(c, h, k))
  BY <1>2
<1>4. PICK d : d = Taken(c, h, k)
  OBVIOUS
<1>5. InOrder(Links', d)
  BY <1>1, <1>3, <1>4
<1>6. Contents = c /\ Contents' = d
  BY <1>5, OrderedStep
<1>7. k \in DOMAIN c[h]
  BY HeadsAreLinked, LenProperties
<1>8. d = Abstract!Without(h, k)
  BY <1>4, <1>6 DEF Abstract!Without, Abstract!RemoveAt, Contents, Taken
<1> QED BY <1>3, <1>5, <1>6, <1>7, <1>8 DEF Abstract!SeqDel, Contents

\* Taking an entry out of its list and putting it last in one.
LEMMA MoveStep ==
  ASSUME NEW c, InOrder(Links, c), NEW h \in Heads, NEW e \in Entries, next[e] # NULL,
         Becomes(MoveTail(Links, e, h))
  PROVE  \E g \in Heads : \E k \in 1 .. Len(c[g]) : c[g][k] = e /\ InOrder(Links', Moved(c, g, k, h, e))
<1>1. Links' = MoveTail(Links, e, h) /\ Links.next = next
  BY DEF Becomes, MoveTail, Add, Links
<1>2. PICK g \in Heads : \E k \in 1 .. Len(c[g]) :
         c[g][k] = e /\ \A f \in Heads : InOrder(MoveTail(Links, e, f), Moved(c, g, k, f, e))
  BY <1>1, DelIs
<1> QED BY <1>1, <1>2

\* list_move_tail: the entry leaves its abstract list and is the last of the other.
LEMMA MoveTailStep ==
  ASSUME NEW c, InOrder(Links, c), NEW h \in Heads, NEW e \in Entries, list_move_tail(e, h)
  PROVE  /\ \E d : InOrder(Links', d)
         /\ Abstract!SeqMoveTail(e, h)
<1>1. next[e] # NULL /\ Becomes(MoveTail(Links, e, h))
  BY DEF list_move_tail, Linked, MayRemove
<1>2. PICK g \in Heads : \E k \in 1 .. Len(c[g]) : c[g][k] = e /\ InOrder(Links', Moved(c, g, k, h, e))
  BY <1>1, MoveStep
<1>3. PICK k \in 1 .. Len(c[g]) : c[g][k] = e /\ InOrder(Links', Moved(c, g, k, h, e))
  BY <1>2
<1>4. PICK d : d = Moved(c, g, k, h, e)
  OBVIOUS
<1>5. Contents = c /\ Contents' = d
  BY <1>3, <1>4, OrderedStep
<1>6. k \in DOMAIN c[g]
  BY HeadsAreLinked, LenProperties
<1>7. Taken(c, g, k) = Abstract!Without(g, k)
  BY <1>5 DEF Abstract!Without, Abstract!RemoveAt, Contents, Taken
<1>8. d = [Abstract!Without(g, k) EXCEPT ![h] = Append(@, e)]
  BY <1>4, <1>7 DEF Moved
<1>9. /\ Contents' = [Abstract!Without(g, k) EXCEPT ![h] = Append(@, e)]
      /\ k \in DOMAIN Contents[g] /\ Contents[g][k] = e
  BY <1>3, <1>5, <1>6, <1>8
<1>10. InOrder(Links', d)
  BY <1>3, <1>4
<1> QED BY <1>9, <1>10 DEF Abstract!SeqMoveTail, Contents

\* list_rotate_left: the first of the abstract list is now its last.
LEMMA RotateStep ==
  ASSUME NEW c, InOrder(Links, c), NEW h \in Heads, list_rotate_left(h)
  PROVE  /\ \E d : InOrder(Links', d)
         /\ Abstract!SeqRotate(h)
<1>1. PICK e : e = next[h]
  OBVIOUS
<1>2. e # h /\ Becomes(MoveTail(Links, e, h)) /\ Links.next = next
  BY <1>1 DEF list_rotate_left, list_empty, Links
<1>3. c[h] \in Seq(Entries) /\ c[h] # << >> /\ Len(c[h]) \in Nat /\ e = Node(c[h], h, 1) /\ next[h] # NULL
  BY <1>1, <1>2, HeadsAreLinked
<1>4. Len(c[h]) # 0
  BY <1>3, EmptySeq
<1>5. 1 \in 1 .. Len(c[h]) /\ e = c[h][1] /\ e \in Entries
  BY <1>3, <1>4, ElementOfSeq DEF Node
<1>6. next[e] # NULL
  <2>1. h \in Nodes /\ Links.next[h] # NULL
    BY <1>2, <1>3 DEF Nodes
  <2>2. Links.next[Links.next[h]] # NULL
    BY <2>1, NeighboursAgree
  <2> QED BY <1>1, <1>2, <2>2
<1>7. PICK g \in Heads : \E k \in 1 .. Len(c[g]) : c[g][k] = e /\ InOrder(Links', Moved(c, g, k, h, e))
  BY <1>2, <1>5, <1>6, MoveStep
<1>8. PICK k \in 1 .. Len(c[g]) : c[g][k] = e /\ InOrder(Links', Moved(c, g, k, h, e))
  BY <1>7
<1>9. g = h /\ k = 1
  <2>1. c[g][k] = c[h][1]
    BY <1>5, <1>8
  <2> QED BY <1>5, <2>1 DEF InOrder
<1>10. Taken(c, h, 1) = [c EXCEPT ![h] = Tail(c[h])]
  <2>1. SubSeq(c[h], 1, 1 - 1) = << >> /\ SubSeq(c[h], 1 + 1, Len(c[h])) = Tail(c[h])
    BY <1>3, <1>4
  <2>2. Tail(c[h]) \in Seq(Entries)
    BY <1>3, HeadTailProperties
  <2>3. << >> \o Tail(c[h]) = Tail(c[h])
    BY <2>2, ConcatEmptySeq
  <2> QED BY <2>1, <2>3 DEF Taken
<1>11. PICK d : d = [c EXCEPT ![h] = Append(Tail(c[h]), Head(c[h]))]
  OBVIOUS
<1>12. Moved(c, h, 1, h, e) = d
  <2>1. Head(c[h]) = e
    BY <1>3, <1>5
  <2>2. c \in [Heads -> Seq(Entries)]
    BY DEF InOrder
  <2> QED BY <1>10, <1>11, <2>1, <2>2 DEF Moved
<1>13. InOrder(Links', d)
  BY <1>8, <1>9, <1>12
<1>14. Contents = c /\ Contents' = d
  BY <1>13, OrderedStep
<1> QED BY <1>3, <1>11, <1>13, <1>14 DEF Abstract!SeqRotate, Contents

----------------------------------------------------------------------------
\* The walk of list_for_each_safe goes on from one linked node to another, over every
\* call that may be made in its body.
LEMMA WalkStep ==
  ASSUME NEW c, InOrder(Links, c), WalkInv, [ListNext]_list_vars
  PROVE  WalkInv'
<1>1. Links.next = next /\ Links.prev = prev
  BY DEF Links
<1>2. /\ \A x \in Nodes : next[x] # NULL =>
            /\ next[x] \in Nodes /\ next[next[x]] # NULL
            /\ next[x] \in Entries => next[x] # x
  BY <1>1, NeighboursAgree
<1>3. \A h \in Heads : next[h] # NULL
  BY <1>1, HeadsAreLinked
<1>4. Heads \subseteq Nodes /\ NULL \notin Nodes /\ Entries \subseteq Nodes
  BY ListConstants DEF Nodes
<1>5. ASSUME UNCHANGED <<walked, pos, n>>,
             \A x \in Nodes : (walked # NULL /\ x = n /\ next[x] # NULL) => next'[x] # NULL
      PROVE  WalkInv'
  BY <1>5 DEF WalkInv, Linked
<1>6. ASSUME NEW e \in Entries, NEW h \in Heads, list_add(e, h) PROVE WalkInv'
  <2>1. next' = Add(Links, e, h, Links.next[h]).next /\ next[e] = NULL
    BY <1>1, <1>6 DEF list_add, Becomes, Linked
  <2>2. \A x \in Nodes : next[x] # NULL => next'[x] # NULL
    BY <1>1, <2>1, StaysLinked
  <2> QED BY <1>5, <1>6, <2>2 DEF list_add
<1>7. ASSUME NEW e \in Entries, NEW h \in Heads, list_add_tail(e, h) PROVE WalkInv'
  <2>1. next' = Add(Links, e, Links.prev[h], h).next /\ next[e] = NULL
    BY <1>1, <1>7 DEF list_add_tail, Becomes, Linked
  <2>2. \A x \in Nodes : next[x] # NULL => next'[x] # NULL
    BY <1>1, <2>1, StaysLinked
  <2> QED BY <1>5, <1>7, <2>2 DEF list_add_tail
<1>8. ASSUME NEW e \in Nodes, e \in Entries, NEW h \in Heads, next[e] # NULL, Becomes(MoveTail(Links, e, h)),
             UNCHANGED <<walked, pos, n>>
      PROVE  WalkInv'
  <2>1. next' = MoveTail(Links, e, h).next
    BY <1>8 DEF Becomes
  <2>2. \A x \in Nodes : next[x] # NULL => next'[x] # NULL
    BY <1>1, <1>8, <2>1, StaysLinked
  <2> QED BY <1>5, <1>8, <2>2
<1>9. ASSUME NEW e \in Entries, NEW h \in Heads, list_move_tail(e, h) PROVE WalkInv'
  BY <1>4, <1>8, <1>9 DEF list_move_tail, MayRemove, Linked
<1>10. ASSUME NEW e \in Entries, list_del(e) PROVE WalkInv'
  <2>1. next' = Del(Links, e).next /\ next[e] # NULL /\ (walked = NULL \/ e = pos)
    BY <1>10 DEF list_del, Becomes, MayRemove, Linked
  <2>2. PICK h \in Heads : TRUE
    <3>1. \E h \in Heads : \E k \in 1 .. Len(c[h]) : c[h][k] = e
      BY <1>1, <2>1 DEF InOrder
    <3> QED BY <3>1
  <2>3. \A x \in Nodes : next[x] # NULL /\ x # e => next'[x] # NULL
    BY <1>1, <2>1, <2>2, StaysLinked
  <2>4. walked # NULL => n # e
    BY <2>1 DEF WalkInv
  <2> QED BY <1>5, <1>10, <2>3, <2>4 DEF list_del
<1>11. ASSUME NEW h \in Heads, list_rotate_left(h) PROVE WalkInv'
  <2>1. walked = NULL /\ UNCHANGED <<walked, pos, n>>
    BY <1>11 DEF list_rotate_left
  <2> QED BY <1>5, <2>1
<1>12. ASSUME NEW h \in Heads, ForEach(h) PROVE WalkInv'
  BY <1>2, <1>3, <1>4, <1>12 DEF ForEach, WalkInv, Linked, links
<1>13. CASE ForEachStep
  BY <1>2, <1>4, <1>13 DEF ForEachStep, WalkInv, Linked, links, Following
<1>14. CASE ForEachEnds
  BY <1>14 DEF ForEachEnds, WalkInv
<1>15. CASE UNCHANGED list_vars
  BY <1>15 DEF WalkInv, Linked, list_vars, links
<1> QED BY <1>6, <1>7, <1>9, <1>10, <1>11, <1>12, <1>13, <1>14, <1>15 DEF ListNext

\* A call changes the links as the abstract lists change; a walk changes no link.
LEMMA ListStep ==
  ASSUME ListInv, [ListNext]_list_vars
  PROVE  ListInv' /\ (UNCHANGED links \/ Abstract!SeqNext)
<1>1. PICK c : InOrder(Links, c)
  BY DEF ListInv
<1>2. WalkInv'
  BY <1>1, WalkStep DEF ListInv
<1>3. \A d : InOrder(Links', d) => (\E b : InOrder(Links, b))'
  OBVIOUS
<1>4. (\E d : InOrder(Links', d)) => ListInv'
  BY <1>2, <1>3 DEF ListInv
<1>5. ASSUME UNCHANGED links PROVE \E d : InOrder(Links', d)
  BY <1>1, <1>5 DEF links, Links
<1>6. ASSUME NEW e \in Entries, NEW h \in Heads, list_add(e, h)
      PROVE  ListInv' /\ Abstract!SeqNext
  BY <1>1, <1>4, <1>6, AddStep DEF Abstract!SeqNext
<1>7. ASSUME NEW e \in Entries, NEW h \in Heads, list_add_tail(e, h)
      PROVE  ListInv' /\ Abstract!SeqNext
  BY <1>1, <1>4, <1>7, AddTailStep DEF Abstract!SeqNext
<1>8. ASSUME NEW e \in Entries, NEW h \in Heads, list_move_tail(e, h)
      PROVE  ListInv' /\ Abstract!SeqNext
  BY <1>1, <1>4, <1>8, MoveTailStep DEF Abstract!SeqNext
<1>9. ASSUME NEW e \in Entries, list_del(e)
      PROVE  ListInv' /\ Abstract!SeqNext
  BY <1>1, <1>4, <1>9, DelStep DEF Abstract!SeqNext
<1>10. ASSUME NEW h \in Heads, list_rotate_left(h)
       PROVE  ListInv' /\ Abstract!SeqNext
  BY <1>1, <1>4, <1>10, RotateStep DEF Abstract!SeqNext
<1>11. ASSUME NEW h \in Heads, ForEach(h) PROVE UNCHANGED links
  BY <1>11 DEF ForEach
<1>12. ForEachStep \/ ForEachEnds \/ UNCHANGED list_vars => UNCHANGED links
  BY DEF ForEachStep, ForEachEnds, list_vars, links
<1> QED BY <1>4, <1>5, <1>6, <1>7, <1>8, <1>9, <1>10, <1>11, <1>12 DEF ListNext

\* Empty lists are in order.
LEMMA ListStart == ListInit => ListInv /\ Abstract!SeqInit
<1> SUFFICES ASSUME ListInit PROVE ListInv /\ Abstract!SeqInit
  OBVIOUS
<1>1. PICK c : c = [h \in Heads |-> << >>]
  OBVIOUS
<1>2. c \in [Heads -> Seq(Entries)] /\ \A h \in Heads : c[h] = << >> /\ Len(c[h]) = 0
  BY <1>1
<1>3. \A h \in Heads : \A i \in 0 .. Len(c[h]) : i = 0 /\ Node(c[h], h, i) = h /\ Node(c[h], h, i + 1) = h
  BY <1>2 DEF Node
<1>4. Links.next = next /\ Links.prev = prev
  BY DEF Links
<1>5. /\ {next, prev} \subseteq [Nodes -> Nodes \cup {NULL}]
      /\ \A h \in Heads : next[h] = h /\ prev[h] = h
      /\ \A e \in Entries : next[e] = NULL /\ prev[e] = NULL
  BY ListConstants DEF ListInit, Nodes
<1>6. InOrder(Links, c)
  <2>1. \A g, h \in Heads : \A i \in 1 .. Len(c[g]), j \in 1 .. Len(c[h]) :
           c[g][i] = c[h][j] => g = h /\ i = j
    BY <1>2
  <2>2. \A h \in Heads : \A i \in 0 .. Len(c[h]) :
           /\ next[Node(c[h], h, i)] = Node(c[h], h, i + 1)
           /\ prev[Node(c[h], h, i + 1)] = Node(c[h], h, i)
    BY <1>3, <1>5
  <2> QED BY <1>2, <1>4, <1>5, <2>1, <2>2 DEF InOrder
<1>7. WalkInv
  BY DEF ListInit, WalkInv
<1>8. Contents = c
  BY <1>6, ContentsAre
<1> QED BY <1>1, <1>6, <1>7, <1>8 DEF ListInv, Abstract!SeqInit, Contents

\* Over every sequence of calls and walks of list.h, next and prev agree, and a walk with
\* list_for_each_safe goes on to an entry that is still in its list.
THEOREM LinksAgreeHolds == ListSpec => [](LinksAgree /\ WalkStaysLinked)
<1>1. ListInit => ListInv
  BY ListStart
<1>2. ListInv /\ [ListNext]_list_vars => ListInv'
  BY ListStep
<1>3. ListInv => LinksAgree /\ WalkStaysLinked
  <2> SUFFICES ASSUME ListInv PROVE LinksAgree /\ WalkStaysLinked
    OBVIOUS
  <2>1. PICK c : InOrder(Links, c)
    BY DEF ListInv
  <2>2. Links.next = next /\ Links.prev = prev
    BY DEF Links
  <2>3. ASSUME NEW x \in Nodes PROVE Linked(x) <=> prev[x] # NULL
    <3>1. CASE x \in Heads
      <4>1. next[x] # NULL
        BY <2>1, <2>2, <3>1, HeadsAreLinked
      <4>2. prev[x] # NULL
        BY <2>1, <2>2, <4>1, NeighboursAgree
      <4> QED BY <4>1, <4>2 DEF Linked
    <3>2. CASE x \in Entries
      BY <2>1, <2>2, <3>2 DEF InOrder, Linked
    <3> QED BY <3>1, <3>2 DEF Nodes
  <2>4. ASSUME NEW x \in Nodes, Linked(x)
        PROVE  next[x] \in Nodes /\ prev[next[x]] = x /\ prev[x] \in Nodes /\ next[prev[x]] = x
    BY <2>1, <2>2, <2>4, NeighboursAgree DEF Linked
  <2>5. NULL \notin Nodes
    BY ListConstants DEF Nodes
  <2> QED BY <2>3, <2>4, <2>5 DEF LinksAgree, WalkStaysLinked, ListInv, WalkInv
<1> QED BY <1>1, <1>2, <1>3, PTL DEF ListSpec

\* What next gives from each head on is the abstract list, which every call changes as its
\* comment in list.h says.
THEOREM ListsImplementSequences == ListSpec => ListsAreSequences
<1>1. ListInit => ListInv /\ Abstract!SeqInit
  BY ListStart
<1>2. ListInv /\ [ListNext]_list_vars => ListInv' /\ [UNCHANGED links \/ Abstract!SeqNext]_links
  BY ListStep
<1> QED BY <1>1, <1>2, PTL DEF ListSpec, ListsAreSequences

----------------------------------------------------------------------------
(* Gpio: between the call of a pin's callback and the clearing of its      *)
(* edge, no edge of that pin is counted as unheard, and the handler is     *)
(* not done.                                                               *)

GpioInv ==
    /\ EdgeReachesItsPin
    /\ told => ~Foreground /\ Current \notin unheard

\* Levels change anywhere: the edges they make are detected, and none of the pin that is
\* being cleared is counted.
LEMMA LevelsKeepEdges ==
  ASSUME GpioInv, NEW now, Levels(now), UNCHANGED <<pio_status, told>>
  PROVE  GpioInv'
<1>1. PICK Seen : edges' = edges \cup Seen
               /\ unheard' = unheard \cup ((Seen \cap int_enable) \ (IF told THEN {Current} ELSE {}))
  BY DEF Levels
<1>2. Current' = Current
  BY DEF Current
<1> QED BY <1>1, <1>2 DEF GpioInv, EdgeReachesItsPin, Foreground

\* An edge of a pin whose interrupt is enabled is still detected, or its pin is one that
\* PIO_0_Handler has to call, whatever edges come while it calls the others.
THEOREM EdgesReachTheirPins == GpioSpec => []EdgeReachesItsPin
<1>1. GpioInit => GpioInv
  BY DEF GpioInit, GpioInv, EdgeReachesItsPin
<1>2. GpioInv /\ [GpioNext]_gpio_vars => GpioInv'
  <2> SUFFICES ASSUME GpioInv, [GpioNext]_gpio_vars PROVE GpioInv'
    OBVIOUS
  <2>1. ASSUME Foreground PROVE ~told
    BY <2>1 DEF GpioInv
  <2>2. CASE gpio_on \/ gpio_off \/ UNCHANGED gpio_vars
    <3>1. UNCHANGED <<edges, unheard, pio_status, told>>
      BY <2>2 DEF gpio_on, gpio_off, gpio_vars
    <3> QED BY <3>1 DEF GpioInv, EdgeReachesItsPin, Foreground, Current
  <2>3. CASE status_led
    BY <2>3, LevelsKeepEdges DEF status_led
  <2>4. ASSUME NEW p \in Pins, NEW out \in BOOLEAN, NEW high \in BOOLEAN, config_gpio(p, out, high)
        PROVE  GpioInv'
    <3>1. CASE gpio_power
      BY <2>4, <3>1, LevelsKeepEdges DEF config_gpio
    <3>2. CASE ~gpio_power
      BY <2>4, <3>2 DEF config_gpio, GpioInv, EdgeReachesItsPin, Foreground, Current
    <3> QED BY <3>1, <3>2
  <2>5. ASSUME NEW p \in Pins, NEW s \in SensesUsed, set_gpio_callback(p, s)
        PROVE  GpioInv'
    BY <2>1, <2>5 DEF set_gpio_callback, GpioInv, EdgeReachesItsPin, Foreground
  <2>6. ASSUME NEW p \in Pins, remove_gpio_callback(p)
        PROVE  GpioInv'
    BY <2>1, <2>6 DEF remove_gpio_callback, GpioInv, EdgeReachesItsPin, Foreground
  <2>7. ASSUME NEW p \in Pins, PinChanges(p)
        PROVE  GpioInv'
    BY <2>7, LevelsKeepEdges DEF PinChanges
  <2>8. CASE PIO_0_Handler
    BY <2>1, <2>8 DEF PIO_0_Handler, gpio_setup, GpioInv, EdgeReachesItsPin, Foreground
  <2>9. CASE PinCallback
    BY <2>9 DEF PinCallback, gpio_setup, GpioInv, EdgeReachesItsPin, Foreground, Current
  <2>10. CASE ClearEdge
    BY <2>10 DEF ClearEdge, EdgesAfterClear, gpio_setup, GpioInv, EdgeReachesItsPin, Foreground
  <2> QED BY <2>2, <2>3, <2>4, <2>5, <2>6, <2>7, <2>8, <2>9, <2>10 DEF GpioNext
<1>3. GpioInv => EdgeReachesItsPin
  BY DEF GpioInv
<1> QED BY <1>1, <1>2, <1>3, PTL DEF GpioSpec

----------------------------------------------------------------------------
(* LpcRtc: what the alarm is set from is a count that has been read, and a *)
(* periodic alarm has a period.                                            *)

RtcNumbers ==
    /\ rtc_count \in Nat /\ rtc_match \in Nat /\ match_first \in Nat /\ rtc_match_period \in Nat
HasPeriod == periodic_match => rtc_match_period > 0
RtcInv == RtcNumbers /\ HasPeriod /\ AlarmIsAhead

\* An alarm that is set at once or by setup_callback is set after the count.
LEMMA SetMatchIsAhead ==
  ASSUME RtcNumbers, CountRead # 0, UNCHANGED rtc_count,
         NEW date \in Nat, date = 0 \/ date > rtc_count, NEW period \in Nat, NEW periodic,
         periodic => period > 0, SetMatch(date, period, periodic)
  PROVE  /\ rtc_match' \in Nat /\ rtc_match_period' \in Nat
         /\ HasPeriod' /\ AlarmIsAhead'
<1>1. CountRead = rtc_count
  BY DEF CountRead
<1>2. /\ periodic_match' = periodic /\ rtc_match_period' = period
      /\ rtc_match' = IF date # 0 THEN date ELSE rtc_count + period
  BY <1>1 DEF SetMatch
<1>3. rtc_count \in Nat /\ rtc_count' = rtc_count
  BY DEF RtcNumbers
<1>4. rtc_match' \in Nat /\ (periodic => rtc_match' > rtc_count')
  BY <1>2, <1>3
<1> QED BY <1>2, <1>4 DEF HasPeriod, AlarmIsAhead

\* A periodic alarm that has been set is ahead of the clock, or pending or being handled,
\* whenever the count became valid and whichever alarms were asked for before.
THEOREM AlarmStaysAhead == LpcRtcSpec => []AlarmIsAhead
<1>1. LpcRtcInit => RtcInv
  <2>1. LpcRtcInit => RtcNumbers
    BY DEF LpcRtcInit, RtcNumbers
  <2>2. LpcRtcInit => HasPeriod
    BY DEF LpcRtcInit, HasPeriod
  <2>3. LpcRtcInit => AlarmIsAhead
    BY DEF LpcRtcInit, AlarmIsAhead
  <2> QED BY <2>1, <2>2, <2>3 DEF RtcInv
<1>2. RtcInv /\ [LpcRtcNext]_lpcrtc_vars => RtcInv'
  <2> SUFFICES ASSUME RtcInv, [LpcRtcNext]_lpcrtc_vars PROVE RtcInv'
    OBVIOUS
  <2>0. RtcNumbers /\ HasPeriod /\ AlarmIsAhead
    BY DEF RtcInv
  <2>1. CASE set_rtc_callback
    <3>1. PICK when \in {0, rtc_count + 1}, period \in RtcPeriods :
            IF CountRead # 0
            THEN SetMatch(when, period, period # 0) /\ UNCHANGED <<setups, match_first>>
            ELSE /\ setups' = TRUE /\ match_first' = when
                 /\ rtc_match_period' = period /\ periodic_match' = (period # 0)
                 /\ UNCHANGED <<rtc_match, date_changed>>
      BY <2>1 DEF set_rtc_callback
    <3>2. period \in Nat /\ when \in Nat /\ (when = 0 \/ when > rtc_count)
      BY <2>0, RtcSizes DEF RtcNumbers
    <3>3. UNCHANGED rtc_count
      BY <2>1 DEF set_rtc_callback
    <3>4. CASE CountRead # 0
      <4>1. SetMatch(when, period, period # 0) /\ UNCHANGED match_first
        BY <3>1, <3>4
      <4>2. (period # 0) => period > 0
        BY <3>2
      <4>3. /\ rtc_match' \in Nat /\ rtc_match_period' \in Nat
            /\ HasPeriod' /\ AlarmIsAhead'
        BY <2>0, <3>2, <3>3, <3>4, <4>1, <4>2, SetMatchIsAhead
      <4> QED BY <2>0, <3>3, <4>1, <4>3 DEF RtcInv, RtcNumbers
    <3>5. CASE CountRead = 0
      <4>1. /\ setups' = TRUE /\ match_first' = when /\ rtc_match' = rtc_match
            /\ rtc_match_period' = period /\ periodic_match' = (period # 0)
        BY <3>1, <3>5
      <4>2. RtcNumbers'
        BY <2>0, <3>2, <3>3, <4>1 DEF RtcNumbers
      <4>3. HasPeriod'
        <5>1. (periodic_match' => period # 0) /\ rtc_match_period' = period
          BY <4>1
        <5> QED BY <3>2, <5>1 DEF HasPeriod
      <4>4. AlarmIsAhead'
        BY <4>1 DEF AlarmIsAhead
      <4> QED BY <4>2, <4>3, <4>4 DEF RtcInv
    <3> QED BY <3>4, <3>5
  <2>2. CASE setup_callback
    <3>1. UNCHANGED <<rtc_count, rtc_int, rtc_alarm, rtc_handler>>
      BY <2>2 DEF setup_callback
    <3>2. CASE CountRead = 0
      <4>1. UNCHANGED <<setups, match_first, rtc_match, rtc_match_period, periodic_match, date_changed>>
        BY <2>2, <3>2 DEF setup_callback
      <4> QED BY <2>0, <3>1, <4>1 DEF RtcInv, RtcNumbers, HasPeriod, AlarmIsAhead
    <3>3. CASE CountRead # 0
      <4>1. match_first' = FirstMatch /\ SetMatch(FirstMatch, rtc_match_period, periodic_match)
        BY <2>2, <3>3 DEF setup_callback
      <4>2. CountRead = rtc_count /\ rtc_count \in Nat /\ match_first \in Nat /\ rtc_match_period \in Nat
        BY <2>0, <3>3 DEF CountRead, RtcNumbers
      <4>3. FirstMatch \in Nat /\ (FirstMatch = 0 \/ FirstMatch > rtc_count)
        BY <4>2 DEF FirstMatch
      <4>4. /\ rtc_match' \in Nat /\ rtc_match_period' \in Nat
            /\ HasPeriod' /\ AlarmIsAhead'
        BY <2>0, <3>1, <3>3, <4>1, <4>2, <4>3, SetMatchIsAhead DEF HasPeriod
      <4> QED BY <2>0, <3>1, <4>1, <4>3, <4>4 DEF RtcInv, RtcNumbers
    <3> QED BY <3>2, <3>3
  <2>3. ASSUME UNCHANGED <<rtc_count, rtc_match, rtc_config, rtc_alarm, setups, date_changed>>,
               rtc_int' => rtc_int, rtc_handler' = rtc_handler \/ rtc_handler' # "idle"
        PROVE  RtcInv'
    <3>1. RtcNumbers' /\ HasPeriod'
      BY <2>0, <2>3 DEF rtc_config, RtcNumbers, HasPeriod
    <3>2. AlarmIsAhead'
      BY <2>0, <2>3 DEF rtc_config, AlarmIsAhead
    <3> QED BY <3>1, <3>2 DEF RtcInv
  <2>4. CASE rtc_get_count \/ rtc_on \/ rtc_ctrl_off \/ RtcTick \/ UNCHANGED lpcrtc_vars
    BY <2>3, <2>4 DEF rtc_get_count, rtc_on, rtc_ctrl_off, RtcTick, lpcrtc_vars
  <2>5. CASE remove_rtc_callback
    BY <2>3, <2>5 DEF remove_rtc_callback
  <2>6. CASE rtc_set_date
    <3>1. rtc_count' \in Nat /\ date_changed' /\ UNCHANGED <<rtc_match, rtc_config>>
      BY <2>6, RtcSizes DEF rtc_set_date
    <3> QED BY <2>0, <3>1 DEF RtcInv, RtcNumbers, HasPeriod, AlarmIsAhead, rtc_config
  <2>7. CASE RtcHandlerCalls
    BY <2>3, <2>7 DEF RtcHandlerCalls
  <2>8. CASE RtcHandlerClears
    <3>1. rtc_handler' = "cleared" /\ UNCHANGED <<rtc_count, rtc_match, rtc_config>>
      BY <2>8 DEF RtcHandlerClears
    <3> QED BY <2>0, <3>1 DEF RtcInv, RtcNumbers, HasPeriod, AlarmIsAhead, rtc_config
  <2>9. CASE RtcHandlerRearms
    <3>1. /\ rtc_match' = IF periodic_match THEN rtc_count + rtc_match_period ELSE rtc_match
          /\ UNCHANGED <<rtc_count, match_first, rtc_match_period, periodic_match>>
      BY <2>9 DEF RtcHandlerRearms, rtc_config
    <3>2. RtcNumbers' /\ HasPeriod'
      BY <2>0, <3>1 DEF RtcNumbers, HasPeriod
    <3>3. periodic_match => rtc_match' > rtc_count'
      BY <2>0, <3>1 DEF RtcNumbers, HasPeriod
    <3> QED BY <3>1, <3>2, <3>3 DEF RtcInv, AlarmIsAhead
  <2>10. CASE RtcCounts
    <3>1. /\ rtc_count' = rtc_count + 1 /\ rtc_alarm' = (rtc_alarm \/ rtc_count' = rtc_match)
          /\ UNCHANGED <<rtc_match, rtc_config, rtc_int, setups, date_changed, rtc_handler>>
      BY <2>10 DEF RtcCounts
    <3>2. RtcNumbers' /\ HasPeriod'
      BY <2>0, <3>1 DEF RtcNumbers, HasPeriod, rtc_config
    <3>3. rtc_match > rtc_count => rtc_match' > rtc_count' \/ rtc_count' = rtc_match
      BY <2>0, <3>1 DEF RtcNumbers
    <3>4. AlarmIsAhead'
      BY <2>0, <3>1, <3>3 DEF AlarmIsAhead, rtc_config
    <3> QED BY <3>2, <3>4 DEF RtcInv
  <2> QED BY <2>1, <2>2, <2>4, <2>5, <2>6, <2>7, <2>8, <2>9, <2>10 DEF LpcRtcNext
<1>3. RtcInv => AlarmIsAhead
  BY DEF RtcInv
<1> QED BY <1>1, <1>2, <1>3, PTL DEF LpcRtcSpec

----------------------------------------------------------------------------
(* CounterTimers: the two promises are inductive with the types of the     *)
(* functions that hold what each channel does.                             *)

TimerInv ==
    /\ match_ctrl \in [Channels -> SUBSET {"interrupt", "reset", "stop"}]
    /\ capture_ctrl \in [Channels -> SUBSET {"edge", "interrupt"}]
    /\ count_ctrl \in Channels \cup {Clock}
    /\ CountedInputIsFree
    /\ handler = "idle" => intr_flags = {}
    /\ RaisedIsTold

\* A configuration leaves the input that is counted nothing else to do.
LEMMA SetupsFreeInput ==
  ASSUME TimerInv, countertimer_pwm_setup \/ countertimer_tc_setup
  PROVE  TimerInv'
<1> USE TimerConstants
<1>0. MAX_CHANNELS = 2 /\ Clock = -1 /\ Channels = 0 .. 1
  BY DEF MAX_CHANNELS, Clock, Channels
<1>1. UNCHANGED <<int_reg, intr_flags, handler, untold>>
  BY DEF countertimer_pwm_setup, countertimer_tc_setup, ct_handling
<1>2. CASE UNCHANGED ct_regs
  BY <1>1, <1>2 DEF ct_regs, TimerInv, CountedInputIsFree, RaisedIsTold
<1>3. ASSUME NEW conf \in PwmConfigs, ~PwmRefused(conf), PwmSetup(conf)
      PROVE  TimerInv'
  <2>1. conf.period_chan \in Channels
    BY <1>0, <1>3 DEF PwmRefused
  <2>2. match_ctrl' \in [Channels -> SUBSET {"interrupt", "reset", "stop"}]
    BY <1>3, <2>1 DEF PwmSetup, TimerInv
  <2>3. count_ctrl' = Clock /\ UNCHANGED capture_ctrl
    BY <1>3 DEF PwmSetup
  <2>4. CountedInputIsFree'
    BY <1>0, <2>3 DEF CountedInputIsFree
  <2> QED BY <1>1, <2>2, <2>3, <2>4 DEF TimerInv, RaisedIsTold
<1>4. ASSUME NEW conf \in TcConfigs, TcSetup(conf)
      PROVE  TimerInv'
  <2>1. /\ conf.match_control \in [Channels -> SUBSET {"interrupt", "reset", "stop"}]
        /\ conf.cap_control \in [Channels -> SUBSET {"edge", "interrupt"}]
        /\ conf.count_chan \in Channels
    OBVIOUS
  <2> DEFINE Kept(f) == [c \in Channels |-> IF conf.counter /\ c = conf.count_chan THEN {} ELSE f[c]]
  <2>2. /\ match_ctrl' = IF conf.uses_match THEN Kept(conf.match_control) ELSE Nothing
        /\ capture_ctrl' = Kept(conf.cap_control)
        /\ count_ctrl' = IF conf.counter /\ conf.reset_on_cap = MAX_CHANNELS
                         THEN conf.count_chan ELSE Clock
    BY <1>4 DEF TcSetup
  <2>3. match_ctrl' \in [Channels -> SUBSET {"interrupt", "reset", "stop"}]
    BY <2>1, <2>2 DEF Nothing
  <2>4. capture_ctrl' \in [Channels -> SUBSET {"edge", "interrupt"}]
    BY <2>1, <2>2
  <2>5. CountedInputIsFree'
    BY <1>0, <2>1, <2>2 DEF CountedInputIsFree, Nothing
  <2>6. count_ctrl' \in Channels \cup {Clock}
    BY <2>1, <2>2
  <2> QED BY <1>1, <2>3, <2>4, <2>5, <2>6 DEF TimerInv, RaisedIsTold
<1> QED BY <1>2, <1>3, <1>4 DEF countertimer_pwm_setup, countertimer_tc_setup

\* Every match and capture that raises the interrupt is told to the callback, until when it
\* is pending or among the flags TIMER_Handler has read, and the input that is counted does
\* nothing else, whatever was configured before.
THEOREM TimersTellWhatTheyRaise == CounterTimersSpec => [](RaisedIsTold /\ CountedInputIsFree)
<1>1. CounterTimersInit => TimerInv
  BY DEF CounterTimersInit, TimerInv, Nothing, CountedInputIsFree, RaisedIsTold, Channels, Clock
<1>2. TimerInv /\ [CounterTimersNext]_ct_vars => TimerInv'
  <2> SUFFICES ASSUME TimerInv, [CounterTimersNext]_ct_vars PROVE TimerInv'
    OBVIOUS
  <2>1. CASE countertimer_pwm_setup \/ countertimer_tc_setup
    BY <2>1, SetupsFreeInput
  <2>2. CASE UNCHANGED <<count_ctrl, match_ctrl, capture_ctrl, int_reg, ct_handling, untold>>
    BY <2>2 DEF ct_handling, TimerInv, CountedInputIsFree, RaisedIsTold
  <2>3. CASE HandlerReads \/ HandlerClears \/ HandlerCalls
    BY <2>3 DEF HandlerReads, HandlerClears, HandlerCalls, FlagsCleared, ct_regs, TimerInv,
                CountedInputIsFree, RaisedIsTold
  <2>4. ASSUME NEW flags, Raise(flags), UNCHANGED <<ct_regs, ct_handling>>
        PROVE  TimerInv'
    BY <2>4 DEF Raise, ct_regs, ct_handling, TimerInv, CountedInputIsFree, RaisedIsTold
  <2>5. CASE ClockPulse \/ \E c \in Channels : InputEdge(c)
    BY <2>4, <2>5 DEF ClockPulse, InputEdge, Advance
  <2>6. CASE UNCHANGED ct_vars
    BY <2>2, <2>6 DEF ct_vars, ct_regs
  <2>7. CASE \/ countertimer_start \/ countertimer_pause \/ countertimer_stop \/ countertimer_restart
             \/ countertimer_set_match \/ countertimer_on \/ countertimer_off
    BY <2>2, <2>7 DEF countertimer_start, countertimer_pause, countertimer_stop, countertimer_restart,
       countertimer_set_match, countertimer_on, countertimer_off, Control, ResetThen, ct_regs
  <2> QED BY <2>1, <2>3, <2>5, <2>6, <2>7 DEF CounterTimersNext
<1>3. TimerInv => RaisedIsTold /\ CountedInputIsFree
  BY DEF TimerInv
<1> QED BY <1>1, <1>2, <1>3, PTL DEF CounterTimersSpec

----------------------------------------------------------------------------
(* Tmp101. *)

\* The driver knows the register its chip designates whenever it reads without writing the
\* pointer, through failed transactions and a chip that restarts; only a restart of the
\* board, or a read refused before its pointer was written, takes that away.
THEOREM PointerStaysKnown == TmpSpec => []PointerKnown
<1>1. TmpInit => PointerKnown
  BY DEF TmpInit, PointerKnown
<1>2. PointerKnown /\ [TmpNext]_tmp_vars => PointerKnown'
  <2> SUFFICES ASSUME PointerKnown, [TmpNext]_tmp_vars PROVE PointerKnown'
    OBVIOUS
  <2>1. CASE tmp101_sensor_read
    <3>1. PICK p \in Progress : ReadRegister(p)
      BY <2>1 DEF tmp101_sensor_read
    <3>2. CASE last_accessed_register = "temperature"
      BY <3>1, <3>2 DEF ReadRegister, PointerKnown
    <3>3. CASE last_accessed_register # "temperature"
      <4>1. lost' = ~PointerWritten(p) /\ (PointerWritten(p) => tmp_pointer' = "temperature")
        BY <3>1, <3>3 DEF ReadRegister
      <4> QED BY <4>1 DEF PointerKnown
    <3> QED BY <3>2, <3>3
  <2>2. CASE WriteConfig
    BY <2>2 DEF WriteConfig, PointerKnown
  <2>3. CASE BoardRestarts
    BY <2>3 DEF BoardRestarts, PointerKnown
  <2>4. CASE ChipRestarts
    BY <2>4 DEF ChipRestarts, PointerKnown
  <2>5. CASE tmp101_probe_sensor \/ UNCHANGED tmp_vars
    BY <2>5 DEF tmp101_probe_sensor, tmp_vars, PointerKnown
  <2> QED BY <2>1, <2>2, <2>3, <2>4, <2>5 DEF TmpNext
<1> QED BY <1>1, <1>2, PTL DEF TmpSpec

----------------------------------------------------------------------------
(* Adc. *)

\* Only the channels asked for last are converted, and after a single conversion or on an
\* event a burst started earlier is over, whatever else was turned off and on.
THEOREM LastRequestIsConverted == AdcSpec => []ConvertsWhatWasAsked
<1>1. AdcInit => ConvertsWhatWasAsked
  BY DEF AdcInit, ConvertsWhatWasAsked, Asked
<1>2. ConvertsWhatWasAsked /\ [AdcNext]_adc_vars => ConvertsWhatWasAsked'
  <2> SUFFICES ASSUME ConvertsWhatWasAsked, [AdcNext]_adc_vars PROVE ConvertsWhatWasAsked'
    OBVIOUS
  <2>1. CASE UNCHANGED <<adc_channels, adc_burst, adc_asked>>
    BY <2>1 DEF ConvertsWhatWasAsked
  <2>2. CASE adc_start_convertion_once
    BY <2>2 DEF adc_start_convertion_once, StartOnce, Asked, ConvertsWhatWasAsked
  <2>3. CASE adc_start_burst_conversion
    BY <2>3 DEF adc_start_burst_conversion, Asked, ConvertsWhatWasAsked
  <2>4. CASE adc_prepare_conversion_on_event
    BY <2>4 DEF adc_prepare_conversion_on_event, Asked, ConvertsWhatWasAsked
  <2>5. CASE \/ adc_on \/ adc_off \/ adc_trigger_sequence_conversion \/ AdcEvent
             \/ (\E c \in AdcChannels : adc_get_value(c) \/ Converted(c)) \/ UNCHANGED adc_vars
    BY <2>1, <2>5 DEF adc_on, adc_off, adc_trigger_sequence_conversion, AdcEvent, adc_get_value,
       Converted, adc_vars, adc_ctrl
  <2> QED BY <2>2, <2>3, <2>4, <2>5 DEF AdcNext
<1> QED BY <1>1, <1>2, PTL DEF AdcSpec

----------------------------------------------------------------------------
(* I2cSensors: what the chips keep, at each transaction of a call; and the *)
(* arithmetic of the lux.                                                  *)

\* What bme280_configure has read by each of its steps.
BmeInv ==
    /\ bme_step \in {"idle", "write", "T", "P", "Ha", "Hb"}
    /\ bme_step \in {"P", "Ha", "Hb"} => "T" \in cal
    /\ bme_step \in {"Ha", "Hb"} => "P" \in cal
    /\ cal \subseteq {"T", "P", "H"}
    /\ bme_configured => cal = {"T", "P", "H"} /\ bme_regs = "set"
    /\ bme_configured => bme_step # "write"

TslInv ==
    /\ tsl_step \in {"idle", "power", "check", "timing"}
    /\ tsl_configured => tsl_powered
    /\ tsl_configured /\ tsl_step = "idle" => tsl_timing
    /\ tsl_step \in {"power", "check"} => ~tsl_configured

\* A sensor of humidity or of light whose configuration succeeded measures as it was
\* configured for as long as it keeps its power, whatever fails and is probed again.
THEOREM SensorsMeasure == SensorsSpec => []ConfiguredSensorsMeasure
<1>1. SensorsInit => BmeInv /\ TslInv
  BY DEF SensorsInit, BmeInv, TslInv
<1>2. BmeInv /\ [SensorsNext]_sensors_vars => BmeInv'
  <2> SUFFICES ASSUME BmeInv, [SensorsNext]_sensors_vars PROVE BmeInv'
    OBVIOUS
  <2>1. CASE bme280_configure
    BY <2>1 DEF bme280_configure, BmeInv
  <2>2. CASE Bme280Step
    <3>1. PICK ok \in BOOLEAN :
             /\ bme_step' = GoesTo(ok)
             /\ cal' = IF ok THEN cal \cup CalPart(bme_step) ELSE cal
             /\ bme_regs' \in IF bme_step # "write" THEN {bme_regs}
                               ELSE IF ok THEN {"set"} ELSE {bme_regs, "partial"}
             /\ bme_configured' = (bme_configured \/ (bme_step = "Hb" /\ bme_step' = "idle" /\ ok
                                                         /\ bme_regs = "set"))
      BY <2>2 DEF Bme280Step
    <3>2. CASE ~ok
      BY <2>2, <3>1, <3>2 DEF Bme280Step, BmeInv, GoesTo
    <3>3. CASE ok
      BY <2>2, <3>1, <3>3 DEF Bme280Step, BmeInv, GoesTo, NextTransaction, CalPart
    <3> QED BY <3>2, <3>3
  <2>3. CASE bme280_sensor_read
    BY <2>3 DEF bme280_sensor_read, BmeInv
  <2>4. CASE Bme280LosesPower
    BY <2>4 DEF Bme280LosesPower, BmeInv
  <2>5. CASE UNCHANGED bme_vars
    BY <2>5 DEF bme_vars, BmeInv
  <2>6. Tsl256xNext \/ Veml6070Next \/ ChirpNext \/ UNCHANGED sensors_vars => UNCHANGED bme_vars
    BY DEF Tsl256xNext, Veml6070Next, ChirpNext, tsl256x_configure, Tsl256xStep, tsl256x_sensor_read,
       Tsl256xLosesPower, veml6070_configure, veml6070_sensor_read, Veml6070ReadsLsb, Veml6070Converts,
       chirp_sensor_read, chirp_sensor_write, ChirpConverted, sensors_vars
  <2> QED BY <2>1, <2>2, <2>3, <2>4, <2>5, <2>6 DEF SensorsNext, Bme280Next
<1>3. TslInv /\ [SensorsNext]_sensors_vars => TslInv'
  <2> SUFFICES ASSUME TslInv, [SensorsNext]_sensors_vars PROVE TslInv'
    OBVIOUS
  <2>1. CASE tsl256x_configure
    BY <2>1 DEF tsl256x_configure, TslInv
  <2>2. CASE Tsl256xStep
    <3>1. PICK ok \in BOOLEAN : TslPower(ok) \/ TslCheck(ok) \/ TslTiming(ok)
      BY <2>2 DEF Tsl256xStep
    <3>2. CASE TslPower(ok)
      BY <3>2 DEF TslPower, TslInv
    <3>3. CASE TslCheck(ok)
      BY <3>3 DEF TslCheck, TslInv
    <3>4. CASE TslTiming(ok)
      BY <3>4 DEF TslTiming, TslInv
    <3> QED BY <3>1, <3>2, <3>3, <3>4
  <2>3. CASE tsl256x_sensor_read
    BY <2>3 DEF tsl256x_sensor_read, TslInv
  <2>4. CASE Tsl256xLosesPower
    BY <2>4 DEF Tsl256xLosesPower, TslInv
  <2>5. CASE UNCHANGED tsl_vars
    BY <2>5 DEF tsl_vars, TslInv
  <2>6. Bme280Next \/ Veml6070Next \/ ChirpNext \/ UNCHANGED sensors_vars => UNCHANGED tsl_vars
    BY DEF Bme280Next, Veml6070Next, ChirpNext, bme280_configure, Bme280Step, bme280_sensor_read,
       Bme280LosesPower, veml6070_configure, veml6070_sensor_read, Veml6070ReadsLsb, Veml6070Converts,
       chirp_sensor_read, chirp_sensor_write, ChirpConverted, sensors_vars
  <2> QED BY <2>1, <2>2, <2>3, <2>4, <2>5, <2>6 DEF SensorsNext, Tsl256xNext
<1>4. BmeInv /\ TslInv => ConfiguredSensorsMeasure
  BY DEF BmeInv, TslInv, ConfiguredSensorsMeasure
<1> QED BY <1>1, <1>2, <1>3, <1>4, PTL DEF SensorsSpec

\* The ratio bounds the second channel by the first one.
LEMMA RatioBound ==
  ASSUME NEW c0 \in Nat \ {0}, NEW c1 \in Nat
  PROVE  /\ Ratio(c0, c1) \in Int
         /\ \A k \in Nat : Ratio(c0, c1) <= k => 1024 * c1 <= (2 * k + 1) * c0
<1>1. PICK x : x = (c1 * 1024) \div c0
  OBVIOUS
<1>2. x \in Int /\ c1 * 1024 = c0 * x + ((c1 * 1024) % c0) /\ (c1 * 1024) % c0 \in 0 .. c0 - 1
  <2>1. c1 * 1024 \in Int
    OBVIOUS
  <2> QED BY <1>1, <2>1, DivMod
<1>3. Ratio(c0, c1) = (x + 1) \div 2
  BY <1>1 DEF Ratio
<1>4. Ratio(c0, c1) \in Int
  BY <1>2, <1>3
<1>5. ASSUME NEW k \in Nat, Ratio(c0, c1) <= k
      PROVE  1024 * c1 <= (2 * k + 1) * c0
  <2>1. x <= 2 * k
    BY <1>2, <1>3, <1>5
  <2>2. PICK d \in Nat : 2 * k = x + d
    <3>1. 2 * k - x \in Nat /\ 2 * k = x + (2 * k - x)
      BY <1>2, <2>1
    <3> QED BY <3>1
  <2>3. c0 * (2 * k) = c0 * x + c0 * d /\ c0 * x \in Int /\ c0 * d \in Nat
    BY <1>2, <2>2, Z3
  <2>4. (2 * k + 1) * c0 = c0 * (2 * k) + c0
    BY Z3
  <2>5. PICK t : t = c0 * x
    OBVIOUS
  <2> QED BY <1>2, <2>3, <2>4, <2>5
<1> QED BY <1>4, <1>5

\* calculate_lux takes a line whose range the ratio is in, or the last one.
LEMMA LineFound ==
  ASSUME NEW ratio \in Int
  PROVE  LineOf(ratio) \in 1 .. 8 /\ (LineOf(ratio) = 8 \/ ratio <= Lines[LineOf(ratio)].k)
<1> DEFINE S == {i \in 1 .. 8 : i = 8 \/ ratio <= Lines[i].k}
<1>1. PICK i \in S : \A j \in S : i <= j
  <2>1. S \subseteq Nat /\ 8 \in S
    OBVIOUS
  <2> QED BY <2>1, LeastNat
<1>2. \A j \in 1 .. i - 1 : ratio > Lines[j].k
  <2> SUFFICES ASSUME NEW j \in 1 .. i - 1 PROVE ratio > Lines[j].k
    OBVIOUS
  <2>1. j \in 1 .. 8 /\ j # 8 /\ j \notin S
    BY <1>1
  <2>2. Lines[j].k \in Int
    BY <2>1 DEF Lines, Line
  <2> QED BY <2>1, <2>2
<1>3. \E l \in 1 .. 8 : /\ l = 8 \/ ratio <= Lines[l].k
                        /\ \A j \in 1 .. l - 1 : ratio > Lines[j].k
  BY <1>1, <1>2
<1> QED BY <1>3 DEF LineOf

\* The slopes of the lines, in whatever package the sensor is, keep their differences from
\* wrapping but for the last one of the CS package, which goes a little below 0.
LEMMA LineSlopes ==
  ASSUME NEW c0 \in Nat, NEW c1 \in Nat, NEW i \in 1 .. 8,
         i = 8 \/ 1024 * c1 <= (2 * Lines[i].k + 1) * c0,
         CS => c0 <= 8192
  PROVE  /\ c0 * Lines[i].b - c1 * Lines[i].m \in Int
         /\ c0 * Lines[i].b - c1 * Lines[i].m >= -8192
         /\ c0 * Lines[i].b - c1 * Lines[i].m <= 642 * c0
<1>1. CASE ~CS
  <2>1. CASE i = 1
    <3>1. Lines[i].k = 64 /\ Lines[i].b = 498 /\ Lines[i].m = 446
      BY <1>1, <2>1 DEF Lines, Line
    <3> QED BY <1>1, <2>1, <3>1
  <2>2. CASE i = 2
    <3>1. Lines[i].k = 128 /\ Lines[i].b = 532 /\ Lines[i].m = 721
      BY <1>1, <2>2 DEF Lines, Line
    <3> QED BY <1>1, <2>2, <3>1
  <2>3. CASE i = 3
    <3>1. Lines[i].k = 192 /\ Lines[i].b = 575 /\ Lines[i].m = 891
      BY <1>1, <2>3 DEF Lines, Line
    <3> QED BY <1>1, <2>3, <3>1
  <2>4. CASE i = 4
    <3>1. Lines[i].k = 256 /\ Lines[i].b = 624 /\ Lines[i].m = 1022
      BY <1>1, <2>4 DEF Lines, Line
    <3> QED BY <1>1, <2>4, <3>1
  <2>5. CASE i = 5
    <3>1. Lines[i].k = 312 /\ Lines[i].b = 367 /\ Lines[i].m = 508
      BY <1>1, <2>5 DEF Lines, Line
    <3> QED BY <1>1, <2>5, <3>1
  <2>6. CASE i = 6
    <3>1. Lines[i].k = 410 /\ Lines[i].b = 210 /\ Lines[i].m = 251
      BY <1>1, <2>6 DEF Lines, Line
    <3> QED BY <1>1, <2>6, <3>1
  <2>7. CASE i = 7
    <3>1. Lines[i].k = 666 /\ Lines[i].b = 24 /\ Lines[i].m = 18
      BY <1>1, <2>7 DEF Lines, Line
    <3> QED BY <1>1, <2>7, <3>1
  <2>8. CASE i = 8
    <3>1. Lines[i].b = 0 /\ Lines[i].m = 0
      BY <1>1, <2>8 DEF Lines, Line
    <3> QED BY <3>1
  <2> QED BY <2>1, <2>2, <2>3, <2>4, <2>5, <2>6, <2>7, <2>8
<1>2. CASE CS
  <2>1. CASE i = 1
    <3>1. Lines[i].k = 67 /\ Lines[i].b = 516 /\ Lines[i].m = 429
      BY <1>2, <2>1 DEF Lines, Line
    <3> QED BY <1>2, <2>1, <3>1
  <2>2. CASE i = 2
    <3>1. Lines[i].k = 133 /\ Lines[i].b = 552 /\ Lines[i].m = 705
      BY <1>2, <2>2 DEF Lines, Line
    <3> QED BY <1>2, <2>2, <3>1
  <2>3. CASE i = 3
    <3>1. Lines[i].k = 200 /\ Lines[i].b = 595 /\ Lines[i].m = 867
      BY <1>2, <2>3 DEF Lines, Line
    <3> QED BY <1>2, <2>3, <3>1
  <2>4. CASE i = 4
    <3>1. Lines[i].k = 266 /\ Lines[i].b = 642 /\ Lines[i].m = 991
      BY <1>2, <2>4 DEF Lines, Line
    <3> QED BY <1>2, <2>4, <3>1
  <2>5. CASE i = 5
    <3>1. Lines[i].k = 333 /\ Lines[i].b = 375 /\ Lines[i].m = 477
      BY <1>2, <2>5 DEF Lines, Line
    <3> QED BY <1>2, <2>5, <3>1
  <2>6. CASE i = 6
    <3>1. Lines[i].k = 410 /\ Lines[i].b = 257 /\ Lines[i].m = 295
      BY <1>2, <2>6 DEF Lines, Line
    <3> QED BY <1>2, <2>6, <3>1
  <2>7. CASE i = 7
    <3>1. Lines[i].k = 666 /\ Lines[i].b = 55 /\ Lines[i].m = 43
      BY <1>2, <2>7 DEF Lines, Line
    <3> QED BY <1>2, <2>7, <3>1
  <2>8. CASE i = 8
    <3>1. Lines[i].b = 0 /\ Lines[i].m = 0
      BY <1>2, <2>8 DEF Lines, Line
    <3> QED BY <3>1
  <2> QED BY <2>1, <2>2, <2>3, <2>4, <2>5, <2>6, <2>7, <2>8
<1> QED BY <1>1, <1>2

\* The lux is at most the first channel's count, unless a CS package sees more than 8192.
LEMMA LuxOfLight ==
  ASSUME NEW c0 \in Nat \ {0}, NEW c1 \in Nat, CS => c0 <= 8192
  PROVE  calculate_lux(c0, c1) <= c0
<1>1. PICK i : i = LineOf(Ratio(c0, c1))
  OBVIOUS
<1>2. i \in 1 .. 8 /\ (i = 8 \/ Ratio(c0, c1) <= Lines[i].k)
  <2>1. Ratio(c0, c1) \in Int
    BY RatioBound
  <2> QED BY <1>1, <2>1, LineFound
<1>3. Lines[i].k \in Nat
  BY <1>2 DEF Lines, Line
<1>4. i = 8 \/ 1024 * c1 <= (2 * Lines[i].k + 1) * c0
  BY <1>2, <1>3, RatioBound
<1>5. PICK D : D = c0 * Lines[i].b - c1 * Lines[i].m
  OBVIOUS
<1>6. D \in Int /\ D >= -8192 /\ D <= 642 * c0
  BY <1>2, <1>4, <1>5, LineSlopes
<1>7. calculate_lux(c0, c1) = ((D + 8192) \div 16384) % 262144
  BY <1>1, <1>5 DEF calculate_lux, Difference
<1>8. (D + 8192) \div 16384 \in 0 .. c0
  BY <1>6
<1> QED BY <1>7, <1>8

\* Light is measured: for any values of the channels, the lux of a sensor whose first channel
\* sees some is at most what that channel says.
THEOREM LuxStaysBounded == SensorsSpec => []LuxIsBounded
<1> DEFINE Inv == /\ tsl_read.channel0 \in Nat /\ LuxIsBounded
<1>1. SensorsInit => Inv
  BY DEF SensorsInit, LuxIsBounded
<1>2. Inv /\ [SensorsNext]_sensors_vars => Inv'
  <2> SUFFICES ASSUME Inv, [SensorsNext]_sensors_vars PROVE Inv'
    OBVIOUS
  <2>1. ASSUME UNCHANGED tsl_read PROVE Inv'
    BY <2>1 DEF LuxIsBounded
  <2>2. CASE tsl256x_sensor_read
    <3>1. CASE UNCHANGED tsl_read
      BY <2>1, <3>1
    <3>2. ASSUME NEW ch0 \in Channel0s, NEW ch1 \in Channel1s, NEW c0, NEW c1,
                 c0 = IF tsl_powered THEN Scaled(ch0) ELSE 0,
                 c1 = IF tsl_powered THEN Scaled(ch1) ELSE 0,
                 tsl_read' = [channel0 |-> c0, channel1 |-> c1, lux |-> calculate_lux(c0, c1)]
          PROVE  Inv'
      <4>1. ch0 * ChScale \in Nat /\ ch1 * ChScale \in Nat
        <5>1. ch0 \in Nat /\ ch1 \in Nat /\ ChScale \in Nat
          BY LightConstants
        <5> QED BY <5>1
      <4>2. Scaled(ch0) \in Nat /\ Scaled(ch1) \in Nat
        <5>1. \A q \in Nat : q \div 1024 \in Nat
          OBVIOUS
        <5> QED BY <4>1, <5>1 DEF Scaled
      <4>3. c0 \in Nat /\ c1 \in Nat
        BY <3>2, <4>2
      <4>4. c0 # 0 /\ (CS => c0 <= 8192) => calculate_lux(c0, c1) <= c0
        BY <4>3, LuxOfLight
      <4>5. tsl_read'.channel0 = c0 /\ tsl_read'.lux = calculate_lux(c0, c1)
        BY <3>2
      <4> QED BY <4>3, <4>4, <4>5 DEF LuxIsBounded
    <3> QED BY <2>2, <3>1, <3>2 DEF tsl256x_sensor_read
  <2>3. CASE tsl256x_configure \/ Tsl256xStep \/ Tsl256xLosesPower
    BY <2>1, <2>3 DEF tsl256x_configure, Tsl256xStep, Tsl256xLosesPower
  <2>4. Bme280Next \/ Veml6070Next \/ ChirpNext \/ UNCHANGED sensors_vars => UNCHANGED tsl_read
    BY DEF Bme280Next, Veml6070Next, ChirpNext, bme280_configure, Bme280Step, bme280_sensor_read,
       Bme280LosesPower, veml6070_configure, veml6070_sensor_read, Veml6070ReadsLsb, Veml6070Converts,
       chirp_sensor_read, chirp_sensor_write, ChirpConverted, sensors_vars, tsl_vars
  <2> QED BY <2>1, <2>2, <2>3, <2>4 DEF SensorsNext, Tsl256xNext
<1>3. Inv => LuxIsBounded
  OBVIOUS
<1> QED BY <1>1, <1>2, <1>3, PTL DEF SensorsSpec

----------------------------------------------------------------------------
(* Clocks: each divider is the one its rate asks for, of any rate; and the *)
(* PLL drives the chip only once it has locked.                            *)

Latch == 0 .. LatchSize - 1
MainClocks == {LPC_IRC_OSC_CLK * sel : sel \in 1 .. 5}

Slowly(rate, count, step) == rate * count <= main_clock /\ main_clock < rate * (count + step)

\* A quotient, by a product: the most whole rates in the main clock.
LEMMA WholeRates ==
  ASSUME NEW rate \in Nat \ {0}, NEW clock \in Nat
  PROVE  /\ clock \div rate \in Nat /\ clock \div rate <= clock
         /\ rate * (clock \div rate) <= clock /\ clock < rate * (clock \div rate + 1)
<1>1. PICK q \in Int, r \in 0 .. rate - 1 : q = clock \div rate /\ clock = rate * q + r
  <2>1. clock \in Int
    OBVIOUS
  <2>2. PICK q \in Int, r \in 0 .. rate - 1 : r = clock % rate /\ clock = rate * q + r
    BY <2>1, Division, Zenon
  <2>3. (rate * q + r) \div rate = q
    BY DivUnique, Zenon
  <2> QED BY <2>2, <2>3, Zenon
<1>2. rate * (q + 1) = rate * q + rate /\ rate * q \in Int
  <2>1. rate * (q + 1) = rate * q + rate * 1 /\ rate * q \in Int /\ rate * 1 = rate
    BY <1>1, Distributes, Z3
  <2> QED BY <2>1
<1>3. q >= 0
  <2> SUFFICES ASSUME q < 0 PROVE FALSE
    BY <1>1
  <2>1. PICK d \in Int : d = -q /\ d >= 1 /\ -d = q
    BY <1>1
  <2>2. rate * q <= -rate
    BY <2>1, MulGrows
  <2> QED BY <1>1, <1>2, <2>2
<1>4. q <= clock
  <2>1. CASE q = 0
    BY <2>1
  <2>2. CASE q # 0
    <3>1. q \in Nat \ {0} /\ rate >= 1 /\ rate \in Int
      BY <1>1, <1>3, <2>2
    <3>2. q * rate >= q
      BY <3>1, MulGrows
    <3>3. q * rate = rate * q
      BY <3>1, Z3
    <3> QED BY <1>1, <1>2, <3>2, <3>3
  <2> QED BY <2>1, <2>2
<1> QED BY <1>1, <1>2, <1>3, <1>4

\* The main clock's values, and what a divider of them can be.
LEMMA MainClockRange ==
  /\ \A clock \in MainClocks : clock \in Nat /\ 12000000 <= clock /\ clock <= 60000000
  /\ \A clock \in MainClocks : clock \div adc_clk_Val \in 0 .. 7
                              /\ clock <= adc_clk_Val * (clock \div adc_clk_Val + 1)
<1>1. MainClocks = {12000000, 24000000, 36000000, 48000000, 60000000}
  BY DEF MainClocks, LPC_IRC_OSC_CLK
<1>2. /\ 12000000 \div 9000000 = 1 /\ 24000000 \div 9000000 = 2 /\ 36000000 \div 9000000 = 4
      /\ 48000000 \div 9000000 = 5 /\ 60000000 \div 9000000 = 6
  OBVIOUS
<1> QED BY <1>1, <1>2 DEF adc_clk_Val

\* The divisor of a rate, which fits the latch.
LEMMA DivisorFits ==
  ASSUME main_clock \in MainClocks, NEW baudrate \in Nat, baudrate >= 58
  PROVE  /\ Divisor(baudrate) \in Latch /\ Divisor(baudrate) % LatchSize = Divisor(baudrate)
         /\ Slowly(baudrate, 16 * Divisor(baudrate), 16)
<1>1. main_clock \in Nat /\ 12000000 <= main_clock /\ main_clock <= 60000000
  BY MainClockRange
<1>2. PICK div : div = Divisor(baudrate)
  OBVIOUS
<1>3. /\ div \in Nat /\ (baudrate * 16) * div <= main_clock
      /\ main_clock < (baudrate * 16) * (div + 1)
  <2>1. baudrate * 16 \in Nat \ {0} /\ main_clock \in Nat
    BY <1>1
  <2> QED BY <1>2, <2>1, WholeRates DEF Divisor
<1>4. div < 65536
  <2> SUFFICES ASSUME div >= 65536 PROVE FALSE
    BY <1>3
  <2>1. (baudrate * 16) * div >= (baudrate * 16) * 65536
    <3>1. PICK b \in Nat \ {0}, d \in Nat : b = baudrate * 16 /\ d = div /\ d >= 65536
      BY <1>3
    <3>2. b * d >= b * 65536
      BY <3>1, Z3
    <3> QED BY <3>1, <3>2
  <2> QED BY <1>1, <1>3, <2>1
<1>5. div \in Latch /\ div % LatchSize = div
  <2>1. PICK size \in Nat : size = LatchSize /\ div < size
    BY <1>4 DEF LatchSize
  <2>2. div % size = div /\ div \in 0 .. size - 1
    BY <1>3, <2>1
  <2> QED BY <2>1, <2>2 DEF Latch
<1>6. (baudrate * 16) * div = baudrate * (16 * div)
      /\ (baudrate * 16) * (div + 1) = baudrate * (16 * div + 16)
  BY <1>3, Z3
<1>7. Slowly(baudrate, 16 * div, 16)
  BY <1>3, <1>6 DEF Slowly
<1> QED BY <1>2, <1>5, <1>7

\* Whatever the rate, an UART's clock keeps its types and saves it; and its divisor is the one
\* of the rate, where an integer is computed for it.
LEMMA UartRate ==
  ASSUME main_clock \in MainClocks, NEW baudrate \in Nat, baudrate >= 58,
         uart_clk \in [baudrate: Nat, divisor: Latch, fractional: BOOLEAN]
  PROVE  /\ UartClk(baudrate) \in [baudrate: Nat, divisor: Latch, fractional: BOOLEAN]
         /\ UartClk(baudrate).baudrate = baudrate
         /\ baudrate <= 115200 => Slowly(baudrate, 16 * UartClk(baudrate).divisor, 16)
<1>1. PICK div : div = Divisor(baudrate)
  OBVIOUS
<1>2. div \in Latch /\ div % LatchSize = div /\ Slowly(baudrate, 16 * div, 16)
  BY <1>1, DivisorFits
<1>3. 12 \in Latch /\ 2 \in Latch
  <2>1. PICK size \in Nat : size = LatchSize /\ size > 12
    BY DEF LatchSize
  <2> QED BY <2>1 DEF Latch
<1> DEFINE ClockTypes == [baudrate: Nat, divisor: Latch, fractional: BOOLEAN]
<1>4. PICK saved \in ClockTypes : saved = [uart_clk EXCEPT !.baudrate = baudrate] /\ saved.baudrate = baudrate
  <2>1. [uart_clk EXCEPT !.baudrate = baudrate] \in ClockTypes
        /\ [uart_clk EXCEPT !.baudrate = baudrate].baudrate = baudrate
    OBVIOUS
  <2> HIDE DEF ClockTypes
  <2> QED BY <2>1, Zenon
<1>5. UartClk(baudrate) \in {saved, [saved EXCEPT !.divisor = div],
                            [saved EXCEPT !.divisor = 12, !.fractional = FALSE],
                            [saved EXCEPT !.divisor = 2, !.fractional = TRUE]}
  <2>1. UartClk(baudrate) \in {saved, [saved EXCEPT !.divisor = Divisor(baudrate) % LatchSize],
                               [saved EXCEPT !.divisor = 12, !.fractional = FALSE],
                               [saved EXCEPT !.divisor = 2, !.fractional = TRUE]}
    <3>1. CASE ByInteger(baudrate)
      BY <1>4, <3>1 DEF UartClk
    <3>2. CASE ~ByInteger(baudrate) /\ ~InTable(baudrate)
      BY <1>4, <3>2 DEF UartClk
    <3>3. CASE ~ByInteger(baudrate) /\ InTable(baudrate) /\ baudrate <= 250000
      BY <1>4, <3>3 DEF UartClk
    <3>4. CASE ~ByInteger(baudrate) /\ InTable(baudrate) /\ ~(baudrate <= 250000)
      BY <1>4, <3>4 DEF UartClk
    <3> QED BY <3>1, <3>2, <3>3, <3>4
  <2> QED BY <1>1, <1>2, <2>1
<1>6. ByInteger(baudrate) => UartClk(baudrate) = [saved EXCEPT !.divisor = div]
  <2>1. ByInteger(baudrate) =>
          UartClk(baudrate) = [saved EXCEPT !.divisor = Divisor(baudrate) % LatchSize]
    BY <1>4 DEF UartClk
  <2> QED BY <1>1, <1>2, <2>1
<1>7. /\ [saved EXCEPT !.divisor = div] \in ClockTypes /\ [saved EXCEPT !.divisor = div].divisor = div
      /\ [saved EXCEPT !.divisor = div].baudrate = baudrate
  BY <1>2, <1>4
<1>8. /\ [saved EXCEPT !.divisor = 12, !.fractional = FALSE] \in ClockTypes
      /\ [saved EXCEPT !.divisor = 12, !.fractional = FALSE].baudrate = baudrate
  BY <1>3, <1>4
<1>9. /\ [saved EXCEPT !.divisor = 2, !.fractional = TRUE] \in ClockTypes
      /\ [saved EXCEPT !.divisor = 2, !.fractional = TRUE].baudrate = baudrate
  BY <1>3, <1>4
<1>10. UartClk(baudrate) \in ClockTypes /\ UartClk(baudrate).baudrate = baudrate
  <2> HIDE DEF ClockTypes
  <2> QED BY <1>4, <1>5, <1>7, <1>8, <1>9
<1>11. ByInteger(baudrate) => UartClk(baudrate).divisor = div
  BY <1>6, <1>7
<1>12. baudrate <= 115200 => ByInteger(baudrate)
  BY DEF ByInteger
<1>13. baudrate <= 115200 => UartClk(baudrate).divisor = div
  BY <1>11, <1>12
<1> QED BY <1>2, <1>10, <1>13

\* The two halves of a period of the I2C clock.
LEMMA I2cRate ==
  ASSUME main_clock \in MainClocks, NEW clock \in Nat \ {0}
  PROVE  /\ I2cClk(clock) \in [clock: Nat, high: Nat, low: Nat] /\ I2cClk(clock).clock = clock
         /\ Slowly(clock, I2cClk(clock).high + I2cClk(clock).low, 1)
<1>1. main_clock \in Nat
  BY MainClockRange
<1>2. PICK scl : scl = main_clock \div clock
  OBVIOUS
<1>3. scl \in Nat /\ clock * scl <= main_clock /\ main_clock < clock * (scl + 1)
  BY <1>1, <1>2, WholeRates
<1>4. scl \div 2 \in Nat /\ scl - scl \div 2 \in Nat /\ scl \div 2 + (scl - scl \div 2) = scl
  BY <1>3
<1>5. I2cClk(clock) = [clock |-> clock, high |-> scl \div 2, low |-> scl - scl \div 2]
  BY <1>2 DEF I2cClk
<1>6. I2cClk(clock).high + I2cClk(clock).low = scl
  BY <1>4, <1>5
<1> QED BY <1>3, <1>4, <1>5, <1>6 DEF Slowly

\* The search of a prescaler ends, on one with which both dividers fit their registers and give
\* the fastest rate that is not above the one asked for.
LEMMA SspRate ==
  ASSUME main_clock \in MainClocks, NEW rate \in Nat, rate >= 923
  PROVE  /\ SspDividers(rate).prescale \in 2 .. 254 /\ SspDividers(rate).div \in 0 .. 255
         /\ Slowly(rate, SspDividers(rate).prescale * SspDividers(rate).div, SspDividers(rate).prescale)
<1>1. main_clock \in Nat /\ 12000000 <= main_clock /\ main_clock <= 60000000
  BY MainClockRange
<1>2. PICK div : div = main_clock \div rate
  OBVIOUS
<1>3. div \in Nat /\ rate * div <= main_clock /\ main_clock < rate * (div + 1)
  <2>1. rate \in Nat \ {0} /\ main_clock \in Nat
    BY <1>1
  <2> QED BY <1>2, <2>1, WholeRates
<1>4. div <= 65023
  <2> SUFFICES ASSUME div >= 65024 PROVE FALSE
    BY <1>3
  <2>1. rate * div >= 923 * 65024
    <3>1. rate * div >= 923 * div
      BY <1>3, Z3
    <3> QED BY <1>3, <3>1
  <2> QED BY <1>1, <1>3, <2>1
<1> DEFINE First(p) == Fits(div, p) /\ \A q \in 2 .. p - 1 : ~Fits(div, q)
<1>5. \E p \in 2 .. 254 : First(p)
  <2>1. PICK S : S = {p \in 2 .. 254 : Fits(div, p)}
    OBVIOUS
  <2>2. 254 \in S
    <3>1. div \div 254 <= 255 /\ 254 % 2 = 0
      BY <1>3, <1>4
    <3> QED BY <2>1, <3>1 DEF Fits
  <2>3. PICK p \in S : \A q \in S : p <= q
    <3>1. S \subseteq Nat /\ S # {}
      BY <2>1, <2>2
    <3> QED BY <3>1, LeastNat
  <2>4. ASSUME NEW q \in 2 .. p - 1 PROVE ~Fits(div, q)
    <3>1. p \in 2 .. 254
      BY <2>1
    <3>2. q \in 2 .. 254 /\ ~(p <= q)
      BY <3>1
    <3> QED BY <2>1, <2>3, <3>2
  <2>5. p \in 2 .. 254 /\ Fits(div, p)
    BY <2>1
  <2> QED BY <2>4, <2>5
<1>6. PICK p : p = Prescale(rate)
  OBVIOUS
<1>7. p \in 2 .. 254 /\ Fits(div, p)
  <2>1. p = CHOOSE x \in 2 .. 254 : First(x)
    BY <1>2, <1>6 DEF Prescale
  <2>2. p \in 2 .. 254 /\ First(p)
    <3> HIDE DEF First
    <3> QED BY <1>5, <2>1, Zenon
  <2> QED BY <2>2
<1>8. PICK d : d = div \div p
  OBVIOUS
<1>9. d \in 0 .. 255 /\ p * d <= div /\ div < p * (d + 1)
  <2>1. p \in Nat \ {0}
    BY <1>7
  <2>2. d \in Nat /\ p * d <= div /\ div < p * (d + 1)
    BY <1>3, <1>8, <2>1, WholeRates
  <2>3. d <= 255
    BY <1>7, <1>8 DEF Fits
  <2> QED BY <2>2, <2>3
<1>10. SspDividers(rate) = [prescale |-> p, div |-> d]
  BY <1>2, <1>6, <1>8 DEF SspDividers
<1>11. PICK count : count = p * d
  OBVIOUS
<1>12. count \in Nat /\ count <= div /\ div + 1 <= count + p
  <2>1. p * (d + 1) = p * d + p /\ p * d \in Nat
    BY <1>7, <1>9, Z3
  <2> QED BY <1>3, <1>7, <1>9, <1>11, <2>1
<1>13. rate * count <= rate * div /\ rate * (div + 1) <= rate * (count + p)
  <2>1. \A x, y \in Nat : x <= y => rate * x <= rate * y
    BY Z3
  <2>2. div + 1 \in Nat /\ count + p \in Nat
    BY <1>3, <1>7, <1>12
  <2> QED BY <1>3, <1>12, <2>1, <2>2
<1>14. rate * count \in Int /\ rate * div \in Int /\ rate * (div + 1) \in Int /\ rate * (count + p) \in Int
  BY <1>3, <1>7, <1>12
<1>15. Slowly(rate, count, p)
  BY <1>1, <1>3, <1>13, <1>14 DEF Slowly
<1> QED BY <1>7, <1>9, <1>10, <1>11, <1>15

\* The rate achieved, which is the one saved, is at least the one asked for; its dividers are
\* the right ones for it too.
LEMMA SspAchieved ==
  ASSUME main_clock \in MainClocks, NEW rate \in Nat, rate >= 923, SspDividers(rate).div > 0,
         NEW current, current = main_clock \div (SspDividers(rate).prescale * SspDividers(rate).div)
  PROVE  /\ current \in Nat /\ current >= 923
         /\ Slowly(current, SspDividers(rate).prescale * SspDividers(rate).div, SspDividers(rate).prescale)
<1>1. main_clock \in Nat
  BY MainClockRange
<1>2. PICK p, d : p = SspDividers(rate).prescale /\ d = SspDividers(rate).div
  OBVIOUS
<1>3. p \in 2 .. 254 /\ d \in 1 .. 255 /\ Slowly(rate, p * d, p)
  BY <1>2, SspRate
<1>4. PICK count : count = p * d
  OBVIOUS
<1>5. count \in Nat \ {0} /\ p * d \in Nat
  <2>1. p * d \in Nat /\ p * d >= 1
    BY <1>3, Z3
  <2> QED BY <1>4, <2>1
<1>6. current \in Nat /\ count * current <= main_clock /\ main_clock < count * (current + 1)
  BY <1>1, <1>2, <1>4, <1>5, WholeRates
<1>7. current >= rate
  <2> SUFFICES ASSUME current + 1 <= rate PROVE FALSE
    BY <1>6
  <2>1. count * (current + 1) <= count * rate
    BY <1>5, <1>6, Z3
  <2>2. rate * count <= main_clock /\ rate * count = count * rate
    <3>1. rate * count = count * rate
      BY <1>5, Z3
    <3> QED BY <1>3, <1>4, <3>1 DEF Slowly
  <2>3. count * (current + 1) \in Int /\ count * rate \in Int
    BY <1>5, <1>6
  <2> QED BY <1>1, <1>6, <2>1, <2>2, <2>3
<1>8. count <= p * current
  <2>1. p * d <= p * current
    <3>1. d <= current /\ p \in Nat /\ d \in Nat
      BY <1>3, <1>6, <1>7
    <3> QED BY <1>6, <3>1, Z3
  <2> QED BY <1>4, <2>1
<1>9. current * count = count * current /\ current * (count + p) = count * current + p * current
      /\ count * (current + 1) = count * current + count /\ count * current \in Nat /\ p * current \in Nat
  <2>1. p \in Nat
    BY <1>3
  <2> QED BY <1>5, <1>6, <2>1, Z3
<1>10. current * count <= main_clock /\ main_clock < current * (count + p)
  <2>1. PICK a, b : a = count * current /\ b = p * current
    OBVIOUS
  <2> QED BY <1>1, <1>5, <1>6, <1>8, <1>9, <2>1
<1> QED BY <1>2, <1>4, <1>6, <1>7, <1>10 DEF Slowly

\* The divider of the ADC: bits that were set before only make it slower.
LEMMA AdcRate ==
  ASSUME main_clock \in MainClocks, adc_clkdiv \in 0 .. 7
  PROVE  AdcClkDiv \in 0 .. 7 /\ main_clock <= adc_clk_Val * (AdcClkDiv + 1)
<1>1. PICK a \in 0 .. 7 : a = main_clock \div adc_clk_Val /\ main_clock <= adc_clk_Val * (a + 1)
  BY MainClockRange
<1>2. PICK b \in 0 .. 7 : b = adc_clkdiv
  OBVIOUS
<1> DEFINE Bit(x, w) == (x \div w) % 2
           Weights == {1, 2, 4, 8, 16, 32, 64, 128}
<1>3. \A x \in 0 .. 7 : /\ x = Bit(x, 1) + 2 * Bit(x, 2) + 4 * Bit(x, 4)
                        /\ \A w \in {8, 16, 32, 64, 128} : Bit(x, w) = 0
                        /\ Bit(x, 1) \in {0, 1} /\ Bit(x, 2) \in {0, 1} /\ Bit(x, 4) \in {0, 1}
  OBVIOUS
<1>4. \E count \in 0 .. 7 : \A w \in Weights : Bit(count, w) = 1 <=> (Bit(a, w) = 1 \/ Bit(b, w) = 1)
  <2>1. PICK x1 \in {0, 1}, x2 \in {0, 1}, x4 \in {0, 1} :
          /\ x1 = 1 <=> (Bit(a, 1) = 1 \/ Bit(b, 1) = 1)
          /\ x2 = 1 <=> (Bit(a, 2) = 1 \/ Bit(b, 2) = 1)
          /\ x4 = 1 <=> (Bit(a, 4) = 1 \/ Bit(b, 4) = 1)
    OBVIOUS
  <2>2. PICK count \in 0 .. 7 : count = x1 + 2 * x2 + 4 * x4
    OBVIOUS
  <2>3. Bit(count, 1) = x1 /\ Bit(count, 2) = x2 /\ Bit(count, 4) = x4
    BY <2>2
  <2>4. \A w \in {8, 16, 32, 64, 128} : Bit(count, w) = 0 /\ Bit(a, w) = 0 /\ Bit(b, w) = 0
    BY <1>3
  <2>5. \A w \in Weights : Bit(count, w) = 1 <=> (Bit(a, w) = 1 \/ Bit(b, w) = 1)
    <3> HIDE DEF Bit
    <3> QED BY <2>1, <2>3, <2>4
  <2> HIDE DEF Bit
  <2> QED BY <2>5
<1>5. \E count \in 0 .. 255 : BitsOf(count) = BitsOf(a) \cup BitsOf(b)
  <2>1. PICK count \in 0 .. 7 : \A w \in Weights : Bit(count, w) = 1 <=> (Bit(a, w) = 1 \/ Bit(b, w) = 1)
    BY <1>4
  <2>2. \A x : BitsOf(x) = {w \in Weights : Bit(x, w) = 1}
    BY DEF BitsOf
  <2>3. BitsOf(count) = BitsOf(a) \cup BitsOf(b)
    <3> HIDE DEF Bit, Weights
    <3> QED BY <2>1, <2>2
  <2>4. count \in 0 .. 255
    OBVIOUS
  <2> QED BY <2>3, <2>4
<1>6. AdcClkDiv \in 0 .. 255 /\ BitsOf(AdcClkDiv) = BitsOf(a) \cup BitsOf(b)
  <2> DEFINE Both(x) == BitsOf(x) = BitsOf(a) \cup BitsOf(b)
  <2>1. AdcClkDiv = CHOOSE x \in 0 .. 255 : Both(x)
    BY <1>1, <1>2 DEF AdcClkDiv
  <2>2. \E x \in 0 .. 255 : Both(x)
    BY <1>5
  <2>3. AdcClkDiv \in 0 .. 255 /\ Both(AdcClkDiv)
    <3> HIDE DEF Both
    <3> QED BY <2>1, <2>2, Zenon
  <2> QED BY <2>3
<1>7. PICK count \in 0 .. 255 : count = AdcClkDiv
  BY <1>6
<1>8. \A w \in Weights : Bit(count, w) = 1 <=> (Bit(a, w) = 1 \/ Bit(b, w) = 1)
  <2>1. \A x : BitsOf(x) = {w \in Weights : Bit(x, w) = 1}
    BY DEF BitsOf
  <2>2. BitsOf(count) = BitsOf(a) \cup BitsOf(b)
    BY <1>6, <1>7
  <2> HIDE DEF Bit, Weights
  <2> QED BY <2>1, <2>2
<1>9. \A w \in {8, 16, 32, 64, 128} : Bit(count, w) # 1
  <2>1. \A w \in {8, 16, 32, 64, 128} : w \in Weights /\ Bit(a, w) = 0 /\ Bit(b, w) = 0
    BY <1>3
  <2> HIDE DEF Bit
  <2> QED BY <1>8, <2>1
<1>10. count \in 0 .. 7
  BY <1>9
<1>11. a <= count
  <2>1. (Bit(a, 1) = 1 => Bit(count, 1) = 1) /\ (Bit(a, 2) = 1 => Bit(count, 2) = 1)
        /\ (Bit(a, 4) = 1 => Bit(count, 4) = 1)
    <3> HIDE DEF Bit
    <3> QED BY <1>8
  <2> HIDE DEF Bit
  <2> QED BY <1>3, <1>10, <2>1
<1>12. main_clock <= adc_clk_Val * (count + 1)
  <2>1. main_clock \in Nat
    BY MainClockRange
  <2> QED BY <1>1, <1>10, <1>11, <2>1 DEF adc_clk_Val
<1> QED BY <1>7, <1>10, <1>12

\* Where clock_config stands, and what is saved of each block that was turned on.
ConfigStep ==
    /\ main_clk \in {"irc", "pll"} /\ pll \in [m: 0 .. 5, locked: BOOLEAN]
    /\ main_clock \in MainClocks /\ freq_sel \in 1 .. 5
    /\ clk_pc \in {"idle", "flash", "pll", "lock", "propagate", "down"}
    /\ main_clk = "pll" => pll.m # 0 /\ pll.locked /\ flash = FlashFor(pll.m)
    /\ clk_pc \in {"flash", "pll", "lock", "down"} => main_clk = "irc"
    /\ clk_pc \in {"pll", "lock"} => flash = FlashFor(freq_sel) /\ main_clock = freq_sel * LPC_IRC_OSC_CLK
    /\ clk_pc = "lock" => pll.m = freq_sel
    /\ clk_pc \in {"propagate", "idle"} => main_clock = RealClock
RatesSaved ==
    /\ uart_clk \in [baudrate: Nat, divisor: Latch, fractional: BOOLEAN]
    /\ uart_clk.baudrate = 0 \/ uart_clk.baudrate >= 58
    /\ i2c_clk \in [clock: Nat, high: Nat, low: Nat]
    /\ ssp_clk \in [current: Nat, prescale: Nat, div: Nat]
    /\ ssp_clk.current = 0 \/ ssp_clk.current >= 923
    /\ adc_power \in BOOLEAN /\ adc_clkdiv \in 0 .. 7

UartFollows ==
    uart_clk.baudrate # 0 /\ uart_clk.baudrate <= 115200 => Slowly(uart_clk.baudrate, 16 * uart_clk.divisor, 16)
I2cFollows == i2c_clk.clock # 0 => Slowly(i2c_clk.clock, i2c_clk.high + i2c_clk.low, 1)
SspFollows ==
    ssp_clk.current # 0 => Slowly(ssp_clk.current, ssp_clk.prescale * ssp_clk.div, ssp_clk.prescale)
AdcFollows == adc_power => main_clock <= adc_clk_Val * (adc_clkdiv + 1)
ClocksInv ==
    /\ ConfigStep /\ RatesSaved
    /\ clk_pc = "idle" => UartFollows /\ I2cFollows /\ SspFollows /\ AdcFollows

\* A step of clock_config, or the PLL's, leaves the sources of the clock in order.
LEMMA ConfigIsSafe ==
  ASSUME ConfigStep, [ClocksNext]_clocks_vars
  PROVE  ConfigStep'
<1> USE DEF ConfigStep, RealClock
<1>1. \A sel \in 1 .. 5 : sel * LPC_IRC_OSC_CLK \in MainClocks
  <2>1. \A sel \in 1 .. 5 : sel * 12000000 = 12000000 * sel
    OBVIOUS
  <2> QED BY <2>1 DEF MainClocks, LPC_IRC_OSC_CLK
<1>2. CASE UNCHANGED clock_vars
  BY <1>2 DEF clock_vars
<1>3. CASE clock_config_begins
  BY <1>3, ClockConstants DEF clock_config_begins
<1>4. CASE flash_accelerator_config
  BY <1>1, <1>4 DEF flash_accelerator_config, LPC_IRC_OSC_CLK
<1>5. CASE PowerUpPll
  BY <1>5 DEF PowerUpPll
<1>6. CASE PllLocks
  BY <1>6 DEF PllLocks
<1>7. CASE SwitchToPll
  BY <1>7 DEF SwitchToPll
<1>8. CASE propagate_main_clock
  BY <1>8 DEF propagate_main_clock
<1>9. CASE enter_deep_power_down
  BY <1>9 DEF enter_deep_power_down
<1>10. uart_clk_on \/ uart_clk_off \/ i2c_on \/ i2c_off \/ ssp_on \/ ssp_off \/ AdcPower
       \/ UNCHANGED clocks_vars => UNCHANGED clock_vars
  BY DEF uart_clk_on, uart_clk_off, i2c_on, i2c_off, ssp_on, ssp_off, AdcPower, clocks_vars
<1> QED BY <1>2, <1>3, <1>4, <1>5, <1>6, <1>7, <1>8, <1>9, <1>10 DEF ClocksNext

\* For whatever rates the blocks are turned on with, and however often the main clock changes,
\* each has the rate it asked for; and the chip never runs on a PLL that has not locked.
THEOREM RatesKeepFollowing == ClocksSpec => []RatesFollow
<1>1. ClocksInit => ClocksInv
  <2> SUFFICES ASSUME ClocksInit PROVE ClocksInv
    OBVIOUS
  <2>1. ConfigStep
    <3>1. LPC_IRC_OSC_CLK \in MainClocks
      BY DEF MainClocks, LPC_IRC_OSC_CLK
    <3> QED BY <3>1 DEF ClocksInit, ConfigStep, RealClock
  <2>2. RatesSaved
    <3>1. 1 \in Latch
      <4>1. PICK size \in Nat : size = LatchSize /\ size > 1
        BY DEF LatchSize
      <4> QED BY <4>1 DEF Latch
    <3>2. /\ uart_clk \in [baudrate: Nat, divisor: Latch, fractional: BOOLEAN]
          /\ uart_clk.baudrate = 0
      BY <3>1 DEF ClocksInit
    <3>3. /\ i2c_clk \in [clock: Nat, high: Nat, low: Nat]
          /\ ssp_clk \in [current: Nat, prescale: Nat, div: Nat] /\ ssp_clk.current = 0
      BY DEF ClocksInit, I2cOff, SspOff
    <3>4. adc_power \in BOOLEAN /\ adc_clkdiv \in 0 .. 7
      <4>1. adc_power = FALSE /\ adc_clkdiv = 0
        BY DEF ClocksInit
      <4>2. FALSE \in BOOLEAN /\ 0 \in 0 .. 7
        OBVIOUS
      <4> QED BY <4>1, <4>2, Zenon
    <3> QED BY <3>2, <3>3, <3>4 DEF RatesSaved
  <2>3. UartFollows /\ I2cFollows /\ SspFollows /\ AdcFollows
    BY DEF ClocksInit, I2cOff, SspOff, UartFollows, I2cFollows, SspFollows, AdcFollows
  <2> QED BY <2>1, <2>2, <2>3 DEF ClocksInv
<1>2. ClocksInv /\ [ClocksNext]_clocks_vars => ClocksInv'
  <2> SUFFICES ASSUME ClocksInv, [ClocksNext]_clocks_vars PROVE ClocksInv'
    OBVIOUS
  <2>0. ConfigStep /\ ConfigStep' /\ RatesSaved
    BY ConfigIsSafe DEF ClocksInv
  <2>1. main_clock \in MainClocks
    BY <2>0 DEF ConfigStep
  <2>2. CASE UNCHANGED divider_vars /\ clk_pc' # "idle"
    BY <2>0, <2>2 DEF ClocksInv, RatesSaved, divider_vars, adc_clk
  <2>3. CASE UNCHANGED <<divider_vars, main_clock, clk_pc>>
    <3>1. RatesSaved'
      BY <2>0, <2>3 DEF RatesSaved, divider_vars, adc_clk
    <3>2. UNCHANGED <<UartFollows, I2cFollows, SspFollows, AdcFollows>>
      BY <2>3 DEF divider_vars, adc_clk, UartFollows, I2cFollows, SspFollows, AdcFollows, Slowly
    <3> QED BY <2>0, <2>3, <3>1, <3>2 DEF ClocksInv
  <2>4. CASE uart_clk_on
    <3>1. clk_pc = "idle" /\ UNCHANGED <<clock_vars, i2c_clk, ssp_clk, adc_clk>>
      BY <2>4 DEF uart_clk_on, Ready
    <3>2. PICK baudrate \in BaudRates : uart_clk' = UartClk(baudrate)
      BY <2>4 DEF uart_clk_on
    <3>3. baudrate \in Nat /\ baudrate >= 58
      BY ClockConstants
    <3>4. /\ uart_clk' \in [baudrate: Nat, divisor: Latch, fractional: BOOLEAN]
          /\ uart_clk'.baudrate = baudrate
      BY <2>0, <2>1, <3>2, <3>3, UartRate DEF RatesSaved
    <3>5. baudrate <= 115200 => Slowly(baudrate, 16 * uart_clk'.divisor, 16)
      BY <2>0, <2>1, <3>2, <3>3, UartRate DEF RatesSaved
    <3>6. UartFollows'
      BY <3>1, <3>3, <3>4, <3>5 DEF UartFollows, Slowly, clock_vars
    <3>7. (I2cFollows /\ SspFollows /\ AdcFollows)'
      BY <3>1 DEF ClocksInv, I2cFollows, SspFollows, AdcFollows, Slowly, clock_vars, adc_clk
    <3>8. RatesSaved'
      BY <2>0, <3>1, <3>3, <3>4 DEF RatesSaved, adc_clk
    <3> QED BY <2>0, <3>6, <3>7, <3>8 DEF ClocksInv
  <2>5. CASE uart_clk_off
    <3>1. clk_pc = "idle" /\ UNCHANGED <<clock_vars, i2c_clk, ssp_clk, adc_clk>>
          /\ uart_clk' = [uart_clk EXCEPT !.baudrate = 0]
      BY <2>5 DEF uart_clk_off, Ready
    <3>2. RatesSaved' /\ UartFollows'
      BY <2>0, <3>1 DEF RatesSaved, UartFollows, adc_clk
    <3>3. (I2cFollows /\ SspFollows /\ AdcFollows)'
      BY <3>1 DEF ClocksInv, I2cFollows, SspFollows, AdcFollows, Slowly, clock_vars, adc_clk
    <3> QED BY <2>0, <3>2, <3>3 DEF ClocksInv
  <2>6. CASE i2c_on \/ i2c_off
    <3>1. clk_pc = "idle" /\ UNCHANGED <<clock_vars, uart_clk, ssp_clk, adc_clk>>
      BY <2>6 DEF i2c_on, i2c_off, Ready
    <3>2. (UartFollows /\ SspFollows /\ AdcFollows)'
      BY <3>1 DEF ClocksInv, UartFollows, SspFollows, AdcFollows, Slowly, clock_vars, adc_clk
    <3>3. i2c_clk' \in [clock: Nat, high: Nat, low: Nat] /\ I2cFollows'
      <4>1. CASE i2c_on
        <5>1. PICK clock \in Nat \ {0} : i2c_clk' = I2cClk(clock)
          BY <4>1, ClockConstants DEF i2c_on
        <5> QED BY <2>1, <3>1, <5>1, I2cRate DEF I2cFollows, Slowly, clock_vars
      <4>2. CASE i2c_off
        BY <4>2 DEF i2c_off, I2cOff, I2cFollows
      <4> QED BY <2>6, <4>1, <4>2
    <3>4. RatesSaved'
      BY <2>0, <3>1, <3>3 DEF RatesSaved, adc_clk
    <3> QED BY <2>0, <3>2, <3>3, <3>4 DEF ClocksInv
  <2>7. CASE ssp_on \/ ssp_off
    <3>1. clk_pc = "idle" /\ UNCHANGED <<clock_vars, uart_clk, i2c_clk, adc_clk>>
      BY <2>7 DEF ssp_on, ssp_off, Ready
    <3>2. (UartFollows /\ I2cFollows /\ AdcFollows)'
      BY <3>1 DEF ClocksInv, UartFollows, I2cFollows, AdcFollows, Slowly, clock_vars, adc_clk
    <3>3. /\ ssp_clk' \in [current: Nat, prescale: Nat, div: Nat]
          /\ (ssp_clk'.current = 0 \/ ssp_clk'.current >= 923) /\ SspFollows'
      <4>1. CASE ssp_on
        <5>1. PICK rate \in SspRates :
                /\ SspDividers(rate).div > 0
                /\ ssp_clk' = [current |-> main_clock \div (SspDividers(rate).prescale
                                                            * SspDividers(rate).div),
                               prescale |-> SspDividers(rate).prescale,
                               div |-> SspDividers(rate).div]
          BY <4>1 DEF ssp_on
        <5>2. rate \in Nat /\ rate >= 923
          BY ClockConstants
        <5>3. PICK current : current = main_clock \div (SspDividers(rate).prescale
                                                        * SspDividers(rate).div)
          OBVIOUS
        <5>4. /\ current \in Nat /\ current >= 923
              /\ Slowly(current, SspDividers(rate).prescale * SspDividers(rate).div,
                        SspDividers(rate).prescale)
          BY <2>1, <5>1, <5>2, <5>3, SspAchieved
        <5>5. SspDividers(rate).prescale \in Nat /\ SspDividers(rate).div \in Nat
          BY <2>1, <5>2, SspRate
        <5> QED BY <3>1, <5>1, <5>3, <5>4, <5>5 DEF SspFollows, Slowly, clock_vars
      <4>2. CASE ssp_off
        BY <4>2 DEF ssp_off, SspOff, SspFollows
      <4> QED BY <2>7, <4>1, <4>2
    <3>4. RatesSaved'
      BY <2>0, <3>1, <3>3 DEF RatesSaved, adc_clk
    <3> QED BY <2>0, <3>2, <3>3, <3>4 DEF ClocksInv
  <2>8. CASE AdcPower
    <3>1. clk_pc = "idle" /\ UNCHANGED <<clock_vars, uart_clk, i2c_clk, ssp_clk>>
          /\ adc_power' = ~adc_power /\ adc_clkdiv' = IF adc_power' THEN AdcClkDiv ELSE adc_clkdiv
      BY <2>8 DEF AdcPower, Ready
    <3>2. (UartFollows /\ I2cFollows /\ SspFollows)'
      BY <3>1 DEF ClocksInv, UartFollows, I2cFollows, SspFollows, Slowly, clock_vars
    <3>3. AdcClkDiv \in 0 .. 7 /\ main_clock <= adc_clk_Val * (AdcClkDiv + 1)
      BY <2>0, <2>1, AdcRate DEF RatesSaved
    <3>4. adc_power' \in BOOLEAN /\ adc_clkdiv' \in 0 .. 7 /\ AdcFollows'
      BY <2>0, <3>1, <3>3 DEF RatesSaved, AdcFollows, clock_vars
    <3>5. RatesSaved'
      BY <2>0, <3>1, <3>4 DEF RatesSaved
    <3> QED BY <2>0, <3>2, <3>4, <3>5 DEF ClocksInv
  <2>9. CASE propagate_main_clock
    <3>1. main_clock' = main_clock /\ adc_power' = adc_power
          /\ adc_clkdiv' \in {AdcClkDiv} \cup (IF adc_power THEN {} ELSE {adc_clkdiv})
          /\ uart_clk_update /\ i2c_clock_update /\ ssp_clk_update
      BY <2>9 DEF propagate_main_clock
    <3>2. /\ uart_clk' \in [baudrate: Nat, divisor: Latch, fractional: BOOLEAN]
          /\ uart_clk'.baudrate = 0 \/ uart_clk'.baudrate >= 58
          /\ UartFollows'
      <4>1. CASE uart_clk.baudrate = 0
        BY <2>0, <3>1, <4>1 DEF uart_clk_update, RatesSaved, UartFollows
      <4>2. CASE uart_clk.baudrate # 0
        <5>1. PICK baudrate \in Nat : baudrate = uart_clk.baudrate /\ baudrate >= 58
          BY <2>0, <4>2 DEF RatesSaved
        <5>2. uart_clk' = UartClk(baudrate)
          BY <3>1, <4>2, <5>1 DEF uart_clk_update
        <5>3. /\ uart_clk' \in [baudrate: Nat, divisor: Latch, fractional: BOOLEAN]
              /\ uart_clk'.baudrate = baudrate
          BY <2>0, <2>1, <5>1, <5>2, UartRate DEF RatesSaved
        <5>4. baudrate <= 115200 => Slowly(baudrate, 16 * uart_clk'.divisor, 16)
          BY <2>0, <2>1, <5>1, <5>2, UartRate DEF RatesSaved
        <5> QED BY <3>1, <5>1, <5>3, <5>4 DEF UartFollows, Slowly
      <4> QED BY <4>1, <4>2
    <3>3. i2c_clk' \in [clock: Nat, high: Nat, low: Nat] /\ I2cFollows'
      <4>1. CASE i2c_clk.clock = 0
        BY <2>0, <3>1, <4>1 DEF i2c_clock_update, RatesSaved, I2cFollows
      <4>2. CASE i2c_clk.clock # 0
        <5>1. PICK clock \in Nat \ {0} : clock = i2c_clk.clock
          BY <2>0, <4>2 DEF RatesSaved
        <5>2. i2c_clk' = I2cClk(clock)
          BY <3>1, <4>2, <5>1 DEF i2c_clock_update
        <5> QED BY <2>1, <3>1, <5>2, I2cRate DEF I2cFollows, Slowly
      <4> QED BY <4>1, <4>2
    <3>4. /\ ssp_clk' \in [current: Nat, prescale: Nat, div: Nat]
          /\ ssp_clk'.current = 0 \/ ssp_clk'.current >= 923
          /\ SspFollows'
      <4>1. CASE ssp_clk.current = 0
        BY <2>0, <3>1, <4>1 DEF ssp_clk_update, RatesSaved, SspFollows
      <4>2. CASE ssp_clk.current # 0
        <5>1. PICK rate \in Nat : rate = ssp_clk.current /\ rate >= 923
          BY <2>0, <4>2 DEF RatesSaved
        <5>2. ssp_clk' = [ssp_clk EXCEPT !.prescale = SspDividers(rate).prescale,
                                         !.div = SspDividers(rate).div]
          BY <3>1, <4>2, <5>1 DEF ssp_clk_update
        <5>3. /\ SspDividers(rate).prescale \in Nat /\ SspDividers(rate).div \in Nat
              /\ Slowly(rate, SspDividers(rate).prescale * SspDividers(rate).div,
                        SspDividers(rate).prescale)
          BY <2>1, <5>1, SspRate
        <5>4. ssp_clk \in [current: Nat, prescale: Nat, div: Nat]
          BY <2>0 DEF RatesSaved
        <5>5. /\ ssp_clk'.current = rate /\ ssp_clk'.prescale = SspDividers(rate).prescale
              /\ ssp_clk'.div = SspDividers(rate).div
              /\ ssp_clk' \in [current: Nat, prescale: Nat, div: Nat]
          <6>1. PICK p \in Nat, d \in Nat : p = SspDividers(rate).prescale /\ d = SspDividers(rate).div
            BY <5>3
          <6>2. ssp_clk' = [ssp_clk EXCEPT !.prescale = p, !.div = d]
            BY <5>2, <6>1
          <6>3. /\ ssp_clk'.current = rate /\ ssp_clk'.prescale = p /\ ssp_clk'.div = d
                /\ ssp_clk' \in [current: Nat, prescale: Nat, div: Nat]
            <7>1. PICK c \in Nat, pp \in Nat, dd \in Nat :
                    ssp_clk = [current |-> c, prescale |-> pp, div |-> dd] /\ c = rate
              BY <5>1, <5>4
            <7>2. ssp_clk' = [current |-> c, prescale |-> p, div |-> d]
              BY <6>2, <7>1
            <7> QED BY <6>1, <7>1, <7>2
          <6> QED BY <6>1, <6>3
        <5> QED BY <3>1, <5>1, <5>3, <5>5 DEF SspFollows, Slowly
      <4> QED BY <4>1, <4>2
    <3>5. adc_clkdiv' \in 0 .. 7 /\ adc_power' \in BOOLEAN /\ AdcFollows'
      <4>1. AdcClkDiv \in 0 .. 7 /\ main_clock <= adc_clk_Val * (AdcClkDiv + 1)
        BY <2>0, <2>1, AdcRate DEF RatesSaved
      <4> QED BY <2>0, <3>1, <4>1 DEF RatesSaved, AdcFollows
    <3>6. RatesSaved'
      BY <3>2, <3>3, <3>4, <3>5 DEF RatesSaved
    <3> QED BY <2>0, <3>2, <3>3, <3>4, <3>5, <3>6 DEF ClocksInv
  <2>10. clock_config_begins \/ flash_accelerator_config \/ PowerUpPll \/ SwitchToPll
         \/ enter_deep_power_down => UNCHANGED divider_vars /\ clk_pc' # "idle"
    BY DEF clock_config_begins, flash_accelerator_config, PowerUpPll, SwitchToPll,
           enter_deep_power_down
  <2>11. PllLocks \/ UNCHANGED clocks_vars => UNCHANGED <<divider_vars, main_clock, clk_pc>>
    BY DEF PllLocks, clocks_vars, clock_vars
  <2> QED BY <2>2, <2>3, <2>4, <2>5, <2>6, <2>7, <2>8, <2>9, <2>10, <2>11 DEF ClocksNext
<1>3. ClocksInv => RatesFollow
  <2> SUFFICES ASSUME ClocksInv PROVE RatesFollow
    OBVIOUS
  <2>1. main_clk = "pll" => pll.m # 0 /\ pll.locked /\ flash = FlashFor(pll.m)
    BY DEF ClocksInv, ConfigStep
  <2>2. ASSUME clk_pc = "idle"
        PROVE  /\ main_clock = RealClock
               /\ \A rate, count, step : Slowly(rate, count, step) => Gives(rate, count, step)
               /\ UartFollows /\ I2cFollows /\ SspFollows /\ AdcFollows
    BY <2>2 DEF ClocksInv, ConfigStep, Slowly, Gives
  <2> QED
    BY <2>1, <2>2 DEF RatesFollow, UartFollows, I2cFollows, SspFollows, AdcFollows
<1> QED BY <1>1, <1>2, <1>3, PTL DEF ClocksSpec
=============================================================================
