------------------------------ MODULE RadioLink ------------------------------
(***************************************************************************)
(* The radio link: the sensor's board (Sensor/main.c) sends one message at *)
(* a time and resends it until it is acknowledged; the gateway's board     *)
(* (Gateway/main.c) acknowledges every message and prints it.  Both drive  *)
(* a CC1101 chip through cc1101.c.                                         *)
(*                                                                         *)
(* Each board is a loop without an operating system.  Its steps interleave *)
(* with those of the other board, with the ends of transmissions and with  *)
(* the interrupt of the chip's GDO0 pin, which only sets check_rx.         *)
(*                                                                         *)
(* A message is its number; a frame carries the number modulo IdMod and    *)
(* that is all the code compares.                                          *)
(***************************************************************************)
EXTENDS Integers, Sequences, FiniteSetsExt

CONSTANTS
    FifoSize,       \* CC1101_FIFO_SIZE, in bytes
    DataSize,       \* bytes of a message's frame, with its length byte
    AckSize,        \* bytes of an acknowledgement's frame: LEN_ENTETE
    IdMod,          \* message ids are taken modulo this: 256
    LoopLimit,      \* iterations out of RX before a board forces it: 10
    Interference,   \* whether other transmitters can occupy the channel
    MaxMessages,    \* bound: messages the sensor sends
    MaxForeign,     \* bound: frames of other transmitters that are received
    None            \* no frame

ASSUME SizesType == FifoSize \in Nat /\ DataSize \in 1 .. FifoSize /\ AckSize \in 1 .. FifoSize
ASSUME IdModType == IdMod \in Nat /\ IdMod >= 2
ASSUME LimitsType == LoopLimit \in Nat /\ MaxMessages \in Nat /\ MaxForeign \in Nat
ASSUME InterferenceType == Interference \in BOOLEAN

Nodes    == {"sensor", "gateway"}
Other(n) == IF n = "sensor" THEN "gateway" ELSE "sensor"

Frames == [kind : {"data", "ack", "foreign"}, number : 0 .. MaxMessages]
Foreign == [kind |-> "foreign", number |-> 0]
ASSUME NoneType == None \notin Frames

StatusBytes == 2        \* appended to each frame in the RX FIFO

VARIABLES
    chip,           \* state of each CC1101: "IDLE", "RX", "TX", "OVERFLOW"
    fifo,           \* complete frames of each RX FIFO
    gdo0,           \* level of each GDO0 pin
    air,            \* the frame each chip is transmitting
    check_rx, loops,
    pc,             \* where each main loop is
    sent,           \* number of the sensor's last message
    wait_acq,
    held,           \* the frame the gateway is handling
    printed,        \* history: number of the last message printed
    foreign         \* history: foreign frames received

chips  == <<chip, fifo, gdo0, air>>
boards == <<check_rx, loops, pc>>
messages == <<sent, wait_acq, held, printed>>
vars   == <<chips, boards, messages, foreign>>

Init ==
    /\ chip = [n \in Nodes |-> "IDLE"]                  \* rf_config
    /\ fifo = [n \in Nodes |-> <<>>]
    /\ gdo0 = [n \in Nodes |-> FALSE]
    /\ air  = [n \in Nodes |-> None]
    /\ check_rx = [n \in Nodes |-> n = "sensor"]
    /\ loops = [n \in Nodes |-> 0]
    /\ pc = [n \in Nodes |-> IF n = "sensor" THEN "send" ELSE "poll"]
    /\ sent = 0 /\ wait_acq = FALSE
    /\ held = None
    /\ printed = 0
    /\ foreign = 0

----------------------------------------------------------------------------
(* The chip. *)

Size(f)  == IF f.kind = "data" THEN DataSize ELSE AckSize
Bytes(q) == MapThenSumSet(LAMBDA i : Size(q[i]) + StatusBytes, DOMAIN q)

\* Node n, in RX, receives f, the chips' states being states otherwise.
\* GDO0 rises when a frame is complete, with its status bytes, and
\* falls when the first byte of the FIFO is read.  After an overflow the chip
\* receives nothing until the FIFO is flushed.  GDO0 may rise all the same when
\* only the status bytes do not fit.
Receive(n, f, states) ==
    LET room == FifoSize - Bytes(fifo[n]) IN
    /\ chip[n] = "RX"
    /\ IF Size(f) + StatusBytes <= room
       THEN /\ fifo' = [fifo EXCEPT ![n] = Append(@, f)]
            /\ gdo0' = [gdo0 EXCEPT ![n] = TRUE]
            /\ check_rx' = [check_rx EXCEPT ![n] = @ \/ ~gdo0[n]]   \* rf_rx_calback
            /\ chip' = states
       ELSE /\ chip' = [states EXCEPT ![n] = "OVERFLOW"]
            /\ fifo' = IF Size(f) <= room THEN [fifo EXCEPT ![n] = Append(@, f)] ELSE fifo
            /\ \E rises \in {FALSE, Size(f) <= room} :
                  /\ gdo0' = [gdo0 EXCEPT ![n] = @ \/ rises]
                  /\ check_rx' = [check_rx EXCEPT ![n] = @ \/ (rises /\ ~gdo0[n])]

\* Mutant: MCSM1's reset value, with which the chip goes to IDLE.
AfterTxIdle(n) == [chip EXCEPT ![n] = "IDLE"]

\* After a transmission the chip goes to RX by itself.
AfterTx(n) == [chip EXCEPT ![n] = "RX"]

\* The frame n transmits reaches the other node,
Delivered(n) ==
    /\ chip[n] = "TX"
    /\ Receive(Other(n), air[n], AfterTx(n))
    /\ air' = [air EXCEPT ![n] = None]
    /\ UNCHANGED <<loops, pc, messages, foreign>>

\* or is not listened to,
Unheard(n) ==
    /\ chip[n] = "TX"
    /\ chip[Other(n)] \notin {"RX", "TX"}
    /\ chip' = AfterTx(n)
    /\ air' = [air EXCEPT ![n] = None]
    /\ UNCHANGED <<fifo, gdo0, boards, messages, foreign>>

\* or is spoilt, by noise or because the other node transmits too: it is not
\* recognised, or its CRC is wrong and the chip flushes all of its FIFO.
Spoilt(n) ==
    /\ chip[n] = "TX"
    /\ chip[Other(n)] \in {"RX", "TX"}
    /\ chip' = AfterTx(n)
    /\ air' = [air EXCEPT ![n] = None]
    /\ \/ UNCHANGED fifo
       \/ chip[Other(n)] = "RX" /\ fifo' = [fifo EXCEPT ![Other(n)] = <<>>]
    /\ UNCHANGED <<gdo0, boards, messages, foreign>>

ForeignFrame(n) ==
    /\ Interference
    /\ foreign < MaxForeign
    /\ foreign' = foreign + 1
    /\ Receive(n, Foreign, chip)
    /\ UNCHANGED <<air, loops, pc, messages>>

----------------------------------------------------------------------------
(* cc1101.c. *)

\* cc1101_enter_tx_mode, in RX, while someone transmits: the chip does not
\* obey and the driver waits for a state that does not come.
Refused(n) == chip[n] = "RX" /\ (Interference \/ air[Other(n)] # None)

\* cc1101_tx_fifo_state and cc1101_send_packet: pc goes on to next, or to the
\* wait in cc1101_enter_tx_mode.
SendPacket(n, f, next) ==
    \/ /\ Refused(n)
       /\ pc' = [pc EXCEPT ![n] = "spin"]
       /\ UNCHANGED <<chip, fifo, air>>
    \/ /\ chip[n] = "RX" => air[Other(n)] = None
       /\ chip' = [chip EXCEPT ![n] = "TX"]
       /\ air' = [air EXCEPT ![n] = f]
       /\ fifo' = IF chip[n] = "OVERFLOW" THEN [fifo EXCEPT ![n] = <<>>] ELSE fifo
       /\ pc' = [pc EXCEPT ![n] = next]

\* The only way out of the wait: the RX FIFO overflows and is flushed, which
\* leaves the chip in IDLE, where the channel is not sensed.
SpinEnds(n, f, next) ==
    /\ pc[n] = "spin"
    /\ chip[n] = "OVERFLOW"
    /\ SendPacket(n, f, next)

\* The wait, as long as the chip stays in RX.
Spin(n) ==
    /\ pc[n] = "spin"
    /\ chip[n] = "RX"
    /\ UNCHANGED vars

\* Mutant: the count is not reset.
UnresetLoops(n) == loops[n] + 1

NextLoops(n) == IF loops[n] < LoopLimit THEN loops[n] + 1 ELSE 0

\* The second half of main's loop: a board that is not in RX is put there
\* after more than LoopLimit such iterations, whatever its FIFO holds.
Poll(n, next) ==
    /\ pc[n] = "poll"
    /\ chip[n] # "TX"                   \* do ... while (status == CC1101_STATE_TX)
    /\ loops' = [loops EXCEPT ![n] = IF chip[n] = "RX" THEN @ ELSE NextLoops(n)]
    /\ IF chip[n] = "RX" \/ loops[n] < LoopLimit
       THEN UNCHANGED <<chip, fifo>>
       ELSE /\ chip' = [chip EXCEPT ![n] = "RX"]
            /\ fifo' = [fifo EXCEPT ![n] = <<>>]
    /\ check_rx' = [check_rx EXCEPT ![n] = FALSE]
    /\ pc' = [pc EXCEPT ![n] = IF check_rx[n] THEN "handle" ELSE next]
    /\ UNCHANGED <<gdo0, air, messages, foreign>>

\* handle_rf_rx_data when the FIFO is empty: rf_config, which resets the chip.
HandleNothing(n, next) ==
    /\ pc[n] = "handle"
    /\ fifo[n] = <<>>
    /\ chip' = [chip EXCEPT ![n] = "IDLE"]
    /\ gdo0' = [gdo0 EXCEPT ![n] = FALSE]
    /\ check_rx' = [check_rx EXCEPT ![n] = FALSE]
    /\ pc' = [pc EXCEPT ![n] = next]
    /\ UNCHANGED <<fifo, air, loops, messages, foreign>>

\* cc1101_receive_packet: the next frame, and back to RX.
ReceivePacket(n, state) ==
    /\ pc[n] = "handle"
    /\ fifo[n] # <<>>
    /\ fifo' = [fifo EXCEPT ![n] = IF chip[n] = "OVERFLOW" THEN <<>> ELSE Tail(@)]
    /\ gdo0' = [gdo0 EXCEPT ![n] = FALSE]
    /\ chip' = [chip EXCEPT ![n] = state]

----------------------------------------------------------------------------
(* The sensor's board. *)

DataFrame(m) == [kind |-> "data", number |-> m]
AckFrame(m)  == [kind |-> "ack", number |-> m]

SendNewMessage ==
    /\ pc["sensor"] = "send"
    /\ ~wait_acq
    /\ sent < MaxMessages
    /\ sent' = sent + 1
    /\ wait_acq' = TRUE
    /\ SendPacket("sensor", DataFrame(sent + 1), "poll")
    /\ UNCHANGED <<gdo0, check_rx, loops, held, printed, foreign>>

ResendLastMessage ==
    /\ pc["sensor"] = "send"
    /\ wait_acq
    /\ SendPacket("sensor", DataFrame(sent), "poll")
    /\ UNCHANGED <<gdo0, check_rx, loops, messages, foreign>>

NothingToSend ==
    /\ pc["sensor"] = "send"
    /\ ~wait_acq
    /\ pc' = [pc EXCEPT !["sensor"] = "poll"]
    /\ UNCHANGED <<chips, check_rx, loops, messages, foreign>>

SensorSpinEnds ==
    /\ SpinEnds("sensor", DataFrame(sent), "poll")
    /\ UNCHANGED <<gdo0, check_rx, loops, messages, foreign>>

\* Mutant: any acknowledgement will do.
IsAnyAck(f) == f.kind = "ack"

\* Mutant: any frame with the right number will do.
IsSameId(f) == f.number % IdMod = sent % IdMod

IsExpectedAck(f) == f.kind = "ack" /\ f.number % IdMod = sent % IdMod

SensorHandles ==
    LET f == Head(fifo["sensor"]) IN
    /\ ReceivePacket("sensor", "RX")
    /\ wait_acq' = (wait_acq /\ ~IsExpectedAck(f))
    /\ pc' = [pc EXCEPT !["sensor"] = "send"]
    /\ UNCHANGED <<air, check_rx, loops, sent, held, printed, foreign>>

Sensor ==
    \/ SendNewMessage \/ ResendLastMessage \/ NothingToSend
    \/ Spin("sensor") \/ SensorSpinEnds
    \/ Poll("sensor", "send") \/ HandleNothing("sensor", "send") \/ SensorHandles

----------------------------------------------------------------------------
(* The gateway's board. *)

\* A frame that is not for the gateway: cc1101_set_address leaves the chip in
\* IDLE.
GatewayIgnores ==
    /\ ReceivePacket("gateway", "IDLE")
    /\ Head(fifo["gateway"]).kind # "data"
    /\ pc' = [pc EXCEPT !["gateway"] = "poll"]
    /\ UNCHANGED <<air, check_rx, loops, messages, foreign>>

GatewayReads ==
    /\ ReceivePacket("gateway", "RX")
    /\ Head(fifo["gateway"]).kind = "data"
    /\ held' = Head(fifo["gateway"])
    /\ pc' = [pc EXCEPT !["gateway"] = "acknowledge"]
    /\ UNCHANGED <<air, check_rx, loops, sent, wait_acq, printed, foreign>>

\* send_acq_on_rf.
GatewayAcknowledges ==
    /\ \/ pc["gateway"] = "acknowledge" /\ SendPacket("gateway", AckFrame(held.number), "print")
       \/ SpinEnds("gateway", AckFrame(held.number), "print")
    /\ UNCHANGED <<gdo0, check_rx, loops, messages, foreign>>

\* The readings of the message are printed, whatever was printed before.
GatewayPrints ==
    /\ pc["gateway"] = "print"
    /\ printed' = held.number
    /\ held' = None
    /\ pc' = [pc EXCEPT !["gateway"] = "poll"]
    /\ UNCHANGED <<chips, check_rx, loops, sent, wait_acq, foreign>>

Gateway ==
    \/ Poll("gateway", "poll") \/ HandleNothing("gateway", "poll") \/ Spin("gateway")
    \/ GatewayIgnores \/ GatewayReads \/ GatewayAcknowledges \/ GatewayPrints

----------------------------------------------------------------------------
Next ==
    \/ Sensor \/ Gateway
    \/ \E n \in Nodes :
          Delivered(n) \/ Unheard(n) \/ Spoilt(n) \/ ForeignFrame(n)

Spec == Init /\ [][Next]_vars

\* The loops run, and a transmission ends one way or another.
Fairness ==
    /\ WF_vars(Sensor) /\ WF_vars(Gateway)
    /\ \A n \in Nodes : WF_vars(Delivered(n) \/ Unheard(n) \/ Spoilt(n))

FairSpec == Spec /\ Fairness

----------------------------------------------------------------------------
(* Properties. *)

\* Every variable keeps the values the code gives it.
TypeOK ==
    /\ chip \in [Nodes -> {"IDLE", "RX", "TX", "OVERFLOW"}]
    /\ fifo \in [Nodes -> Seq(Frames)]
    /\ gdo0 \in [Nodes -> BOOLEAN]
    /\ air \in [Nodes -> Frames \cup {None}]
    /\ check_rx \in [Nodes -> BOOLEAN]
    /\ loops \in [Nodes -> 0 .. LoopLimit]
    /\ pc \in [Nodes -> {"send", "spin", "poll", "handle", "acknowledge", "print"}]
    /\ sent \in 0 .. MaxMessages /\ printed \in 0 .. MaxMessages
    /\ wait_acq \in BOOLEAN
    /\ held \in Frames \cup {None}
    /\ foreign \in 0 .. MaxForeign

\* The sensor goes on to its next message only when the last one has been
\* printed, or the gateway is about to print it: no message is skipped,
\* whichever frames and acknowledgements are lost, repeated or left in a FIFO.
AcknowledgedIsPrinted ==
    ~wait_acq => printed = sent \/ (held # None /\ held.number = sent)

\* The gateway prints messages in the order they were sent: the same one
\* again, or the next.
PrintedInOrder == [][printed' \in {printed, printed + 1}]_printed

\* When the channel is always clear for a board that wants to transmit, and
\* frames are no longer spoilt from some time on, every message is acknowledged
\* in the end.
EveryMessageIsAcknowledged ==
    [](\A n \in Nodes : pc[n] # "spin") /\ <>[][\A n \in Nodes : ~Spoilt(n)]_vars
        => [](wait_acq => <>~wait_acq)

----------------------------------------------------------------------------
(* What a comment says and the code does not do. *)

\* cc1101.c, "Wait until chip is in Tx state": the wait is for something that
\* happens.
WaitForTxEnds == \A n \in Nodes : pc[n] = "spin" ~> pc[n] # "spin"

=============================================================================
