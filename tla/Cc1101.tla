------------------------------- MODULE Cc1101 -------------------------------
(***************************************************************************)
(* The driver of the radio chip (extdrv/cc1101.c), a transaction of the    *)
(* SPI bus at a time.  Frames arrive in the chip's FIFO a byte at a time,  *)
(* between any two transactions of a call that reads it; module RadioLink  *)
(* has what the boards do with it, a frame at a time.                      *)
(***************************************************************************)
EXTENDS Integers, Sequences

CONSTANTS
    RfFifoSize,     \* CC1101_FIFO_SIZE: 64
    RfBufferSize,   \* the size given to cc1101_receive_packet: RF_BUFF_LEN, 64
    RfLengths,      \* length bytes of the frames that arrive
    MaxRfFrames,    \* bound: frames that arrive
    MaxRfPackets    \* bound: packets in the TX FIFO

ASSUME RfSizes ==
    /\ RfFifoSize \in Nat \ {0} /\ MaxRfFrames \in Nat /\ MaxRfPackets \in Nat
    /\ RfBufferSize \in Nat /\ RfBufferSize >= RfFifoSize
    /\ RfLengths \subseteq (1 .. 255) \cap (1 .. RfFifoSize - 1)

VARIABLES
    rf_state,       \* "idle", "rx", "tx", "fston", "overflow", "underflow", "sleep"
    rf_configured,  \* its registers hold rf_init_settings
    rf_rx_fifo,        \* bytes received and not read
    arriving,       \* the next byte of the frame being received, or NoByte
    rf_frames,      \* frames that have begun
    check_rx,       \* GDO0 has risen since the last call: rf_rx_calback
    rf_tx_fifo,        \* packets in the TX FIFO
    rf_pc,          \* the transaction of the call under way
    rx_status,      \* cc1101_receive_packet: bytes and overflow, as first read
    read_size, rf_ret, rf_buffer, link_quality,
    rf_whole        \* history: a whole frame was at the head of the FIFO when it was
                    \*   called, and has not been flushed since

chip_state == <<rf_state, rf_configured>>
receiving == <<rf_rx_fifo, arriving, rf_frames, check_rx>>
call_vars == <<rx_status, read_size, rf_ret, rf_buffer, link_quality, rf_whole>>
cc1101_vars == <<chip_state, receiving, rf_tx_fifo, rf_pc, call_vars>>

\* Byte place of a frame of length len: its length, its data, and two bytes the
\* chip appends, signal strength and link quality.
Byte(frame, len, place) == [frame |-> frame, len |-> len, place |-> place]
NoByte == Byte(0, 0, 0)
FirstBytes(n) == [i \in 1 .. n |-> IF i <= Len(rf_rx_fifo) THEN rf_rx_fifo[i] ELSE NoByte]
Without(n) == SubSeq(rf_rx_fifo, n + 1, Len(rf_rx_fifo))

Cc1101Init ==
    /\ rf_state = "idle" /\ rf_configured = FALSE               \* cc1101_init
    /\ rf_rx_fifo = << >> /\ arriving = NoByte /\ rf_frames = 0 /\ check_rx = FALSE
    /\ rf_tx_fifo = << >> /\ rf_pc = "idle"
    /\ rx_status = [bytes |-> 0, overflow |-> FALSE] /\ read_size = 0 /\ rf_ret = "none"
    /\ rf_buffer = << >> /\ link_quality = NoByte /\ rf_whole = FALSE

Calls == rf_pc = "idle"

----------------------------------------------------------------------------
(* Commands.  A reception that is left stays in the FIFO, cut. *)

Awake == IF rf_state = "sleep" THEN "idle" ELSE rf_state

\* The chip goes to a state.
Goes(to) ==
    /\ rf_state' = to
    /\ arriving' = IF to = "rx" THEN arriving ELSE NoByte
    /\ UNCHANGED rf_configured

\* state_idle has no effect after an overflow or an underflow.
Idled == IF Awake \in {"overflow", "underflow"} THEN Awake ELSE "idle"

FlushRx ==
    /\ rf_rx_fifo' = << >> /\ arriving' = NoByte
    /\ rf_state' = IF Idled = "overflow" THEN "idle" ELSE Idled
    /\ UNCHANGED rf_configured
FlushTx ==
    /\ rf_tx_fifo' = << >> /\ arriving' = NoByte
    /\ rf_state' = IF Idled = "underflow" THEN "idle" ELSE Idled
    /\ UNCHANGED rf_configured

cc1101_reset ==
    /\ Calls
    /\ rf_state' = "idle" /\ rf_configured' = FALSE
    /\ rf_rx_fifo' = << >> /\ arriving' = NoByte /\ rf_tx_fifo' = << >>
    /\ UNCHANGED <<rf_frames, check_rx, rf_pc, call_vars>>

cc1101_flush_tx_fifo ==
    /\ Calls /\ FlushTx
    /\ UNCHANGED <<rf_rx_fifo, rf_frames, check_rx, rf_pc, call_vars>>

cc1101_flush_rx_fifo ==
    /\ Calls /\ FlushRx
    /\ UNCHANGED <<rf_frames, check_rx, rf_tx_fifo, rf_pc, call_vars>>

\* cc1101_set_address, cc1101_set_channel, cc1101_set_config, cc1101_update_config
\* and cc1101_config, which writes all the settings.
cc1101_config ==
    /\ Calls
    /\ \E all \in BOOLEAN : rf_configured' = (rf_configured \/ all)
    /\ rf_state' = Idled /\ arriving' = NoByte
    /\ UNCHANGED <<rf_rx_fifo, rf_frames, check_rx, rf_tx_fifo, rf_pc, call_vars>>

cc1101_power_down ==
    /\ Calls
    /\ Idled = "idle"
    /\ Goes("sleep") /\ rf_rx_fifo' = << >> /\ rf_tx_fifo' = << >>
    /\ UNCHANGED <<rf_frames, check_rx, rf_pc, call_vars>>

\* state_rx: not after an overflow or an underflow.
EnterRx == IF Awake \in {"overflow", "underflow"} THEN Goes(Awake) ELSE Goes("rx")

cc1101_enter_rx_mode ==
    /\ Calls /\ EnterRx
    /\ UNCHANGED <<rf_rx_fifo, rf_frames, check_rx, rf_tx_fifo, rf_pc, call_vars>>

\* From TX and RX without going through IDLE.
cc1101_enter_fstxon_state ==
    /\ Calls
    /\ Goes(IF Idled = "idle" THEN "fston" ELSE Awake)
    /\ UNCHANGED <<rf_rx_fifo, rf_frames, check_rx, rf_tx_fifo, rf_pc, call_vars>>

\* It enters RX first, and flushes the FIFO after an overflow.
cc1101_rx_fifo_state ==
    /\ Calls
    /\ IF rf_state = "overflow" THEN FlushRx ELSE EnterRx /\ UNCHANGED rf_rx_fifo
    /\ UNCHANGED <<rf_frames, check_rx, rf_tx_fifo, rf_pc, call_vars>>

----------------------------------------------------------------------------
(* Sending. *)

\* state_tx: in RX it is obeyed when the channel is clear (MCSM1).
Obeys == Awake \in {"idle", "fston", "tx"} \/ (Awake = "rx" /\ arriving = NoByte)

\* cc1101_tx_fifo_state, or cc1101_send_packet once the packet is in the FIFO.
enter_tx_mode ==
    /\ Calls
    /\ \E packet \in {<< >>, <<"packet">>} :
          /\ Len(rf_tx_fifo \o packet) <= MaxRfPackets
          /\ rf_tx_fifo' = rf_tx_fifo \o packet
          /\ rf_pc' = IF packet = << >> THEN "tx_state" ELSE "send"
    /\ IF Obeys THEN Goes("tx") ELSE UNCHANGED <<chip_state, arriving>>
    /\ UNCHANGED <<rf_rx_fifo, rf_frames, check_rx, call_vars>>

\* The wait for TX ends with an error, and a FIFO flushed: after the overflow of
\* the other one the packet stays in the TX FIFO.
EnterTxFails ==
    /\ rf_pc \in {"tx_state", "send"}
    /\ \/ rf_state = "underflow" /\ FlushTx /\ UNCHANGED rf_rx_fifo
       \/ rf_state = "overflow" /\ FlushRx /\ UNCHANGED rf_tx_fifo
    /\ rf_pc' = "idle"
    /\ UNCHANGED <<rf_frames, check_rx, call_vars>>

EnterTxEnds ==
    /\ rf_pc \in {"tx_state", "send"} /\ rf_state = "tx"
    /\ rf_pc' = "idle"
    /\ UNCHANGED <<chip_state, receiving, rf_tx_fifo, call_vars>>

----------------------------------------------------------------------------
(* cc1101_receive_packet. *)

Fewer(a, b) == IF a < b THEN a ELSE b
WholeFrameFirst ==
    /\ rf_rx_fifo # << >>
    /\ FirstBytes(Head(rf_rx_fifo).len + 3) =
         [i \in 1 .. Head(rf_rx_fifo).len + 3 |->
            Byte(Head(rf_rx_fifo).frame, Head(rf_rx_fifo).len, i - 1)]

\* The boards call it when GDO0 has risen; it does nothing when the FIFO is empty.
ReadStatus ==
    /\ Calls /\ check_rx
    /\ check_rx' = FALSE
    /\ rx_status' = [bytes |-> Len(rf_rx_fifo), overflow |-> rf_state = "overflow"]
    /\ rf_whole' = WholeFrameFirst
    /\ rf_pc' = IF rf_rx_fifo = << >> /\ rf_state # "overflow" THEN "idle" ELSE "length"
    /\ rf_ret' = IF rf_pc' = "idle" THEN "nothing" ELSE "none"
    /\ UNCHANGED <<chip_state, rf_rx_fifo, arriving, rf_frames, rf_tx_fifo, read_size, rf_buffer,
                   link_quality>>

\* The first byte read is a length, or any byte when the FIFO does not begin with
\* a frame.
ReadLength ==
    /\ rf_pc = "length"
    /\ LET first == FirstBytes(1)[1]
           is_length == first # NoByte /\ first.place = 0
       IN \E pkt_length \in (IF is_length THEN {first.len} ELSE 0 .. RfFifoSize) :
            /\ rf_ret' = IF pkt_length > RfFifoSize - 1 THEN "too big"
                         ELSE IF pkt_length + 1 > RfBufferSize THEN "too small"
                         ELSE IF pkt_length > rx_status.bytes THEN "incomplete"
                         ELSE "packet"
            /\ read_size' = CASE rf_ret' = "too big" -> Fewer(RfBufferSize, rx_status.bytes)
                              [] rf_ret' = "too small" -> RfBufferSize
                              [] rf_ret' = "incomplete" -> rx_status.bytes
                              [] OTHER -> pkt_length + 1
            /\ rf_buffer' = <<first>>
    /\ rf_rx_fifo' = Without(1) /\ rf_pc' = "data"
    /\ UNCHANGED <<chip_state, arriving, rf_frames, check_rx, rf_tx_fifo, rx_status, link_quality,
                   rf_whole>>

\* Mutant: the length byte is not counted among what is read.
AfterLengthAll == read_size
AfterLength == (read_size - 1) % 256

ReadData ==
    /\ rf_pc = "data"
    /\ LET n == Fewer(AfterLength, RfFifoSize)
       IN rf_buffer' = rf_buffer \o FirstBytes(n) /\ rf_rx_fifo' = Without(n)
    /\ rf_pc' = "quality"
    /\ UNCHANGED <<chip_state, arriving, rf_frames, check_rx, rf_tx_fifo, rx_status, read_size,
                   rf_ret, link_quality, rf_whole>>

\* The last of the two status bytes has CRC_OK, if it is one.
ReadQuality ==
    /\ rf_pc = "quality"
    /\ LET quality == FirstBytes(2)[2]
           is_quality == quality # NoByte /\ quality.place = quality.len + 2
       IN /\ link_quality' = quality
          /\ \E crc_ok \in (IF is_quality THEN {TRUE} ELSE BOOLEAN) :
                IF crc_ok /\ ~rx_status.overflow
                THEN rf_rx_fifo' = Without(2) /\ UNCHANGED <<chip_state, arriving, rf_ret>>
                ELSE FlushRx /\ rf_ret' = IF crc_ok THEN "overflow" ELSE "crc"
    /\ rf_pc' = "idle"
    /\ UNCHANGED <<rf_frames, check_rx, rf_tx_fifo, rx_status, read_size, rf_buffer, rf_whole>>

----------------------------------------------------------------------------
(* The chip. *)

RfFrameStarts ==
    /\ rf_state = "rx" /\ arriving = NoByte /\ rf_frames < MaxRfFrames
    /\ rf_frames' = rf_frames + 1
    /\ \E len \in RfLengths : arriving' = Byte(rf_frames + 1, len, 0)
    /\ UNCHANGED <<chip_state, rf_rx_fifo, check_rx, rf_tx_fifo, rf_pc, call_vars>>

\* A byte arrives; with the last one GDO0 rises.
ByteArrives ==
    /\ arriving # NoByte
    /\ IF Len(rf_rx_fifo) = RfFifoSize
       THEN Goes("overflow") /\ UNCHANGED <<rf_rx_fifo, check_rx>>
       ELSE /\ rf_rx_fifo' = Append(rf_rx_fifo, arriving)
            /\ LET last == arriving.place = arriving.len + 2
               IN /\ arriving' = IF last THEN NoByte ELSE [arriving EXCEPT !.place = @ + 1]
                  /\ check_rx' = (check_rx \/ last)
            /\ UNCHANGED chip_state
    /\ UNCHANGED <<rf_frames, rf_tx_fifo, rf_pc, call_vars>>

\* The CRC of the frame that arrives is wrong: the chip flushes its FIFO.
CrcFlushes ==
    /\ arriving # NoByte /\ arriving.place = arriving.len + 1
    /\ rf_rx_fifo' = << >> /\ arriving' = NoByte
    /\ rf_whole' = (rf_whole /\ Calls)
    /\ UNCHANGED <<chip_state, rf_frames, check_rx, rf_tx_fifo, rf_pc, rx_status, read_size, rf_ret,
                   rf_buffer, link_quality>>

\* A transmission ends, in RX once configured so, or the FIFO is empty too soon.
TransmissionEnds ==
    /\ rf_state = "tx"
    /\ IF rf_tx_fifo # << >>
       THEN Goes(IF rf_configured THEN "rx" ELSE "idle") /\ rf_tx_fifo' = Tail(rf_tx_fifo)
       ELSE Goes("underflow") /\ UNCHANGED rf_tx_fifo
    /\ UNCHANGED <<rf_rx_fifo, rf_frames, check_rx, rf_pc, call_vars>>

Cc1101Next ==
    \/ cc1101_reset \/ cc1101_flush_tx_fifo \/ cc1101_flush_rx_fifo \/ cc1101_config
    \/ cc1101_power_down \/ cc1101_enter_rx_mode \/ cc1101_enter_fstxon_state
    \/ cc1101_rx_fifo_state \/ enter_tx_mode \/ EnterTxFails \/ EnterTxEnds
    \/ ReadStatus \/ ReadLength \/ ReadData \/ ReadQuality
    \/ RfFrameStarts \/ ByteArrives \/ CrcFlushes \/ TransmissionEnds

Cc1101Spec == Cc1101Init /\ [][Cc1101Next]_cc1101_vars

----------------------------------------------------------------------------
Cc1101TypeOK ==
    /\ rf_state \in {"idle", "rx", "tx", "fston", "overflow", "underflow", "sleep"}
    /\ \A b \in {rf_configured, check_rx, rf_whole, rx_status.overflow} : b \in BOOLEAN
    /\ Len(rf_rx_fifo) <= RfFifoSize /\ Len(rf_tx_fifo) <= MaxRfPackets
    /\ rf_frames \in 0 .. MaxRfFrames
    /\ arriving # NoByte => rf_state = "rx"
    /\ rf_pc \in {"idle", "tx_state", "send", "length", "data", "quality"}
    /\ rf_ret \in {"none", "nothing", "packet", "too big", "too small", "incomplete", "crc",
                   "overflow"}
    /\ Len(rf_buffer) <= RfBufferSize

\* A whole frame at the head of the FIFO is what a call returns, length and data
\* and with its own link quality, whatever arrives meanwhile; it is refused only
\* when the FIFO had overflowed before.
ReceivedIsWhole ==
    (Calls /\ rf_whole) =>
        IF rx_status.overflow THEN rf_ret = "overflow"
        ELSE LET first == rf_buffer[1]
             IN /\ rf_ret = "packet"
                /\ rf_buffer = [i \in 1 .. first.len + 1 |-> Byte(first.frame, first.len, i - 1)]
                /\ link_quality = Byte(first.frame, first.len, first.len + 2)

============================================================================
