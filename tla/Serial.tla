------------------------------- MODULE Serial -------------------------------
(***************************************************************************)
(* One UART and its driver (drivers/serial.c): the output buffer that      *)
(* serial_write fills and the interrupt empties, the hardware's FIFO, and  *)
(* the echo of received bytes when no callback is set.                     *)
(*                                                                         *)
(* A byte handed to serial_write is its number, 1 for the first; a byte    *)
(* written straight to the data register (quick byte or echo) is 0.        *)
(***************************************************************************)
EXTENDS Integers, Sequences

CONSTANTS
    OutBuffSize,    \* SERIAL_OUT_BUFF_SIZE
    MaxWritten,     \* bound: bytes asked of serial_write in a behaviour
    MaxStray,       \* bound: quick bytes, and received bytes
    MaxOn           \* bound: calls of uart_on

ASSUME SerialSizes ==
    /\ OutBuffSize \in Nat \ {0}
    /\ MaxWritten \in Nat /\ MaxStray \in Nat /\ MaxOn \in Nat

VARIABLES
    uart_pc,            \* main: "off", "idle", "wait", "copy", "start", "first", "flush"
    masked,             \* main's PRIMASK: the call runs with the interrupts masked
    request,            \* the bytes the call has still to copy
    out_buff, out_length, sending,
    echo,               \* rx_callback == NULL
    fifo, thre, rx,     \* hardware: bytes to shift out, TX interrupt pending,
                        \*   a received byte is waiting
    wire,               \* history: bytes shifted out
    asked,              \* history: number of the last byte asked of serial_write
    stray,              \* history: quick bytes and received bytes
    starts,             \* history: calls of uart_on
    early               \* history: a TX interrupt fell between `sending++` and
                        \*   the write of the first byte

serial_hw   == <<fifo, thre, rx, wire>>
serial_buff == <<out_buff, out_length, sending>>
serial_hist == <<asked, stray, starts, early>>
serial_vars == <<uart_pc, masked, request, echo, serial_buff, serial_hw, serial_hist>>

SerialInit ==
    /\ uart_pc = "off" /\ masked = FALSE /\ request = <<>>
    /\ out_buff = <<>> /\ out_length = 0 /\ sending = 0
    /\ echo = TRUE
    /\ fifo = <<>> /\ thre = FALSE /\ rx = FALSE /\ wire = <<>>
    /\ asked = 0 /\ stray = 0 /\ starts = 0 /\ early = FALSE

\* A write of the data register; it withdraws a pending TX interrupt.
Put(bytes) == fifo' = fifo \o bytes /\ thre' = (IF bytes = <<>> THEN thre ELSE FALSE)

----------------------------------------------------------------------------
(* The hardware. *)

\* A byte leaves on the wire; the interrupt comes when the FIFO is empty.
Shift ==
    /\ uart_pc # "off" /\ fifo # <<>>
    /\ wire' = Append(wire, Head(fifo))
    /\ fifo' = Tail(fifo)
    /\ thre' = (thre \/ Len(fifo) = 1)
    /\ UNCHANGED <<uart_pc, masked, request, echo, serial_buff, rx, serial_hist>>

Receive ==
    /\ uart_pc # "off" /\ ~rx /\ stray < MaxStray
    /\ rx' = TRUE /\ stray' = stray + 1
    /\ UNCHANGED <<uart_pc, masked, request, echo, serial_buff, fifo, thre, wire, asked, starts, early>>

----------------------------------------------------------------------------
(* The interrupt.  The pending register names one cause, reception first;  *)
(* reading it withdraws a TX interrupt it names.                           *)

\* Mutant: the last byte of the buffer is forgotten.
CheckTxShort ==
    IF sending # 0 /\ out_length > sending + 1
    THEN Put(<<out_buff[sending + 1]>>) /\ sending' = sending + 1
    ELSE sending' = 0 /\ thre' = FALSE /\ UNCHANGED fifo

CheckTx ==
    IF sending # 0 /\ out_length > sending
    THEN Put(<<out_buff[sending + 1]>>) /\ sending' = sending + 1
    ELSE sending' = 0 /\ thre' = FALSE /\ UNCHANGED fifo

CheckRx ==
    /\ rx' = FALSE
    /\ Put(IF echo /\ sending = 0 THEN <<0>> ELSE <<>>)
    /\ UNCHANGED sending

UART_Handler ==
    /\ uart_pc # "off" /\ ~masked
    /\ \/ rx /\ CheckRx /\ UNCHANGED early
       \/ /\ ~rx /\ thre /\ CheckTx
          /\ early' = (early \/ uart_pc = "first")
          /\ UNCHANGED rx
    /\ UNCHANGED <<uart_pc, masked, request, echo, out_buff, out_length, wire, asked, stray, starts>>

----------------------------------------------------------------------------
(* The calls, from the main loop. *)

\* uart_on: the FIFOs are cleared and an interrupt is raised by enabling it.
\* What the driver was sending is neither finished nor forgotten.
uart_on(callback) ==
    /\ uart_pc \in {"off", "idle"} /\ starts < MaxOn
    /\ uart_pc' = "idle" /\ starts' = starts + 1
    /\ echo' = ~callback
    /\ fifo' = <<>> /\ rx' = FALSE /\ thre' = TRUE
    /\ UNCHANGED <<masked, request, serial_buff, wire, asked, stray, early>>

\* uart_off: the clock stops, the registers keep what they hold.
uart_off ==
    /\ uart_pc = "idle" /\ starts < MaxOn
    /\ uart_pc' = "off" /\ echo' = TRUE
    /\ UNCHANGED <<masked, request, serial_buff, serial_hw, serial_hist>>

serial_send_quickbyte ==
    /\ uart_pc = "idle" /\ stray < MaxStray
    /\ Put(IF sending = 0 THEN <<0>> ELSE <<>>)
    /\ stray' = stray + 1
    /\ UNCHANGED <<uart_pc, masked, request, echo, serial_buff, rx, wire, asked, starts, early>>

\* serial_write, up to its wait; more bytes than the buffer are not taken.
WriteCall(length, mask) ==
    /\ uart_pc = "idle"
    /\ LET taken == IF length > OutBuffSize THEN OutBuffSize ELSE length
       IN /\ asked + taken <= MaxWritten /\ asked' = asked + taken
          /\ request' = [i \in 1 .. taken |-> asked + i]
    /\ uart_pc' = "wait" /\ masked' = mask
    /\ UNCHANGED <<echo, serial_buff, serial_hw, stray, starts, early>>

\* serial_flush.
FlushCall(mask) ==
    /\ uart_pc = "idle"
    /\ uart_pc' = "flush" /\ masked' = mask
    /\ UNCHANGED <<request, echo, serial_buff, serial_hw, serial_hist>>

\* The body of either wait, when the interrupts are masked.
SerialPoll ==
    /\ uart_pc \in {"wait", "flush"} /\ sending # 0 /\ masked
    /\ ~rx /\ thre /\ CheckTx
    /\ UNCHANGED <<uart_pc, masked, request, echo, out_buff, out_length, rx, wire, serial_hist>>

Waited ==
    /\ uart_pc \in {"wait", "flush"} /\ sending = 0
    /\ uart_pc' = IF uart_pc = "flush" THEN "idle" ELSE "copy"
    /\ masked' = (masked /\ uart_pc = "wait")
    /\ UNCHANGED <<request, echo, serial_buff, serial_hw, serial_hist>>

Copy ==
    /\ uart_pc = "copy"
    /\ out_buff' = request /\ out_length' = Len(request) /\ request' = <<>>
    /\ uart_pc' = "start"
    /\ UNCHANGED <<masked, sending, echo, serial_hw, serial_hist>>

\* uart_start_sending, up to `sending++`.
StartSending ==
    /\ uart_pc = "start"
    /\ IF sending = 0 /\ out_length # 0
       THEN sending' = sending + 1 /\ uart_pc' = "first" /\ UNCHANGED masked
       ELSE uart_pc' = "idle" /\ masked' = FALSE /\ UNCHANGED sending
    /\ UNCHANGED <<request, echo, out_buff, out_length, serial_hw, serial_hist>>

FirstByte ==
    /\ uart_pc = "first"
    /\ Put(<<out_buff[1]>>)
    /\ uart_pc' = "idle" /\ masked' = FALSE
    /\ UNCHANGED <<request, echo, serial_buff, rx, wire, serial_hist>>

SerialMain == SerialPoll \/ Waited \/ Copy \/ StartSending \/ FirstByte

SerialNext ==
    \/ Shift \/ Receive \/ UART_Handler \/ SerialMain
    \/ \E callback \in BOOLEAN : uart_on(callback)
    \/ uart_off \/ serial_send_quickbyte
    \/ \E length \in 0 .. OutBuffSize + 1, mask \in BOOLEAN : WriteCall(length, mask)
    \/ \E mask \in BOOLEAN : FlushCall(mask)

SerialSpec == SerialInit /\ [][SerialNext]_serial_vars

SerialFairness ==
    WF_serial_vars(Shift) /\ WF_serial_vars(UART_Handler) /\ WF_serial_vars(SerialMain)

SerialFairSpec == SerialSpec /\ SerialFairness

----------------------------------------------------------------------------
(* Properties. *)

SerialTypeOK ==
    /\ uart_pc \in {"off", "idle", "wait", "copy", "start", "first", "flush"}
    /\ {masked, echo, thre, rx, early} \subseteq BOOLEAN
    /\ request \in Seq(Nat \ {0}) /\ out_buff \in Seq(Nat \ {0})
    /\ fifo \in Seq(Nat) /\ wire \in Seq(Nat)
    /\ out_length \in 0 .. OutBuffSize /\ sending \in 0 .. OutBuffSize
    /\ out_length = Len(out_buff) /\ Len(request) <= OutBuffSize
    /\ asked \in Nat /\ stray \in Nat /\ starts \in Nat

\* The bytes of the buffer that are still to be put in the FIFO.
Ahead ==
    IF uart_pc \in {"start", "first"} THEN out_buff
    ELSE IF sending # 0 THEN SubSeq(out_buff, sending + 1, out_length) ELSE <<>>

\* Every number from 1 to n is in s once, each before the next; the other bytes
\* are not those of serial_write.
OnceInOrder(s, n) ==
    /\ \A k \in 1 .. n : \E i \in DOMAIN s : s[i] = k
    /\ \A i \in DOMAIN s : s[i] <= n
    /\ \A i, j \in DOMAIN s : (i < j /\ s[j] # 0) => s[i] < s[j]

\* What the calls were given goes out once each and in the order of the calls,
\* while the UART is not restarted and no TX interrupt, left by a quick byte or
\* by an echo, falls between `sending++` and the write of the first byte
\* (uart_start_sending): the interrupt then sends the second byte first.
WrittenInOrder ==
    (starts <= 1 /\ ~early) => OnceInOrder(wire \o fifo \o Ahead \o request, asked)

\* The active waits of serial_write and serial_flush, which the interrupt or
\* their own polling must end; the one exception is a byte received while the
\* interrupts are masked, which hides the TX cause from the polling.
SerialWaits == uart_pc \in {"wait", "flush"} /\ ~(masked /\ rx)

============================================================================
