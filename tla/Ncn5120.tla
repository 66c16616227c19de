------------------------------ MODULE Ncn5120 -------------------------------
(***************************************************************************)
(* The KNX transceiver's driver (extdrv/ncn5120.c).  One serial line       *)
(* carries the chip's answers to commands and the data of the bus; the     *)
(* driver tells them apart by counting: as many bytes as commands still    *)
(* expect are answers, whatever they are.  A byte is "own", of the answer  *)
(* to the command in progress, or "any": one of the bus, an error, or an   *)
(* answer that came too late or after such a byte.                         *)
(***************************************************************************)
EXTENDS Integers, Sequences

CONSTANTS
    FrameSizes,         \* data bytes of the packets sent
    LineLimit,          \* KNX bytes wait on a line shorter than this
    DebtLimit           \* commands are called while fewer answers are left over

ASSUME NcnAssumption == FrameSizes \subseteq Nat \ {0} /\ {LineLimit, DebtLimit} \subseteq Nat

VARIABLES
    ncn_pc,             \* "idle", "drop", "load", "store", "send" or "wait"
    ncn_cmd,            \* the command in progress
    ncn_reads,          \* sizes of the reads it has still to do
    rx_cmd_buff,        \* the answers received, rx_cmd_buff_idx of them
    next_data_is_cmd_reply,
    ncn_loaded,         \* its value that the main loop has in a register
    rx_data_running,
    ncn_asked,          \* bytes the chip has to answer
    ncn_line,           \* bytes on their way to the board
    ncn_clean,          \* history: no error and no KNX byte so far
    ncn_wrong           \* history: a command has read what is not its own

ncn_vars == <<ncn_pc, ncn_cmd, ncn_reads, rx_cmd_buff, next_data_is_cmd_reply, ncn_loaded,
              rx_data_running, ncn_asked, ncn_line,
              ncn_clean, ncn_wrong>>

\* A command: whether it drops what is in the buffer first, whether it is
\* refused while data is received, whether it forgets that reception, the length
\* of the answer it expects and the reads that fetch it.  The states of the chip
\* that the driver notes but never reads are left out.
Command(drops, refused, forgets, answer, reads) ==
    [drops |-> drops, refused |-> refused, forgets |-> forgets, answer |-> answer, reads |-> reads]
Asks(drops, refused, answer) == Command(drops, refused, FALSE, answer, <<answer>>)
Tells == Command(FALSE, FALSE, FALSE, 0, << >>)

get_internal_register == Asks(TRUE, FALSE, 1)
set_comm_config == Asks(FALSE, TRUE, 1)
set_address == Asks(FALSE, TRUE, 1)
get_analog_status == [get_internal_register EXCEPT !.refused = TRUE]
get_comm_status == Asks(FALSE, FALSE, 1)
get_system_status == Asks(FALSE, TRUE, 2)
ncn_reset == [get_internal_register EXCEPT !.forgets = TRUE]
set_stop_state == Asks(FALSE, FALSE, 1)
enter_sleep == Tells
set_busy_state == Tells
enter_monitor_mode == Tells
packet_acknowledge == Tells
\* The echo's first byte, the rest of it and the checksum, the two of the status.
send_packet == {Command(FALSE, TRUE, FALSE, n + 4, <<1, n + 1, 2>>) : n \in FrameSizes}

Commands ==
    {get_internal_register, set_comm_config, set_address, get_analog_status, get_comm_status,
     get_system_status, ncn_reset, set_stop_state, enter_sleep, set_busy_state,
     enter_monitor_mode, packet_acknowledge} \cup send_packet

NcnInit ==
    /\ ncn_pc = "idle" /\ ncn_cmd = Tells /\ ncn_reads = << >>
    /\ rx_cmd_buff = << >> /\ next_data_is_cmd_reply = 0 /\ ncn_loaded = 0
    /\ rx_data_running = FALSE
    /\ ncn_asked = 0 /\ ncn_line = << >> /\ ncn_clean = TRUE /\ ncn_wrong = FALSE

ncn_chip == <<ncn_asked, ncn_line, ncn_clean>>

\* A command is called; a refused one returns at once and changes nothing.
CommandCall ==
    /\ ncn_pc = "idle"
    /\ next_data_is_cmd_reply + Len(rx_cmd_buff) + Len(ncn_line) + ncn_asked < DebtLimit
    /\ \E c \in Commands :
          /\ ~(c.refused /\ rx_data_running)
          /\ ncn_cmd' = c /\ ncn_reads' = c.reads
          /\ ncn_pc' = IF c.drops THEN "drop" ELSE "load"
    /\ UNCHANGED <<rx_cmd_buff, next_data_is_cmd_reply, ncn_loaded, rx_data_running, ncn_chip, ncn_wrong>>

drop_cmd_data ==
    /\ ncn_pc = "drop" /\ ncn_pc' = "load" /\ rx_cmd_buff' = << >>
    /\ UNCHANGED <<ncn_cmd, ncn_reads, next_data_is_cmd_reply, ncn_loaded, rx_data_running, ncn_chip, ncn_wrong>>

\* next_data_is_cmd_reply += len: a load and a store with the interrupt enabled.
set_nb_cmd_req_data ==
    \/ /\ ncn_pc = "load" /\ ncn_pc' = "store" /\ ncn_loaded' = next_data_is_cmd_reply
       /\ UNCHANGED <<ncn_cmd, ncn_reads, rx_cmd_buff, next_data_is_cmd_reply,
                      rx_data_running, ncn_chip, ncn_wrong>>
    \/ /\ ncn_pc = "store" /\ ncn_pc' = "send" /\ ncn_loaded' = 0
       /\ next_data_is_cmd_reply' = ncn_loaded + ncn_cmd.answer
       /\ UNCHANGED <<ncn_cmd, ncn_reads, rx_cmd_buff, rx_data_running, ncn_chip, ncn_wrong>>

\* The end of a command.
CommandOver == ncn_pc' = "idle" /\ ncn_cmd' = Tells /\ ncn_reads' = << >>

\* Bytes that are nobody's own.
AnyBytes(n) == [i \in 1 .. n |-> "any"]

\* The request goes to the serial line; a reset forgets the reception in
\* progress; a command that expects nothing is over.
SendRequest ==
    /\ ncn_pc = "send"
    /\ ncn_line' = AnyBytes(Len(ncn_line)) /\ rx_cmd_buff' = AnyBytes(Len(rx_cmd_buff))
    /\ ncn_asked' = ncn_asked + ncn_cmd.answer
    /\ rx_data_running' = (rx_data_running /\ ~ncn_cmd.forgets)
    /\ IF ncn_reads = << >> THEN CommandOver ELSE ncn_pc' = "wait" /\ UNCHANGED <<ncn_cmd, ncn_reads>>
    /\ UNCHANGED <<next_data_is_cmd_reply, ncn_loaded, ncn_clean, ncn_wrong>>

\* Mutant: what was read stays in the buffer.
ReadKeeps(len) == rx_cmd_buff' = rx_cmd_buff
\* get_req_reply_data, with the interrupts disabled: len bytes leave the buffer.
ReadTakes(len) == rx_cmd_buff' = SubSeq(rx_cmd_buff, len + 1, Len(rx_cmd_buff))

\* One read of the answer, once the buffer holds enough.  send_packet gives up
\* when its first byte looks like an error, and drops the buffer; what it still expects is not taken back.
get_req_reply_data ==
    /\ ncn_pc = "wait" /\ Len(rx_cmd_buff) >= Head(ncn_reads)
    /\ LET got == {rx_cmd_buff[i] : i \in 1 .. Head(ncn_reads)}
       IN /\ ncn_wrong' = (ncn_wrong \/ got # {"own"})
          /\ \/ /\ ReadTakes(Head(ncn_reads))
                /\ \/ Len(ncn_reads) = 1 /\ CommandOver
                   \/ Len(ncn_reads) > 1 /\ ncn_reads' = Tail(ncn_reads) /\ UNCHANGED <<ncn_pc, ncn_cmd>>
             \/ /\ Len(ncn_reads) = 3 /\ got # {"own"}
                /\ rx_cmd_buff' = << >> /\ CommandOver
    /\ UNCHANGED <<next_data_is_cmd_reply, ncn_loaded, rx_data_running, ncn_chip>>

\* The uart's interrupt.  The end of a frame is noticed at the first byte of the
\* next one, which alone is passed with the mark: in between, the driver takes
\* the bus to be busy.
handle_rx ==
    /\ ncn_line # << >> /\ ncn_line' = Tail(ncn_line)
    /\ IF next_data_is_cmd_reply > 0
       THEN /\ rx_cmd_buff' = Append(rx_cmd_buff, Head(ncn_line))
            /\ next_data_is_cmd_reply' = next_data_is_cmd_reply - 1
            /\ UNCHANGED rx_data_running
       ELSE /\ rx_data_running' \in IF rx_data_running THEN BOOLEAN ELSE {TRUE}
            /\ UNCHANGED <<rx_cmd_buff, next_data_is_cmd_reply>>
    /\ UNCHANGED <<ncn_pc, ncn_cmd, ncn_reads, ncn_loaded,
                   ncn_asked, ncn_clean, ncn_wrong>>

\* A byte on the line that is no answer: from now on none can be told from it.
OtherByte ==
    /\ ncn_line' = AnyBytes(Len(ncn_line) + 1) /\ ncn_clean' = FALSE
    /\ rx_cmd_buff' = AnyBytes(Len(rx_cmd_buff))

\* The chip answers, or reports an error instead of the echo of a packet.
ChipAnswers ==
    /\ ncn_asked > 0 /\ ncn_asked' = 0
    /\ \/ /\ ncn_line' = ncn_line \o [i \in 1 .. ncn_asked |-> IF ncn_clean THEN "own" ELSE "any"]
          /\ UNCHANGED <<ncn_clean, rx_cmd_buff>>
       \/ ncn_asked > 4 /\ OtherByte
    /\ UNCHANGED <<ncn_pc, ncn_cmd, ncn_reads, next_data_is_cmd_reply, ncn_loaded,
                   rx_data_running, ncn_wrong>>

\* The chip forwards a byte of the bus.
KnxByte ==
    /\ Len(ncn_line) < LineLimit
    /\ OtherByte
    /\ UNCHANGED <<ncn_pc, ncn_cmd, ncn_reads, next_data_is_cmd_reply, ncn_loaded,
                   rx_data_running, ncn_asked, ncn_wrong>>

NcnMain == CommandCall \/ drop_cmd_data \/ set_nb_cmd_req_data \/ SendRequest \/ get_req_reply_data
NcnNext == NcnMain \/ handle_rx \/ ChipAnswers \/ KnxByte
NcnSpec == NcnInit /\ [][NcnNext]_ncn_vars

\* The main loop goes on, the chip answers and the line delivers.
NcnFairness ==
    /\ WF_ncn_vars(drop_cmd_data \/ set_nb_cmd_req_data \/ SendRequest \/ get_req_reply_data)
    /\ WF_ncn_vars(handle_rx) /\ WF_ncn_vars(ChipAnswers)

NcnTypeOK ==
    /\ ncn_pc \in {"idle", "drop", "load", "store", "send", "wait"} /\ ncn_cmd \in Commands
    /\ rx_cmd_buff \in Seq({"own", "any"})
    /\ ncn_line \in Seq({"own", "any"})
    /\ next_data_is_cmd_reply \in Nat /\ ncn_loaded \in Nat
    /\ {rx_data_running, ncn_clean, ncn_wrong} \subseteq BOOLEAN /\ ncn_asked \in Nat

\* As long as the bus is silent and the chip reports no error, a command reads
\* its own answer, all of it and nothing else (ncn5120.c:129-149).
OwnAnswers == ncn_clean => ~ncn_wrong

\* A command but send_packet, which must get what it waits for whatever the bus
\* and the chip have sent before: the busy wait of ncn5120.c:138 ends.  (The error
\* that a packet meets may come after a KNX byte that is taken for its echo.)
NcnWaits == ncn_pc = "wait" /\ Len(ncn_cmd.reads) = 1

=============================================================================
