------------------------------- MODULE DtPlug -------------------------------
(***************************************************************************)
(* The slave side of the DTPlug protocol (lib/protocols/dtplug/slave.c):   *)
(* the uart's interrupt fills one of two packets while the main loop works *)
(* on the other and answers it.  A packet is given back with two stores,   *)
(* between which the interrupt may strike; it may also strike between the  *)
(* check of the table of errors and each of the two stores of an error     *)
(* that the main loop notes, and the last stores may then miss the table:  *)
(* the bytes behind it are num_errors_stored and done_with_old_packet.     *)
(***************************************************************************)
EXTENDS Integers, TLAPS

CONSTANTS
    Packets,            \* records: type, quick, fits, needs
    DTPP_MAX_ERROR_STORED,
    StoredBytes         \* error codes and sequence numbers, as the numbers they are

\* A packet of the master: its type, its data in the header, of the size its type
\* asks for, and the bit that asks for a reply.
PacketKinds ==
    [type: {"ping", "reset", "set_time", "user_info", "errors", "other"},
     quick: BOOLEAN, fits: BOOLEAN, needs: BOOLEAN]

ASSUME PacketsAssumption ==
    /\ Packets \subseteq PacketKinds
    /\ DTPP_MAX_ERROR_STORED \in Nat \ {0}
    /\ StoredBytes \subseteq Nat

VARIABLES
    rx_packet,          \* the packet, 0 or 1, that the interrupt fills
    rx_part,            \* "none", "header" or "data": what it waits for
    packets,            \* their contents, Partial while one is received
    packet_ok,          \* the packet to handle, or -1
    done_with_old_packet,
    num_errors_stored,  \* bytes of the table of errors in use
    dt_overrun,         \* history: a store has missed the table
    dt_pc,              \* of the main loop
    dt_error,           \* send_reply's error argument
    dt_release,         \* its caller gives the packet back afterwards
    dt_stores,          \* bytes of an error that the main loop still stores
    dt_replies          \* history: replies to the packet in hand

dt_rx == <<rx_packet, rx_part, packets, packet_ok, done_with_old_packet>>
dt_vars == <<rx_packet, rx_part, packets, packet_ok, done_with_old_packet,
             num_errors_stored, dt_overrun, dt_pc, dt_error, dt_release, dt_stores, dt_replies>>

\* A packet of which some bytes have been received.
Partial == [type |-> "partial", quick |-> FALSE, fits |-> FALSE, needs |-> FALSE]

ErrorBytes == 2 * DTPP_MAX_ERROR_STORED

\* dtplug_protocol_set_dtplug_comm_uart, on the zeroed memory of a board.
DtStart ==
    [rx |-> 0, part |-> "none", ok |-> -1, done |-> TRUE, errors |-> 0,
     contents |-> [b \in 0 .. 1 |-> Partial]]
DtPlugInit ==
    /\ rx_packet = DtStart.rx /\ rx_part = DtStart.part /\ packets = DtStart.contents
    /\ packet_ok = DtStart.ok /\ done_with_old_packet = DtStart.done
    /\ num_errors_stored = DtStart.errors /\ dt_overrun = FALSE
    /\ dt_pc = "poll" /\ dt_error = FALSE /\ dt_release = FALSE
    /\ dt_stores = 0 /\ dt_replies = 0

\* What a store through the index n makes of the index: the byte behind the table
\* is num_errors_stored itself, and C does not say which of the byte and of the
\* incremented index is stored last.
IndexAfter(n) == IF n = ErrorBytes THEN {n + 1} \cup StoredBytes ELSE {n + 1}

\* dtplug_protocol_add_error_to_list, called by the interrupt, which nothing
\* interrupts: its second store misses the table when it strikes between the two
\* of the main loop and one byte is left.
ErrorNoted ==
    IF num_errors_stored < ErrorBytes
    THEN /\ num_errors_stored' \in IndexAfter(num_errors_stored + 1)
         /\ dt_overrun' = (dt_overrun \/ num_errors_stored + 1 = ErrorBytes)
    ELSE UNCHANGED <<num_errors_stored, dt_overrun>>

\* The decoder at the last byte of a valid packet: the packet is handed over
\* and the other one filled next, unless the old one is still in use.
\* Mutant: the old packet is not looked at.
PacketReceivedAnyway(p) ==
    /\ packets' = [packets EXCEPT ![rx_packet] = p]
    /\ packet_ok' = rx_packet /\ rx_packet' = 1 - rx_packet
    /\ done_with_old_packet' = FALSE /\ dt_replies' = 0
    /\ UNCHANGED <<num_errors_stored, dt_overrun>>
PacketReceived(p) ==
    /\ packets' = [packets EXCEPT ![rx_packet] = p]
    /\ IF done_with_old_packet
       THEN /\ packet_ok' = rx_packet /\ rx_packet' = 1 - rx_packet
            /\ done_with_old_packet' = FALSE /\ dt_replies' = 0
            /\ UNCHANGED <<num_errors_stored, dt_overrun>>
       ELSE /\ ErrorNoted
            /\ UNCHANGED <<packet_ok, rx_packet, done_with_old_packet, dt_replies>>

\* dtplug_protocol_decode: the start character, whatever sent it.
ByteStart ==
    /\ rx_part = "none" /\ rx_part' = "header"
    /\ packets' = [packets EXCEPT ![rx_packet] = Partial]
    /\ UNCHANGED <<rx_packet, packet_ok, done_with_old_packet, num_errors_stored, dt_overrun,
                   dt_pc, dt_error, dt_release, dt_stores, dt_replies>>

\* The end of the header: a bad sum starts over, a header without data is a packet.
ByteEndsHeader ==
    /\ rx_part = "header"
    /\ \/ rx_part' = "none" /\ UNCHANGED <<rx_packet, packets, packet_ok,
                                         done_with_old_packet, num_errors_stored,
                                         dt_overrun, dt_replies>>
       \/ rx_part' = "data" /\ UNCHANGED <<rx_packet, packets, packet_ok,
                                         done_with_old_packet, num_errors_stored,
                                         dt_overrun, dt_replies>>
       \/ rx_part' = "none" /\ \E p \in Packets : p.quick /\ PacketReceived(p)
    /\ UNCHANGED <<dt_pc, dt_error, dt_release, dt_stores>>

\* The end of the data: the packet, a bad sum that is noted, or a size beyond
\* the packet, which is dropped without a word.
ByteEndsData ==
    /\ rx_part = "data" /\ rx_part' = "none"
    /\ \/ \E p \in Packets : ~p.quick /\ PacketReceived(p)
       \/ /\ ErrorNoted
          /\ UNCHANGED <<rx_packet, packets, packet_ok, done_with_old_packet, dt_replies>>
       \/ UNCHANGED <<rx_packet, packets, packet_ok, done_with_old_packet,
                      num_errors_stored, dt_overrun, dt_replies>>
    /\ UNCHANGED <<dt_pc, dt_error, dt_release, dt_stores>>

Question == packets[packet_ok]
Malformed(p) == p.type \in {"set_time", "user_info"} /\ (p.quick \/ ~p.fits)

\* The handler calls send_reply, and may release the packet afterwards.
Reply(error, release, needs) ==
    /\ dt_pc' = "reply" /\ dt_error' = error /\ dt_release' = release
    /\ packets' = [packets EXCEPT ![packet_ok].needs = needs]
    /\ UNCHANGED <<rx_packet, rx_part, packet_ok, done_with_old_packet,
                   num_errors_stored, dt_overrun, dt_stores, dt_replies>>

\* NVIC_SystemReset, and the board's start.
DtReset ==
    /\ rx_packet' = DtStart.rx /\ rx_part' = DtStart.part /\ packets' = DtStart.contents
    /\ packet_ok' = DtStart.ok /\ done_with_old_packet' = DtStart.done
    /\ num_errors_stored' = DtStart.errors /\ dt_overrun' = FALSE
    /\ dt_pc' = "poll" /\ dt_error' = FALSE /\ dt_release' = FALSE
    /\ dt_stores' = 0 /\ dt_replies' = 0

\* dtplug_protocol_get_next_packet_ok and the common handles, up to their call
\* of send_reply.  The errors of set_time and user_info leave the packet in
\* hand; any other type, and a packet that is overwritten after an overrun, goes
\* to the application, which answers as it likes.
common_handles ==
    /\ dt_pc = "poll" /\ packet_ok # -1
    /\ LET q == Question IN
       \/ q.type \in {"ping", "errors"} /\ Reply(FALSE, TRUE, TRUE)
       \/ q.type = "reset" /\ DtReset
       \/ Malformed(q) /\ Reply(TRUE, FALSE, q.needs)
       \/ q.type = "set_time" /\ ~Malformed(q) /\ q.needs /\ Reply(FALSE, TRUE, q.needs)
       \/ /\ q.type = "set_time" /\ ~Malformed(q) /\ ~q.needs /\ dt_pc' = "release"
          /\ UNCHANGED <<rx_packet, rx_part, packets, packet_ok, done_with_old_packet,
                         num_errors_stored, dt_overrun, dt_error, dt_release, dt_stores,
                         dt_replies>>
       \/ q.type = "user_info" /\ ~Malformed(q) /\ (DtReset \/ Reply(TRUE, FALSE, q.needs))
       \/ q.type \in {"other", "partial"} /\ \E error \in BOOLEAN : Reply(error, TRUE, q.needs)

\* dtplug_protocol_add_error_to_list, called by send_reply: the check of the
\* table; its two stores follow before anything else of the main loop.
AddError == dt_stores' = IF num_errors_stored < ErrorBytes THEN 2 ELSE 0

\* Mutant: the bit that asks for a reply stays.
SendReplyAgain ==
    /\ dt_pc = "reply"
    /\ IF ~Question.needs
       THEN /\ dt_pc' = "return" /\ IF dt_error THEN AddError ELSE UNCHANGED dt_stores
            /\ UNCHANGED <<packets, dt_replies>>
       ELSE /\ dt_replies' = dt_replies + 1
            /\ dt_pc' = "table"
            /\ IF num_errors_stored # 0 /\ dt_error THEN AddError ELSE UNCHANGED dt_stores
            /\ UNCHANGED packets
    /\ UNCHANGED <<rx_packet, rx_part, packet_ok, done_with_old_packet, num_errors_stored,
                   dt_overrun, dt_error, dt_release>>
\* dtplug_protocol_send_reply: without a request only the error is noted;
\* with errors in the table a new one is noted before the reply is built.
send_reply ==
    /\ dt_pc = "reply"
    /\ IF ~Question.needs
       THEN /\ dt_pc' = "return" /\ IF dt_error THEN AddError ELSE UNCHANGED dt_stores
            /\ UNCHANGED <<packets, dt_replies>>
       ELSE /\ packets' = [packets EXCEPT ![packet_ok].needs = FALSE]
            /\ dt_replies' = dt_replies + 1
            /\ dt_pc' = "table"
            /\ IF num_errors_stored # 0 /\ dt_error THEN AddError ELSE UNCHANGED dt_stores
    /\ UNCHANGED <<rx_packet, rx_part, packet_ok, done_with_old_packet, num_errors_stored,
                   dt_overrun, dt_error, dt_release>>

\* The two stores of an error of the main loop, with the index of the moment: the
\* second byte behind the table is done_with_old_packet, and what is further on is
\* not modelled.
StoreError ==
    /\ dt_stores > 0 /\ dt_stores' = dt_stores - 1
    /\ num_errors_stored' \in IndexAfter(num_errors_stored)
    /\ IF num_errors_stored = ErrorBytes + 1 THEN done_with_old_packet' \in BOOLEAN
                                            ELSE UNCHANGED done_with_old_packet
    /\ dt_overrun' = (dt_overrun \/ num_errors_stored >= ErrorBytes)
    /\ UNCHANGED <<rx_packet, rx_part, packets, packet_ok, dt_pc, dt_error, dt_release,
                   dt_replies>>

\* The table is read and emptied for a master that asks for the errors.
ReplyTable ==
    /\ dt_pc = "table" /\ dt_pc' = "send"
    /\ num_errors_stored' = IF Question.type = "errors" THEN 0 ELSE num_errors_stored
    /\ UNCHANGED <<dt_rx, dt_overrun, dt_error, dt_release, dt_stores, dt_replies>>

\* The loops over the packets of the reply and serial_write: they end, or the
\* uart is an error.
ReplySent ==
    /\ dt_pc = "send"
    /\ dt_pc' = "return" /\ (AddError \/ UNCHANGED dt_stores)
    /\ UNCHANGED <<dt_rx, num_errors_stored, dt_overrun, dt_error, dt_release, dt_replies>>

ReplyReturns ==
    /\ dt_pc = "return" /\ dt_pc' = IF dt_release THEN "release" ELSE "poll"
    /\ UNCHANGED <<dt_rx, num_errors_stored, dt_overrun, dt_error, dt_release, dt_stores, dt_replies>>

\* dtplug_protocol_release_old_packet.
release_old_packet ==
    \/ /\ dt_pc = "release" /\ dt_pc' = "released" /\ packet_ok' = -1
       /\ UNCHANGED <<rx_packet, rx_part, packets, done_with_old_packet, num_errors_stored,
                      dt_overrun, dt_error, dt_release, dt_stores, dt_replies>>
    \/ /\ dt_pc = "released" /\ dt_pc' = "poll" /\ done_with_old_packet' = TRUE
       /\ UNCHANGED <<rx_packet, rx_part, packets, packet_ok, num_errors_stored,
                      dt_overrun, dt_error, dt_release, dt_stores, dt_replies>>

DtInterrupt == ByteStart \/ ByteEndsHeader \/ ByteEndsData
DtMain ==
    \/ StoreError
    \/ /\ dt_stores = 0
       /\ \/ common_handles \/ send_reply \/ ReplyTable
          \/ ReplySent \/ ReplyReturns \/ release_old_packet
DtPlugNext == DtInterrupt \/ DtMain
DtPlugSpec == DtPlugInit /\ [][DtPlugNext]_dt_vars

\* The board's main loop goes on.
DtPlugFairness == WF_dt_vars(DtMain)

DtPlugTypeOK ==
    /\ rx_packet \in 0 .. 1 /\ rx_part \in {"none", "header", "data"}
    /\ packet_ok \in -1 .. 1 /\ done_with_old_packet \in BOOLEAN
    /\ num_errors_stored \in Nat /\ dt_overrun \in BOOLEAN
    /\ dt_overrun \/ num_errors_stored \in 0 .. ErrorBytes
    /\ dt_pc \in {"poll", "reply", "table", "send", "return", "release", "released"}
    /\ dt_stores \in 0 .. 2
    /\ dt_error \in BOOLEAN /\ dt_release \in BOOLEAN /\ dt_replies \in 0 .. 2

\* An error goes into the table when there is room for it and is dropped otherwise
\* (slave.c:227).
ErrorsFit == ~dt_overrun

\* While the main loop holds a packet it keeps that one, and nothing but its
\* own handling of the reply bit changes it: what arrives meanwhile goes to the
\* other one and is refused (slave.c:153-171).  That holds until an error has been
\* stored behind its table, where done_with_old_packet is.
PacketStays ==
    [][~dt_overrun /\ packet_ok # -1 /\ packet_ok' # -1 =>
          /\ packet_ok' = packet_ok
          /\ packets'[packet_ok] = [Question EXCEPT !.needs = packets'[packet_ok].needs]
          /\ (dt_pc' = dt_pc => packets'[packet_ok] = Question)]_dt_vars

\* A packet is never answered twice (slave.c:245), not even one that is handled
\* again and again because its handler forgets to release it, unless an error has
\* been stored behind its table.
AnsweredOnce == dt_overrun \/ dt_replies < 2

\* The receiver is taken by a packet, which must be released, except for a
\* malformed time or user information and a flash that fails: they stay in hand
\* for ever.
DtPlugWaits ==
    ~done_with_old_packet /\ ~(packet_ok # -1 /\ Question.type \in {"set_time", "user_info"})

----------------------------------------------------------------------------
(* Proofs.  Of the two packets the interrupt fills the one the main loop   *)
(* does not hold; and a packet that comes back to the main loop after its  *)
(* answer is one whose handler only ever repeats what it asks.  All of it  *)
(* holds until an error is stored behind its table.                        *)

AnyPacket ==
    [type: {"partial", "ping", "reset", "set_time", "user_info", "errors", "other"},
     quick: BOOLEAN, fits: BOOLEAN, needs: BOOLEAN]
KeptTypes == {"set_time", "user_info"}

Held == packet_ok # -1
InReply == dt_pc \in {"reply", "table", "send", "return"}

DtTypes ==
    /\ rx_packet \in 0 .. 1 /\ packet_ok \in -1 .. 1 /\ done_with_old_packet \in BOOLEAN
    /\ packets \in [0 .. 1 -> AnyPacket] /\ dt_replies \in Nat
    /\ dt_pc \in {"poll", "reply", "table", "send", "return", "release", "released"}
PacketsApart ==
    /\ done_with_old_packet => ~Held /\ dt_pc = "poll"
    /\ ~done_with_old_packet => (Held <=> dt_pc # "released")
    /\ Held => rx_packet = 1 - packet_ok
AnswersCounted ==
    /\ dt_replies < 2
    /\ Held /\ dt_replies # 0 => ~Question.needs
    /\ Held /\ dt_replies # 0 /\ dt_pc = "poll" => Question.type \in KeptTypes
    /\ Held /\ InReply /\ ~dt_release => Question.type \in KeptTypes
DtSound == DtTypes /\ PacketsApart /\ AnswersCounted
DtInv == dt_overrun \/ DtSound

\* The packets of the configuration are packets.
LEMMA PacketsAreAny == Packets \subseteq AnyPacket
BY PacketsAssumption DEF AnyPacket, PacketKinds

\* So is one that is being filled.
LEMMA PartialIsAny == Partial \in AnyPacket
BY DEF Partial, AnyPacket

\* What arrives, whatever it is: the packet in hand stays, with all that is known of it.
LEMMA InterruptKeeps ==
  ASSUME DtSound, DtInterrupt
  PROVE  DtSound' /\ (Held => packet_ok' = packet_ok /\ packets'[packet_ok] = Question)
<1> USE PacketsAreAny, PartialIsAny DEF DtSound, DtTypes, PacketsApart, Held
<1>1. ASSUME NEW p \in Packets, PacketReceived(p), UNCHANGED <<dt_pc, dt_error, dt_release, dt_stores>>
      PROVE  DtSound' /\ (Held => packet_ok' = packet_ok /\ packets'[packet_ok] = Question)
  <2>1. packets' \in [0 .. 1 -> AnyPacket] /\ (Held => packets'[packet_ok] = Question)
    BY <1>1 DEF PacketReceived, Question
  <2>2. CASE done_with_old_packet
    <3>1. /\ packet_ok' = rx_packet /\ rx_packet' = 1 - rx_packet /\ done_with_old_packet' = FALSE
          /\ dt_replies' = 0 /\ dt_pc' = "poll"
      BY <1>1, <2>2 DEF PacketReceived
    <3>2. DtTypes'
      <4>1. rx_packet' \in 0 .. 1 /\ packet_ok' \in -1 .. 1 /\ packet_ok' # -1
        BY <3>1
      <4> QED
        BY <2>1, <3>1, <4>1
    <3>3. PacketsApart'
      <4>1. rx_packet' = 1 - packet_ok' /\ packet_ok' # -1
        BY <3>1
      <4> QED
        BY <3>1, <4>1
    <3>4. AnswersCounted'
      BY <3>1 DEF AnswersCounted, InReply
    <3> QED
      BY <2>2, <3>2, <3>3, <3>4
  <2>3. CASE ~done_with_old_packet
    BY <1>1, <2>1, <2>3 DEF PacketReceived, AnswersCounted, InReply, Question
  <2> QED
    BY <2>2, <2>3
<1>2. CASE ByteStart
  <2>1. packets' \in [0 .. 1 -> AnyPacket] /\ (Held => packets'[packet_ok] = Question)
    BY <1>2 DEF ByteStart, Question
  <2> QED
    BY <1>2, <2>1 DEF ByteStart, AnswersCounted, InReply, Question
<1>3. ASSUME UNCHANGED <<rx_packet, packets, packet_ok, done_with_old_packet, dt_replies>>,
             UNCHANGED <<dt_pc, dt_error, dt_release, dt_stores>>
      PROVE  DtSound' /\ (Held => packet_ok' = packet_ok /\ packets'[packet_ok] = Question)
  BY <1>3 DEF AnswersCounted, InReply, Question
<1>4. CASE ByteEndsHeader
  BY <1>1, <1>3, <1>4 DEF ByteEndsHeader
<1>5. CASE ByteEndsData
  BY <1>1, <1>3, <1>5 DEF ByteEndsData
<1> QED
  BY <1>2, <1>4, <1>5 DEF DtInterrupt

\* A handler's call of send_reply: the packet in hand keeps all but its reply bit.
LEMMA ReplyKeeps ==
  ASSUME DtSound, Held, dt_pc = "poll", NEW error \in BOOLEAN, NEW release \in BOOLEAN,
         NEW needs \in BOOLEAN, Reply(error, release, needs),
         dt_replies # 0 => ~needs, ~release => Question.type \in KeptTypes
  PROVE  DtSound' /\ packets'[packet_ok] = [Question EXCEPT !.needs = packets'[packet_ok].needs]
<1> USE DEF DtSound, DtTypes, PacketsApart, Held
<1>1. packet_ok \in 0 .. 1 /\ Question \in AnyPacket
  BY DEF Question
<1>2. packets'[packet_ok] = [Question EXCEPT !.needs = needs]
  BY <1>1 DEF Reply, Question
<1>3. packets' \in [0 .. 1 -> AnyPacket]
  BY <1>1 DEF Reply, Question, AnyPacket
<1>4. packets'[packet_ok].needs = needs /\ packets'[packet_ok].type = Question.type
  BY <1>1, <1>2 DEF AnyPacket
<1>5. DtTypes' /\ PacketsApart'
  BY <1>3 DEF Reply
<1>6. AnswersCounted'
  BY <1>4 DEF Reply, AnswersCounted, InReply, Question
<1> QED
  BY <1>2, <1>4, <1>5, <1>6

\* What the properties say of a step.
StepKeeps ==
    Held /\ packet_ok' # -1 =>
       /\ packet_ok' = packet_ok
       /\ packets'[packet_ok] = [Question EXCEPT !.needs = packets'[packet_ok].needs]
       /\ (dt_pc' = dt_pc => packets'[packet_ok] = Question)

\* A packet that is unchanged has changed its reply bit at most.
LEMMA WholeIsExcept ==
  ASSUME DtSound, Held, packets'[packet_ok] = Question
  PROVE  packets'[packet_ok] = [Question EXCEPT !.needs = packets'[packet_ok].needs]
BY DEF DtSound, DtTypes, Held, Question, AnyPacket

\* One step of the main loop.
LEMMA MainKeeps ==
  ASSUME DtSound, DtMain
  PROVE  (dt_overrun' \/ DtSound') /\ StepKeeps
<1> USE DEF DtSound, DtTypes, PacketsApart, Held, StepKeeps
<1>1. ASSUME Held PROVE packet_ok \in 0 .. 1 /\ Question \in AnyPacket
  BY <1>1 DEF Question
\* The steps that do not touch the packets.
<1>2. ASSUME UNCHANGED <<rx_packet, packets, packet_ok, done_with_old_packet, dt_replies>>,
             dt_release' = dt_release, dt_pc' \in {"table", "send", "return", "release", dt_pc}
               \/ (dt_pc = "return" /\ ~dt_release /\ dt_pc' = "poll"),
             dt_pc' # dt_pc => InReply
      PROVE  DtSound' /\ StepKeeps
  <2>1. Held /\ packet_ok' # -1 => packets'[packet_ok] = Question
    BY <1>2 DEF Question
  <2>2. StepKeeps
    BY <1>2, <2>1, WholeIsExcept
  <2>3. DtTypes' /\ PacketsApart'
    BY <1>2 DEF InReply
  <2>4. AnswersCounted'
    BY <1>2 DEF AnswersCounted, InReply, Question
  <2> QED
    BY <2>2, <2>3, <2>4
<1>3. CASE StoreError
  <2>1. UNCHANGED <<rx_packet, packets, packet_ok, dt_replies, dt_release, dt_pc>>
    BY <1>3 DEF StoreError
  <2>2. CASE num_errors_stored = ErrorBytes + 1 /\ ErrorBytes + 1 \in Nat
    <3>1. StepKeeps
      BY <2>1, WholeIsExcept DEF Question
    <3>2. num_errors_stored >= ErrorBytes
      BY <2>2, PacketsAssumption DEF ErrorBytes
    <3>3. dt_overrun'
      BY <1>3, <3>2 DEF StoreError
    <3> QED
      BY <3>1, <3>3
  <2>3. CASE ~(num_errors_stored = ErrorBytes + 1)
    BY <1>2, <1>3, <2>1, <2>3 DEF StoreError
  <2> QED
    BY <2>2, <2>3, PacketsAssumption DEF ErrorBytes
<1>4. CASE DtReset
  <2>1. DtTypes' /\ PacketsApart' /\ packet_ok' = -1 /\ dt_replies' = 0
    BY <1>4, PartialIsAny DEF DtReset, DtStart
  <2> QED
    BY <2>1 DEF AnswersCounted
<1>5. CASE common_handles /\ ~DtReset
  <2>1. Held /\ dt_pc = "poll" /\ ~done_with_old_packet
    BY <1>5 DEF common_handles
  <2>2. CASE \E error \in BOOLEAN, release \in BOOLEAN, needs \in BOOLEAN :
                /\ Reply(error, release, needs)
                /\ dt_replies # 0 => ~needs
                /\ ~release => Question.type \in KeptTypes
    <3>1. DtSound' /\ packets'[packet_ok] = [Question EXCEPT !.needs = packets'[packet_ok].needs]
      BY <2>1, <2>2, ReplyKeeps
    <3>2. packet_ok' = packet_ok /\ dt_pc' # dt_pc
      BY <2>1, <2>2 DEF Reply
    <3> QED
      BY <3>1, <3>2
  <2>3. CASE dt_pc' = "release" /\ Question.type = "set_time"
               /\ UNCHANGED <<rx_packet, packets, packet_ok, done_with_old_packet, dt_replies>>
    <3>1. StepKeeps
      BY <2>1, <2>3, WholeIsExcept DEF Question
    <3>2. DtTypes' /\ PacketsApart'
      BY <2>1, <2>3
    <3>3. AnswersCounted'
      BY <2>1, <2>3 DEF AnswersCounted, InReply, Question
    <3> QED
      BY <3>1, <3>2, <3>3
  <2>4. Question.needs \in BOOLEAN /\ (dt_replies # 0 => ~Question.needs)
          /\ (dt_replies # 0 => Question.type \in KeptTypes)
    BY <1>1, <2>1 DEF AnyPacket, AnswersCounted
  <2>5. CASE Question.type \in {"ping", "errors"} /\ Reply(FALSE, TRUE, TRUE)
    BY <2>2, <2>4, <2>5 DEF KeptTypes
  <2>6. CASE Malformed(Question) /\ Reply(TRUE, FALSE, Question.needs)
    BY <2>2, <2>4, <2>6 DEF Malformed, KeptTypes
  <2>7. CASE \E error \in BOOLEAN, release \in BOOLEAN :
               /\ Reply(error, release, Question.needs)
               /\ release \/ Question.type = "user_info"
    BY <2>2, <2>4, <2>7 DEF KeptTypes
  <2> QED
    BY <1>5, <2>3, <2>5, <2>6, <2>7 DEF common_handles
<1>6. CASE send_reply
  <2>1. Held /\ ~done_with_old_packet /\ dt_pc = "reply" /\ InReply
    BY <1>6 DEF send_reply, InReply
  <2>2. CASE ~Question.needs
    BY <1>2, <1>6, <2>1, <2>2 DEF send_reply, dt_rx
  <2>3. CASE Question.needs
    <3>1. packets'[packet_ok] = [Question EXCEPT !.needs = FALSE]
      BY <1>1, <1>6, <2>1, <2>3 DEF send_reply, Question
    <3>2. packets' \in [0 .. 1 -> AnyPacket]
      <4> DEFINE q == [packets[packet_ok] EXCEPT !.needs = FALSE]
      <4>1. q \in AnyPacket
        BY <1>1, <2>1 DEF Question, AnyPacket
      <4>2. packets' = [packets EXCEPT ![packet_ok] = q]
        BY <1>6, <2>3 DEF send_reply
      <4> HIDE DEF q
      <4> QED
        BY <4>1, <4>2
    <3>3. packets'[packet_ok].needs = FALSE /\ packets'[packet_ok].type = Question.type
      BY <1>1, <2>1, <3>1 DEF AnyPacket
    <3>4. dt_replies = 0
      BY <2>1, <2>3 DEF AnswersCounted
    <3>5. DtTypes' /\ PacketsApart'
      BY <1>6, <2>1, <2>3, <3>2 DEF send_reply
    <3>6. AnswersCounted'
      BY <1>6, <2>1, <2>3, <3>3, <3>4 DEF send_reply, AnswersCounted, InReply, Question
    <3> QED
      BY <1>6, <2>1, <2>3, <3>1, <3>3, <3>5, <3>6 DEF send_reply
  <2> QED
    BY <2>2, <2>3
<1>7. CASE ReplyTable \/ ReplySent \/ ReplyReturns
  BY <1>2, <1>7 DEF ReplyTable, ReplySent, ReplyReturns, dt_rx, InReply
<1>8. CASE release_old_packet
  <2>1. CASE dt_pc = "release"
    <3>1. /\ dt_pc' = "released" /\ packet_ok' = -1
          /\ UNCHANGED <<rx_packet, packets, done_with_old_packet, dt_replies>>
      BY <1>8, <2>1 DEF release_old_packet
    <3>2. ~done_with_old_packet
      BY <2>1
    <3>3. DtTypes'
      BY <3>1
    <3>4. PacketsApart' /\ ~Held'
      BY <3>1, <3>2
    <3>5. AnswersCounted'
      BY <3>1 DEF AnswersCounted
    <3> QED
      BY <3>1, <3>3, <3>4, <3>5
  <2>2. CASE dt_pc = "released"
    <3>1. /\ dt_pc' = "poll" /\ done_with_old_packet' = TRUE
          /\ UNCHANGED <<rx_packet, packets, packet_ok, dt_replies>>
      BY <1>8, <2>2 DEF release_old_packet
    <3>2. ~Held
      BY <2>2
    <3>3. DtTypes'
      BY <3>1
    <3>4. PacketsApart' /\ packet_ok' = -1
      BY <3>1, <3>2
    <3>5. AnswersCounted'
      BY <3>1, <3>4 DEF AnswersCounted
    <3> QED
      BY <3>1, <3>3, <3>4, <3>5
  <2> QED
    BY <1>8, <2>1, <2>2 DEF release_old_packet
<1> QED
  BY <1>3, <1>4, <1>5, <1>6, <1>7, <1>8 DEF DtMain, common_handles

\* Only a reset takes the board out of an overrun, and it starts anew.
LEMMA OverrunStays == DtPlugNext /\ dt_overrun => (dt_overrun' \/ DtSound')
<1>1. CASE DtReset
  <2>1. DtTypes' /\ PacketsApart' /\ packet_ok' = -1 /\ dt_replies' = 0
    BY <1>1, PartialIsAny DEF DtReset, DtStart, DtTypes, PacketsApart, Held
  <2> QED
    BY <2>1 DEF AnswersCounted, Held, DtSound
<1>2. ASSUME ~DtReset, DtPlugNext, dt_overrun
      PROVE  dt_overrun' = TRUE
  <2>1. CASE DtInterrupt
    BY <1>2, <2>1 DEF DtInterrupt, ByteStart, ByteEndsHeader, ByteEndsData, PacketReceived,
                      ErrorNoted
  <2>2. CASE DtMain
    BY <1>2, <2>2 DEF DtMain, StoreError, common_handles, Reply, send_reply, ReplyTable,
                      ReplySent, ReplyReturns, release_old_packet
  <2> QED
    BY <1>2, <2>1, <2>2 DEF DtPlugNext
<1> QED
  BY <1>1, <1>2

\* Every step keeps the invariant and the packet in hand.
LEMMA DtStepKeeps ==
  DtInv /\ [DtPlugNext]_dt_vars => DtInv' /\ (~dt_overrun => StepKeeps \/ UNCHANGED dt_vars)
<1>1. ASSUME DtSound, DtInterrupt PROVE DtSound' /\ StepKeeps
  BY <1>1, InterruptKeeps, WholeIsExcept DEF StepKeeps
<1>2. ASSUME DtInv, UNCHANGED dt_vars PROVE DtInv'
  BY <1>2 DEF dt_vars, DtInv, DtSound, DtTypes, PacketsApart, AnswersCounted, Held, InReply,
              Question
<1> QED
  BY <1>1, <1>2, MainKeeps, OverrunStays DEF DtPlugNext, DtInv

\* The invariant of the two theorems.
LEMMA DtInductive == DtPlugSpec => []DtInv
<1>1. DtPlugInit => DtInv
  BY PartialIsAny DEF DtPlugInit, DtStart, DtInv, DtSound, DtTypes, PacketsApart,
                      AnswersCounted, Held
<1> QED
  BY <1>1, DtStepKeeps, PTL DEF DtPlugSpec

\* For any packets and any table of errors, a packet is never answered twice, unless an
\* error has been stored behind its table.
THEOREM NoSecondAnswer == DtPlugSpec => []AnsweredOnce
<1>1. DtInv => AnsweredOnce
  BY DEF DtInv, DtSound, AnswersCounted, AnsweredOnce
<1> QED
  BY <1>1, DtInductive, PTL

\* And whatever arrives, the packet in hand is the one that was taken, changed only by
\* its own handling, for as long as the errors fit their table.
THEOREM PacketIsKept == DtPlugSpec => PacketStays
<1>1. DtInv /\ [DtPlugNext]_dt_vars =>
        [~dt_overrun /\ packet_ok # -1 /\ packet_ok' # -1 =>
          /\ packet_ok' = packet_ok
          /\ packets'[packet_ok] = [Question EXCEPT !.needs = packets'[packet_ok].needs]
          /\ (dt_pc' = dt_pc => packets'[packet_ok] = Question)]_dt_vars
  BY DtStepKeeps DEF StepKeeps, Held
<1> QED
  BY <1>1, DtInductive, PTL DEF DtPlugSpec, PacketStays

=============================================================================
