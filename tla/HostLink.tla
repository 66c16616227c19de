------------------------------ MODULE HostLink ------------------------------
(***************************************************************************)
(* The host's side of the DTPlug serial link (host/udpbridge): one loop    *)
(* takes datagrams and the bytes of the module, in any order; the requests *)
(* a datagram or a packet calls for are written before anything else is    *)
(* read.  ByteValues are bytes, and the checksums are what they are in the      *)
(* code, sums of 8 bits: bytes may be lost, debug text stands between the  *)
(* module's packets, data may look like a start, and bytes that do not     *)
(* belong together may have the right sum.                                 *)
(***************************************************************************)
EXTENDS Integers, Sequences, SequencesExt

CONSTANTS
    PACKET_DATA_SIZE,   \* 64
    SlavePackets,       \* what the module sends: kind, type, the header's last two bytes and the data
    Datagrams,          \* the datagrams that arrive
    MaxPackets,         \* bound: packets the module sends
    MaxDebug,           \* bound: characters of debug text
    MaxLost,            \* bound: bytes lost
    MaxRequests         \* bound: datagrams

ByteValues == 0 .. 255
HeaderSize == 6         \* start, type, checksum, seq_num, and two bytes: size and checksum of the data
SEQUENCE_MASK == 32
PACKET_IS_ERROR == 128
QUICK_DATA_PACKET == 64
FIRST_PACKET_CHAR == 35 \* '#'
OtherChar == 46              \* any other character

\* Every request of the handlers fits a packet: the longest one has 4 bytes.
ASSUME HostSizes ==
    /\ PACKET_DATA_SIZE \in 4 .. 64
    /\ \A p \in SlavePackets :
          /\ p.kind \in {"error", "quick", "data", "none"} /\ p.type \in ByteValues
          /\ p.info \in Seq(ByteValues) /\ (p.kind # "data" => Len(p.info) = 2)
          /\ p.data \in Seq(ByteValues) /\ Len(p.data) <= PACKET_DATA_SIZE
          /\ p.kind # "data" => p.data = << >>

\* What a datagram makes the host send, in order: size and need of a reply.
Request(size, need) == [size |-> size, need |-> need]
RequestsOf(datagram) ==
    CASE datagram = "UT" -> <<Request(0, FALSE), Request(0, TRUE)>>
      [] datagram \in {"US", "UD"} -> <<Request(0, TRUE)>>
      [] datagram = "UA" -> <<Request(1, TRUE)>>
      [] datagram \in {"SD", "SS"} -> <<Request(1, FALSE)>>
      [] datagram = "SL" -> <<Request(4, FALSE)>>
      [] OTHER -> << >>      \* GET is answered from what was last received

VARIABLES
    requests,       \* host_send_packet: the calls to make, the first one under way
    sequence_number,
    line,           \* bytes of the module not yet read
    host_packet, rx_ptr, sum, full_size,
    known,          \* temperature0, smoke, distances...: the last value of each type
    slave_sent,     \* history: the bytes of each packet of the module
    run,            \* history: the packet that is read from its first byte on, and how far
    heard,          \* history: the packets whose bytes were all read so
    delivered,      \* history: what was given to handle_module_data, and at which packet's byte
    debug, lost_bytes, datagrams,
    disturbed       \* history: a loss, a start in the text, or a packet with a wrong size

sending_vars == <<requests, sequence_number>>
rx_vars == <<host_packet, rx_ptr, sum, full_size>>
decoding_vars == <<rx_vars, known, run, heard, delivered>>
host_vars == <<sending_vars, decoding_vars, slave_sent, debug, line, lost_bytes, datagrams, disturbed>>

NoRun == [id |-> 0, place |-> 0]
RxSize == HeaderSize + PACKET_DATA_SIZE

\* main clears the transceiver, its packet included.
HostInit ==
    /\ requests = << >> /\ sequence_number = 0
    /\ line = << >> /\ host_packet = [i \in 1 .. RxSize |-> 0] /\ rx_ptr = 0 /\ sum = 0 /\ full_size = 0
    /\ known = [t \in {p.type : p \in SlavePackets} |-> <<0, 0>>]
    /\ slave_sent = << >> /\ run = NoRun /\ heard = {} /\ delivered = << >>
    /\ debug = 0 /\ lost_bytes = 0 /\ datagrams = 0 /\ disturbed = FALSE

----------------------------------------------------------------------------
(* host_send_packet: a request is one packet.  The header of one without   *)
(* data goes out with the size that happens to be on the stack; what the   *)
(* module then makes of it is not part of this module.                     *)

SendPacket ==
    /\ requests # << >>
    /\ sequence_number' = (sequence_number + 1) % 256
    /\ requests' = Tail(requests)
    /\ UNCHANGED <<decoding_vars, slave_sent, debug, line, lost_bytes, datagrams, disturbed>>

\* handle_udp_request.
handle_udp_request ==
    /\ requests = << >> /\ datagrams < MaxRequests
    /\ \E datagram \in Datagrams : requests' = RequestsOf(datagram)
    /\ datagrams' = datagrams + 1
    /\ UNCHANGED <<sequence_number, decoding_vars, slave_sent, debug, line, lost_bytes, disturbed>>

----------------------------------------------------------------------------
(* dtplug_protocol_decode, one byte of the line at a time. *)

IsError(packet) == packet[4] >= PACKET_IS_ERROR
IsQuick(packet) == (packet[4] \div QUICK_DATA_PACKET) % 2 = 1
HasData(packet) == ~IsError(packet) /\ ~IsQuick(packet)
DataSize(packet) == packet[5] % 128

\* An error packet asks for the list of errors; the others update what GET reports,
\* once the two bytes of a quick packet are moved to the data.
handle_module_data(packet) ==
    LET moved == IF ~IsError(packet) /\ IsQuick(packet)
                 THEN [packet EXCEPT ![7] = packet[5], ![8] = packet[6], ![5] = 2] ELSE packet
    IN /\ host_packet' = moved
       /\ IF IsError(packet)
          THEN requests' = <<Request(0, TRUE)>> /\ UNCHANGED known
          ELSE /\ known' = [t \in DOMAIN known |-> IF t = packet[2] THEN <<moved[7], moved[8]>> ELSE known[t]]
               /\ UNCHANGED requests

\* Mutant: a packet that is refused leaves its sum to the next one.
NextPacketKeepsSum(added) == full_size' = 0 /\ rx_ptr' = 0 /\ sum' = added
next_packet(added) == full_size' = 0 /\ rx_ptr' = 0 /\ sum' = 0

NotDelivered == UNCHANGED <<delivered, known, requests>>
RefusedPacket(packet, added) == host_packet' = packet /\ next_packet(added) /\ NotDelivered
StoredByte(packet, added, size) ==
    host_packet' = packet /\ rx_ptr' = rx_ptr + 1 /\ sum' = added /\ full_size' = size /\ NotDelivered
Delivered(packet, size, id) ==
    /\ next_packet(0) /\ handle_module_data(packet)
    /\ delivered' = Append(delivered, [id |-> id, bytes |-> SubSeq(packet, 1, size)])

\* The header's own sum is 0; that of the data starts anew and is in the header.
dtplug_protocol_decode(b) ==
    LET packet == [host_packet EXCEPT ![rx_ptr + 1] = b.char]
        added == (sum + b.char) % 256
        header == rx_ptr + 1 = HeaderSize
        size == IF header THEN HeaderSize + (IF HasData(packet) THEN DataSize(packet) ELSE 0) ELSE full_size
        of_data == IF header THEN 0 ELSE added
    IN IF rx_ptr = 0 /\ b.char # FIRST_PACKET_CHAR THEN NotDelivered /\ UNCHANGED rx_vars
       ELSE IF header /\ (added # 0 \/ size > RxSize) THEN RefusedPacket(packet, added)
       ELSE IF rx_ptr + 1 = size
            THEN IF HasData(packet) /\ of_data # packet[6] THEN RefusedPacket(packet, added)
                 ELSE Delivered(packet, size, b.id)
       ELSE StoredByte(packet, of_data, size)

\* The packet whose first byte the decoder was waiting for, as far as its bytes have
\* followed without another one.
RunAfter(b) ==
    IF rx_ptr = 0 /\ b.place = 1 THEN [id |-> b.id, place |-> 1]
    ELSE IF run.id # 0 /\ b.id = run.id /\ b.place = run.place + 1 THEN [run EXCEPT !.place = b.place]
    ELSE NoRun

ReadByte ==
    /\ requests = << >> /\ line # << >>
    /\ dtplug_protocol_decode(Head(line)) /\ line' = Tail(line)
    /\ run' = RunAfter(Head(line))
    /\ heard' = IF run'.id # 0 /\ run'.place = Len(slave_sent[run'.id]) THEN heard \cup {run'.id} ELSE heard
    /\ UNCHANGED <<sequence_number, slave_sent, debug, lost_bytes, datagrams, disturbed>>

----------------------------------------------------------------------------
(* The module and the line. *)

SumOf(bytes) == FoldLeft(LAMBDA n, b : (n + b) % 256, 0, bytes)

\* A reply without data leaves the last two bytes of its header unset.
PacketBytes(p, seq) ==
    LET flags == CASE p.kind = "error" -> PACKET_IS_ERROR [] p.kind = "quick" -> QUICK_DATA_PACKET
                   [] OTHER -> 0
        info == IF p.kind = "data" THEN <<Len(p.data), SumOf(p.data)>> ELSE p.info
        rest == <<(seq % SEQUENCE_MASK) + flags>> \o info
    IN <<FIRST_PACKET_CHAR, p.type, (256 - SumOf(<<FIRST_PACKET_CHAR, p.type>> \o rest)) % 256>>
         \o rest \o p.data

OnLine(bytes, id) == [i \in 1 .. Len(bytes) |-> [char |-> bytes[i], id |-> id, place |-> i]]
Misleads(p) == p.kind = "none" /\ p.info # <<0, 0>>

ModuleSends ==
    /\ Len(slave_sent) < MaxPackets
    /\ \E p \in SlavePackets :
          LET bytes == PacketBytes(p, Len(slave_sent))
          IN /\ slave_sent' = Append(slave_sent, bytes)
             /\ line' = line \o OnLine(bytes, IF Misleads(p) THEN 0 ELSE Len(slave_sent) + 1)
             /\ disturbed' = (disturbed \/ Misleads(p))
    /\ UNCHANGED <<sending_vars, decoding_vars, debug, lost_bytes, datagrams>>

\* Debug text; one that holds a start character disturbs the packets.
ModulePrints ==
    /\ debug < MaxDebug
    /\ debug' = debug + 1
    /\ \E char \in {OtherChar, FIRST_PACKET_CHAR} :
          /\ line' = Append(line, [char |-> char, id |-> 0, place |-> 0])
          /\ disturbed' = (disturbed \/ char = FIRST_PACKET_CHAR)
    /\ UNCHANGED <<sending_vars, decoding_vars, slave_sent, lost_bytes, datagrams>>

LineLoses ==
    /\ line # << >> /\ lost_bytes < MaxLost
    /\ lost_bytes' = lost_bytes + 1 /\ line' = Tail(line) /\ disturbed' = TRUE
    /\ UNCHANGED <<sending_vars, decoding_vars, slave_sent, debug, datagrams>>

HostNext ==
    handle_udp_request \/ SendPacket \/ ReadByte \/ ModuleSends \/ ModulePrints \/ LineLoses

HostSpec == HostInit /\ [][HostNext]_host_vars

----------------------------------------------------------------------------
HostTypeOK ==
    /\ requests \in Seq([size: {0, 1, 4}, need: BOOLEAN]) /\ Len(requests) <= 2
    /\ sequence_number \in ByteValues
    /\ host_packet \in [1 .. RxSize -> ByteValues] /\ rx_ptr \in 0 .. RxSize - 1 /\ sum \in ByteValues
    /\ full_size \in {0} \cup HeaderSize .. RxSize
    /\ \A t \in DOMAIN known : known[t] \in ByteValues \X ByteValues
    /\ run.id \in 0 .. Len(slave_sent) /\ heard \subseteq 1 .. Len(slave_sent)
    /\ debug \in 0 .. MaxDebug /\ lost_bytes \in 0 .. MaxLost /\ datagrams \in 0 .. MaxRequests

\* A packet whose bytes come together to a decoder that waits for one is delivered, just
\* as it was sent, whatever was lost, printed or refused before it.
HeardIsDelivered ==
    \A id \in heard : \E i \in 1 .. Len(delivered) : delivered[i] = [id |-> id, bytes |-> slave_sent[id]]

\* Without a loss, a start in the text or a size that nobody set, the packets are
\* delivered in their order, with nothing between them, and each by its last byte; only
\* then: bytes that do not belong together may have the right sums.
UndisturbedAreDelivered ==
    ~disturbed =>
        /\ \A i \in 1 .. Len(delivered) : delivered[i] = [id |-> i, bytes |-> slave_sent[i]]
        /\ line = << >> => Len(delivered) = Len(slave_sent) /\ rx_ptr = 0

\* The decoder finds back after what it has refused, and undisturbed loses nothing.
HostLinkHolds == HeardIsDelivered /\ UndisturbedAreDelivered

============================================================================
