---------------------------- MODULE RadioFrames ----------------------------
(***************************************************************************)
(* The bytes of the frames the two boards of apps/ProjTrans exchange: the  *)
(* header, the readings, two checksums and the encryption.  RadioLink has  *)
(* the order of the exchange; here a frame reaches the other board, maybe  *)
(* with a byte changed or two bytes swapped.  A frame is a function of the *)
(* code's indices.                                                         *)
(***************************************************************************)
EXTENDS Integers, Sequences, FiniteSetsExt, Bitwise

CONSTANTS
    Readings,       \* addresses and intensities read
    MaxPairs,       \* NB_MAX_DATA_SEND \div 2
    Changes,        \* what is added to a byte that is changed
    MessageIds      \* bound: ids the sensor uses, from 1

ASSUME FrameReadings == Readings \subseteq 0 .. 255 /\ MaxPairs \in 1 .. 27
ASSUME FrameChanges == Changes \subseteq 1 .. 255 /\ MessageIds \in 1 .. 255

MSG_DEMANDE_ACQ == 1
MSG_ACQ == 2
ENCRYPTION_KEY_1 == 49
ENCRYPTION_KEY_2 == 198
LEN_CHECKSUM == 2
LEN_ENTETE == 8
Address == [sensor |-> 130, gateway |-> 129]
Silence == << >>

VARIABLES
    fr_id,          \* id_last_data_send
    fr_data,        \* history: the readings of the last message
    fr_stored,      \* stockage_last_data_send
    fr_wait,        \* wait_acq
    fr_air,         \* the frame on the air, and to whom it goes
    fr_spoilt,      \* history: whether it was changed on its way
    fr_printed      \* what the gateway has printed of the last message

fr_vars == <<fr_id, fr_data, fr_stored, fr_wait, fr_air, fr_spoilt, fr_printed>>

RadioFramesInit ==
    /\ fr_id = 0 /\ fr_data = << >> /\ fr_stored = Silence /\ fr_wait = FALSE
    /\ fr_air = Silence /\ fr_spoilt = FALSE /\ fr_printed = << >>

----------------------------------------------------------------------------
\* The two sums of the bytes before the checksums, the second weighted by index.
Summed(f) == 0 .. f[0] - 2
calculation_first_byte_checksum(f) == MapThenSumSet(LAMBDA i : f[i], Summed(f)) % 256
\* Mutant: the two sums are one.
SumTwice(f) == calculation_first_byte_checksum(f)

calculation_second_byte_checksum(f) == MapThenSumSet(LAMBDA i : f[i] * i, Summed(f)) % 256

\* From the third byte to the last; decrypting applies the same keys again.
encrypt(f) ==
    [i \in DOMAIN f |-> IF i < 2 THEN f[i] ELSE (f[i] ^^ ENCRYPTION_KEY_1) ^^ ENCRYPTION_KEY_2]
decrypt(f) == encrypt(f)

Framed(bytes, len) ==
    [i \in 0 .. len - 1 |-> IF i < Len(bytes) THEN bytes[i + 1] ELSE 0]
WithChecksums(bytes) ==
    LET len == Len(bytes) + LEN_CHECKSUM
        f == Framed(<<len - 1>> \o Tail(bytes), len)
    IN [f EXCEPT ![len - 2] = calculation_first_byte_checksum(f),
                 ![len - 1] = calculation_second_byte_checksum(f)]

DataBytesOf(id, data) ==
    WithChecksums(<<0, Address["gateway"], Address["sensor"], MSG_DEMANDE_ACQ, id, 1, 1, 0>> \o data)
AckBytesOf(id, sous_id) ==
    WithChecksums(<<0, Address["sensor"], Address["gateway"], MSG_ACQ, id, sous_id>>)

ChecksumsAgree(f) ==
    /\ f[f[0] - 1] = calculation_first_byte_checksum(f)
    /\ f[f[0]] = calculation_second_byte_checksum(f)

----------------------------------------------------------------------------
(* The sensor's board. *)

send_uart_on_rf ==
    /\ ~fr_wait /\ fr_air = Silence /\ fr_id < MessageIds
    /\ \E data \in UNION {[1 .. 2 * n -> Readings] : n \in 1 .. MaxPairs} :
          LET f == encrypt(DataBytesOf(fr_id + 1, data))
          IN fr_data' = data /\ fr_stored' = f /\ fr_air' = f
    /\ fr_id' = fr_id + 1 /\ fr_wait' = TRUE
    /\ fr_spoilt' = FALSE /\ fr_printed' = << >>

resend_last_message ==
    /\ fr_wait /\ fr_air = Silence
    /\ fr_air' = fr_stored /\ fr_spoilt' = FALSE
    /\ UNCHANGED <<fr_id, fr_data, fr_stored, fr_wait, fr_printed>>

\* handle_rf_rx_data, of a frame the chip gave.
SensorReads ==
    /\ fr_air # Silence /\ fr_air[1] = Address["sensor"]
    /\ LET f == decrypt(fr_air) IN
       fr_wait' = (fr_wait /\ ~(ChecksumsAgree(f) /\ f[3] = MSG_ACQ /\ f[4] = fr_id /\ f[5] = 1))
    /\ fr_air' = Silence
    /\ UNCHANGED <<fr_id, fr_data, fr_stored, fr_spoilt, fr_printed>>

----------------------------------------------------------------------------
(* The gateway's board. *)

Readable(f) == SubSeq([k \in 1 .. f[0] |-> f[k]], LEN_ENTETE, f[0] - LEN_CHECKSUM)

\* A message whose checksums agree is acknowledged and printed, in pairs.
GatewayReadsFrame ==
    /\ fr_air # Silence /\ fr_air[1] = Address["gateway"]
    /\ LET f == decrypt(fr_air) IN
       IF ChecksumsAgree(f)
       THEN /\ fr_air' = IF f[3] = MSG_DEMANDE_ACQ THEN encrypt(AckBytesOf(f[4], f[6])) ELSE Silence
            /\ fr_printed' = Readable(f)
       ELSE fr_air' = Silence /\ UNCHANGED fr_printed
    /\ fr_spoilt' = FALSE
    /\ UNCHANGED <<fr_id, fr_data, fr_stored, fr_wait>>

----------------------------------------------------------------------------
(* The air. *)

\* One byte after the length is changed, or two neighbours are swapped; the length
\* says how many bytes the chip takes, and stays.
Spoils ==
    /\ fr_air # Silence /\ ~fr_spoilt
    /\ \/ \E i \in DOMAIN fr_air \ {0}, n \in Changes :
             fr_air' = [fr_air EXCEPT ![i] = (@ + n) % 256]
       \/ \E i \in DOMAIN fr_air \ {0} :
             /\ i + 1 \in DOMAIN fr_air /\ fr_air[i] # fr_air[i + 1]
             /\ fr_air' = [fr_air EXCEPT ![i] = fr_air[i + 1], ![i + 1] = fr_air[i]]
    /\ fr_spoilt' = TRUE
    /\ UNCHANGED <<fr_id, fr_data, fr_stored, fr_wait, fr_printed>>

\* The frame is not heard, or its address is neither board's.
Missed ==
    /\ fr_air # Silence
    /\ fr_air' = Silence
    /\ UNCHANGED <<fr_id, fr_data, fr_stored, fr_wait, fr_spoilt, fr_printed>>

RadioFramesNext ==
    \/ send_uart_on_rf \/ resend_last_message \/ SensorReads
    \/ GatewayReadsFrame \/ Spoils \/ Missed

RadioFramesSpec == RadioFramesInit /\ [][RadioFramesNext]_fr_vars

----------------------------------------------------------------------------
RadioFramesTypeOK ==
    /\ fr_id \in 0 .. MessageIds /\ {fr_wait, fr_spoilt} \subseteq BOOLEAN
    /\ \A f \in {fr_stored, fr_air} \ {Silence} : f \in [0 .. f[0] -> 0 .. 255]
    /\ fr_data \in Seq(Readings) /\ fr_printed \in Seq(0 .. 255)

\* A frame with a byte changed or two swapped is never printed nor taken for an
\* acknowledgement: what the gateway prints is what the sensor read, each intensity
\* with its address, a message the sensor leaves has been printed, and one sent and
\* sent again undisturbed can be read.
FramesAreRead ==
    /\ fr_printed \in {<< >>, fr_data}
    /\ fr_id # 0 /\ ~fr_wait => fr_printed = fr_data
    /\ fr_air # Silence /\ fr_air[1] \in {Address["sensor"], Address["gateway"]}
         => (ChecksumsAgree(decrypt(fr_air)) <=> ~fr_spoilt)

============================================================================
