---------------------------- MODULE SensorBuffer ----------------------------
(***************************************************************************)
(* The sensor's ring of bytes (Sensor/main.c).  The UART interrupt writes  *)
(* it, the main loop empties it into the next frame, and neither checks    *)
(* that the writer has not lapped the reader.                              *)
(*                                                                         *)
(* A byte is the number of its arrival: byte k is the k-th the UART        *)
(* received.  Even ones are device addresses, odd ones their intensities.  *)
(***************************************************************************)
EXTENDS Integers, Sequences

CONSTANTS
    RingSize,       \* STOCKAGE_DATA_BUFFER_SIZE
    MaxFrame,       \* NB_MAX_DATA_SEND
    MaxBytes,       \* bound: bytes the UART receives
    Garbage         \* a byte of `data` that was never written

ASSUME RingSizeType == RingSize \in Nat \ {0} /\ RingSize % 2 = 0
ASSUME MaxFrameType == MaxFrame \in Nat \ {0} /\ MaxFrame % 2 = 0
ASSUME MaxBytesType == MaxBytes \in Nat
ASSUME GarbageType  == Garbage \notin Nat

VARIABLES
    stockage_data,      \* the ring
    pointeur_ecriture, pointeur_lecture,
    pc,                 \* where the main loop is: "loop", or in the copy of
                        \*   send_uart_on_rf at "check" or "get"
    len_data, data,     \* the frame: its length, the bytes copied so far
    measured,           \* pointeur_ecriture when len_data was computed
    wait_acq,           \* the last frame is not acknowledged
    arrived, taken,     \* history: bytes received, calls of get_data
    overrun,            \* history: a whole ring of bytes was left unread
    sent                \* history: the data of the frames, end to end

writer == <<stockage_data, pointeur_ecriture, arrived>>
reader == <<pointeur_lecture, taken>>
frame  == <<len_data, data, measured>>
vars   == <<writer, reader, frame, pc, wait_acq, overrun, sent>>

Init ==
    /\ stockage_data = [p \in 0 .. RingSize - 1 |-> Garbage]
    /\ pointeur_ecriture = 0 /\ pointeur_lecture = 0
    /\ pc = "loop"
    /\ len_data = 0 /\ data = <<>> /\ measured = 0
    /\ wait_acq = FALSE
    /\ arrived = 0 /\ taken = 0
    /\ overrun = FALSE
    /\ sent = <<>>

----------------------------------------------------------------------------
(* The UART interrupt: handle_uart_cmd. *)

\* Mutant: the pointer moves before the byte is stored.
AddDataAfterPointer ==
    /\ arrived < MaxBytes
    /\ pointeur_ecriture' = (pointeur_ecriture + 1) % RingSize
    /\ stockage_data' = [stockage_data EXCEPT ![pointeur_ecriture'] = arrived]
    /\ arrived' = arrived + 1
    /\ overrun' = (overrun \/ arrived + 1 - taken >= RingSize)
    /\ UNCHANGED <<reader, frame, pc, wait_acq, sent>>

AddData ==
    /\ arrived < MaxBytes
    /\ stockage_data' = [stockage_data EXCEPT ![pointeur_ecriture] = arrived]
    /\ pointeur_ecriture' = (pointeur_ecriture + 1) % RingSize
    /\ arrived' = arrived + 1
    /\ overrun' = (overrun \/ arrived + 1 - taken >= RingSize)
    /\ UNCHANGED <<reader, frame, pc, wait_acq, sent>>

----------------------------------------------------------------------------
(* The main loop. *)

number_data_readable == (pointeur_ecriture - pointeur_lecture) % RingSize

\* Mutants of LenData: an odd last byte goes too; `len_data > 2`.
LenDataOdd  == IF number_data_readable > MaxFrame THEN MaxFrame ELSE number_data_readable
LenDataLate ==
    IF number_data_readable <= 2 THEN 0
    ELSE IF number_data_readable > MaxFrame THEN MaxFrame
    ELSE number_data_readable - (number_data_readable % 2)

LenData ==
    IF number_data_readable > MaxFrame
    THEN MaxFrame
    ELSE number_data_readable - (number_data_readable % 2)

\* main, then send_uart_on_rf up to its first test.
StartFrame ==
    /\ pc = "loop"
    /\ ~wait_acq
    /\ pointeur_ecriture # pointeur_lecture             \* is_readable_data
    /\ LenData > 1
    /\ len_data' = LenData
    /\ data' = <<>>
    /\ measured' = pointeur_ecriture
    /\ pc' = "check"
    /\ UNCHANGED <<writer, reader, wait_acq, overrun, sent>>

\* An iteration that resends the last frame, or finds nothing to send.
Poll ==
    /\ pc = "loop"
    /\ wait_acq \/ LenData <= 1
    /\ UNCHANGED vars

\* is_readable_data, in the copy loop.  pointeur_ecriture is not volatile:
\* the compiler may keep the value the loop started with.
CheckReadable ==
    /\ pc = "check"
    /\ Len(data) < len_data
    /\ \E observed \in {pointeur_ecriture, measured} :
          IF observed # pointeur_lecture
          THEN pc' = "get" /\ UNCHANGED data
          ELSE pc' = "check" /\ data' = Append(data, Garbage)
    /\ UNCHANGED <<writer, reader, len_data, measured, wait_acq, overrun, sent>>

\* Mutant: the reader does not wrap.
GetDataUnwrapped ==
    /\ pc = "get"
    /\ data' = Append(data, stockage_data[pointeur_lecture])
    /\ pointeur_lecture' = pointeur_lecture + 1
    /\ taken' = taken + 1
    /\ pc' = "check"
    /\ UNCHANGED <<writer, len_data, measured, wait_acq, overrun, sent>>

get_data ==
    /\ pc = "get"
    /\ data' = Append(data, stockage_data[pointeur_lecture])
    /\ pointeur_lecture' = (pointeur_lecture + 1) % RingSize
    /\ taken' = taken + 1
    /\ pc' = "check"
    /\ UNCHANGED <<writer, len_data, measured, wait_acq, overrun, sent>>

\* The rest of send_uart_on_rf: the frame is complete and waits to be
\* acknowledged.
SendFrame ==
    /\ pc = "check"
    /\ Len(data) = len_data
    /\ sent' = sent \o data
    /\ wait_acq' = TRUE
    /\ pc' = "loop"
    /\ len_data' = 0 /\ data' = <<>> /\ measured' = 0
    /\ UNCHANGED <<writer, reader, overrun>>

\* handle_rf_rx_data, with the acknowledgement of the last frame.
Acknowledged ==
    /\ pc = "loop"
    /\ wait_acq
    /\ wait_acq' = FALSE
    /\ UNCHANGED <<writer, reader, frame, pc, overrun, sent>>

MainLoop == StartFrame \/ CheckReadable \/ get_data \/ SendFrame
Next     == AddData \/ MainLoop \/ Poll \/ Acknowledged

Spec == Init /\ [][Next]_vars

\* The main loop never stops, and every frame is acknowledged in the end.
FairSpec == Spec /\ WF_vars(MainLoop) /\ WF_vars(Acknowledged)

----------------------------------------------------------------------------
(* Properties. *)

Bytes == 0 .. MaxBytes
Slots == 0 .. RingSize - 1

\* Every variable keeps the values the code gives it.
TypeOK ==
    /\ stockage_data \in [Slots -> Bytes \cup {Garbage}]
    /\ pointeur_ecriture \in Slots /\ pointeur_lecture \in Slots
    /\ pc \in {"loop", "check", "get"}
    /\ len_data \in 0 .. MaxFrame /\ Len(data) <= len_data
    /\ data \in Seq(Bytes \cup {Garbage}) /\ sent \in Seq(Bytes \cup {Garbage})
    /\ measured \in Slots
    /\ wait_acq \in BOOLEAN /\ overrun \in BOOLEAN
    /\ arrived \in Bytes /\ taken \in Nat

\* Until the main loop falls a whole ring behind the UART, what it sends is
\* what arrived: no byte lost, duplicated, reordered or made up, however the
\* interrupt falls between the tests and the reads of the copy.
SentIsReceived ==
    ~overrun =>
        /\ taken <= arrived
        /\ Len(sent \o data) = taken
        /\ \A i \in 1 .. taken : (sent \o data)[i] = i - 1

\* An address never takes the place of an intensity in a frame, even after an
\* overrun: frames have an even length and so has the ring, so what is lost
\* is whole pairs.  The exception is a frame that was measured before the
\* overrun and filled after it, which gets a byte that was never written.
PairsStayTogether ==
    (\A i \in DOMAIN (sent \o data) : (sent \o data)[i] # Garbage) =>
        \A i \in DOMAIN data : data[i] % 2 = (i - 1) % 2

\* When the UART falls silent, everything it received is sent, but for the
\* address of a pair whose intensity has not come.
EverythingIsSent ==
    <>[](overrun \/ (arrived - taken = arrived % 2 /\ pc = "loop"))

=============================================================================
