---------------------------- MODULE BoardProofs ----------------------------
(***************************************************************************)
(* What the boards' ring, buses, tick, time, watchdog and flash promise,   *)
(* proved for every value of their constants: rings, FIFOs and clocks of   *)
(* any size.  Each has its inductive invariant, which says of the steps    *)
(* inside a call what its property says of their end.  The arithmetic of   *)
(* rings and ticks is that of Remainders.                                  *)
(***************************************************************************)
EXTENDS SensorBuffer, Watchdog, SysTime, Usleep, Ssp, Systick, Serial, Flash, Remainders,
        SequenceTheorems, FiniteSetTheorems, WellFoundedInduction, TLAPS

----------------------------------------------------------------------------
(* SensorBuffer: the types. *)

Values == Bytes \cup {Garbage}

\* The pointers are the counts modulo the ring; a byte is read only into a
\* frame that has room; there is no frame between two frames.
CopyInv ==
    /\ pointeur_ecriture = arrived % RingSize
    /\ pointeur_lecture = taken % RingSize
    /\ pc = "get" => Len(data) < len_data
    /\ pc = "loop" => data = <<>> /\ len_data = 0

TypeInv == TypeOK /\ CopyInv

\* The length of a frame is even, fits in it, and is at most what
\* number_data_readable says.
LEMMA LenDataBounds ==
    ASSUME TypeOK
    PROVE  /\ number_data_readable \in Nat
           /\ LenData \in 0 .. MaxFrame
           /\ LenData <= number_data_readable
           /\ LenData % 2 = 0
<1>1. number_data_readable \in Nat
  BY RingSizeType, DivMod DEF number_data_readable, TypeOK, Slots
<1> DEFINE n == number_data_readable
<1> HIDE DEF n
<1>2. n \in Nat /\ (n - (n % 2)) \in Nat /\ (n - (n % 2)) <= n /\ (n - (n % 2)) % 2 = 0
  BY <1>1, Z3 DEF n
<1>3. LenData = IF n > MaxFrame THEN MaxFrame ELSE n - (n % 2)
  BY DEF LenData, n
<1> QED
  BY <1>1, <1>2, <1>3, MaxFrameType DEF n

\* TypeInv holds at the start.
LEMMA TypeInvInit == Init => TypeInv
<1> SUFFICES ASSUME Init PROVE TypeInv
  OBVIOUS
<1>1. 0 % RingSize = 0
  BY RingSizeType, Z3
<1>2. 0 \in Slots /\ 0 \in Bytes /\ 0 \in 0 .. MaxFrame
  BY RingSizeType, MaxBytesType, MaxFrameType DEF Slots, Bytes
<1>3. <<>> \in Seq(Bytes \cup {Garbage}) /\ Len(<<>>) = 0
  BY EmptySeq
<1>4. stockage_data \in [Slots -> Bytes \cup {Garbage}]
  BY DEF Init, Slots
<1>5. TypeOK
  BY <1>2, <1>3, <1>4 DEF Init, TypeOK
<1>6. CopyInv
  BY <1>1 DEF Init, CopyInv
<1> QED
  BY <1>5, <1>6 DEF TypeInv

\* TypeInv is kept by every step: one case for each action.
LEMMA TypeInvStep == TypeInv /\ [Next]_vars => TypeInv'
<1> SUFFICES ASSUME TypeInv, [Next]_vars
             PROVE  TypeInv'
  OBVIOUS
<1> USE RingSizeType, MaxFrameType, MaxBytesType DEF TypeInv
<1>1. CASE AddData
  <2>0. arrived \in Nat /\ arrived' \in Int /\ arrived' = arrived + 1
    BY <1>1 DEF AddData, TypeOK, Bytes
  <2>1. pointeur_ecriture' = arrived' % RingSize
    <3>1. pointeur_ecriture' = ((arrived % RingSize) + 1) % RingSize
      BY <1>1 DEF AddData, CopyInv
    <3>2. ((arrived % RingSize) + 1) % RingSize = (arrived + 1) % RingSize
      BY <2>0, ModNext
    <3> QED
      BY <2>0, <3>1, <3>2
  <2>2. arrived' \in Bytes /\ arrived \in Bytes
    BY <1>1 DEF AddData, TypeOK, Bytes
  <2>3. pointeur_ecriture' \in Slots
    BY <2>0, <2>1, DivMod, Zenon DEF Slots
  <2>4. stockage_data' \in [Slots -> Bytes \cup {Garbage}]
    BY <1>1, <2>2 DEF AddData, TypeOK
  <2>5. overrun' \in BOOLEAN
    BY <1>1 DEF AddData
  <2>6. /\ UNCHANGED <<pc, len_data, data, sent, measured, wait_acq, taken, pointeur_lecture>>
        /\ len_data \in 0 .. MaxFrame /\ Len(data) <= len_data
    BY <1>1 DEF AddData, TypeOK, reader, frame
  <2>7. TypeOK'
    <3>1. /\ pointeur_lecture' \in Slots /\ pc' \in {"loop", "check", "get"}
          /\ data' \in Seq(Bytes \cup {Garbage}) /\ sent' \in Seq(Bytes \cup {Garbage})
          /\ measured' \in Slots /\ taken' \in Nat
      BY <2>6 DEF TypeOK
    <3>2. wait_acq' \in BOOLEAN
      BY <2>6, Zenon DEF TypeOK
    <3>3. len_data' \in 0 .. MaxFrame /\ Len(data') <= len_data'
      BY <2>6
    <3> QED BY <2>2, <2>3, <2>4, <2>5, <3>1, <3>2, <3>3, Zenon DEF TypeOK
  <2>8. CopyInv'
    BY <2>1, <2>6 DEF CopyInv
  <2> QED
    BY <2>7, <2>8
<1>2. CASE StartFrame
  BY <1>2, LenDataBounds, EmptySeq DEF StartFrame, TypeOK, CopyInv, writer, reader
<1>3. CASE CheckReadable
  <2>1. /\ data \in Seq(Bytes \cup {Garbage}) /\ Garbage \in Bytes \cup {Garbage}
        /\ Len(data) < len_data /\ len_data \in Nat /\ len_data' = len_data
        /\ \/ data' = data /\ pc' = "get"
           \/ data' = Append(data, Garbage) /\ pc' = "check"
    BY <1>3 DEF CheckReadable, TypeOK
  <2>2. Append(data, Garbage) \in Seq(Bytes \cup {Garbage}) /\ Len(Append(data, Garbage)) = Len(data) + 1
    BY <2>1, AppendProperties
  <2>3. Len(data) \in Nat
    BY <2>1, LenProperties
  <2>4. data' \in Seq(Bytes \cup {Garbage}) /\ Len(data') <= len_data'
    BY <2>1, <2>2, <2>3
  <2>5. TypeOK'
    BY <1>3, <2>1, <2>4 DEF CheckReadable, TypeOK, writer, reader
  <2>6. CopyInv'
    BY <1>3, <2>1 DEF CheckReadable, CopyInv, writer, reader
  <2> QED
    BY <2>5, <2>6
<1>4. CASE get_data
  <2>0. taken \in Nat /\ taken' \in Nat /\ taken' \in Int /\ taken' = taken + 1
    BY <1>4 DEF get_data, TypeOK
  <2>1. pointeur_lecture' = taken' % RingSize
    <3>1. pointeur_lecture' = ((taken % RingSize) + 1) % RingSize
      BY <1>4 DEF get_data, CopyInv
    <3>2. ((taken % RingSize) + 1) % RingSize = (taken + 1) % RingSize
      BY <2>0, ModNext
    <3> QED
      BY <2>0, <3>1, <3>2
  <2>2. pointeur_lecture' \in Slots
    BY <2>0, <2>1, DivMod, Zenon DEF Slots
  <2>3. stockage_data[pointeur_lecture] \in Bytes \cup {Garbage}
    BY DEF TypeOK
  <2>4. data' \in Seq(Bytes \cup {Garbage}) /\ Len(data') <= len_data
    BY <1>4, <2>3, AppendProperties DEF get_data, TypeOK, CopyInv
  <2> QED
    BY <1>4, <2>0, <2>1, <2>2, <2>4 DEF get_data, TypeOK, CopyInv, writer
<1>5. CASE SendFrame
  <2>1. sent' \in Seq(Bytes \cup {Garbage})
    BY <1>5, ConcatProperties DEF SendFrame, TypeOK
  <2>2. 0 \in Slots
    BY DEF Slots
  <2> QED
    BY <1>5, <2>1, <2>2, EmptySeq DEF SendFrame, TypeOK, CopyInv, writer, reader
<1>6. CASE Acknowledged
  BY <1>6 DEF Acknowledged, TypeOK, CopyInv, writer, reader, frame
<1>7. CASE UNCHANGED vars
  BY <1>7 DEF vars, TypeOK, CopyInv, writer, reader, frame
<1> QED
  BY <1>1, <1>2, <1>3, <1>4, <1>5, <1>6, <1>7 DEF Next, MainLoop, Poll

\* TypeInv holds in every reachable state.
LEMMA TypeInvCorrect == Spec => []TypeInv
  BY TypeInvInit, TypeInvStep, PTL DEF Spec

\* Every reachable state is well typed, for a ring and frames of any size.
THEOREM BufferTypeCorrect == Spec => []TypeOK
  BY TypeInvCorrect, PTL DEF TypeInv

----------------------------------------------------------------------------
(* SensorBuffer: what is sent is what arrived, until the ring overruns. *)

\* The bytes between the pointers are the ones not taken yet.
RingHoldsUnread ==
    /\ taken <= arrived /\ arrived - taken < RingSize
    /\ \A k \in taken .. arrived - 1 : stockage_data[k % RingSize] = k

\* The bytes sent and copied are the first ones.
BytesAreInOrder ==
    /\ Len(sent) + Len(data) = taken
    /\ \A i \in 1 .. Len(sent) : sent[i] = i - 1
    /\ \A i \in 1 .. Len(data) : data[i] = Len(sent) + i - 1

\* The rest of the frame had arrived when its length was computed.
RestHasArrived ==
    \E m \in taken + (len_data - Len(data)) .. arrived : measured = m % RingSize

SentInv ==
    /\ TypeInv
    /\ ~overrun => /\ RingHoldsUnread /\ BytesAreInOrder
                   /\ pc # "loop" => RestHasArrived

\* The ring holds as many unread bytes as the pointers say.
LEMMA ReadableIsUnread ==
    ASSUME TypeInv, RingHoldsUnread
    PROVE  number_data_readable = arrived - taken
<1>1. arrived \in Nat /\ taken \in Nat
  BY MaxBytesType DEF TypeInv, TypeOK, Bytes
<1> QED
  BY <1>1, RingSizeType, ModDiff DEF TypeInv, CopyInv, RingHoldsUnread, number_data_readable

\* The copy never finds the ring empty, whichever pointer it tests.
LEMMA RestIsReadable ==
    ASSUME SentInv, ~overrun, pc = "check", Len(data) < len_data
    PROVE  /\ taken < arrived
           /\ pointeur_ecriture # pointeur_lecture /\ measured # pointeur_lecture
<1>1. /\ arrived \in Nat /\ taken \in Nat /\ len_data \in Nat /\ Len(data) \in Nat
      /\ data \in Seq(Values)
  BY MaxBytesType, MaxFrameType, LenProperties DEF SentInv, TypeInv, TypeOK, Bytes, Values
<1>2. PICK m \in taken + (len_data - Len(data)) .. arrived : measured = m % RingSize
  BY DEF SentInv, RestHasArrived
<1>3. m \in Nat /\ taken < m /\ m <= arrived /\ arrived - taken < RingSize
  BY <1>1, <1>2 DEF SentInv, RingHoldsUnread
<1>4. m - taken < RingSize /\ taken < arrived /\ RingSize \in Nat \ {0}
  BY <1>1, <1>3, RingSizeType
<1>5. taken % RingSize # m % RingSize
  BY <1>1, <1>3, <1>4, ModDistinct, Zenon
<1>6. taken % RingSize # arrived % RingSize
  BY <1>1, <1>3, <1>4, ModDistinct, Zenon
<1>7. /\ pointeur_ecriture = arrived % RingSize
      /\ pointeur_lecture = taken % RingSize
  BY DEF SentInv, TypeInv, CopyInv
<1> QED
  BY <1>2, <1>4, <1>5, <1>6, <1>7, Zenon

\* SentInv holds at the start.
LEMMA SentInvInit == Init => SentInv
<1> SUFFICES ASSUME Init PROVE SentInv
  OBVIOUS
<1>1. TypeInv
  BY TypeInvInit
<1>2. Len(<<>>) = 0
  BY EmptySeq
<1>3. RingHoldsUnread
  BY RingSizeType DEF Init, RingHoldsUnread
<1>4. BytesAreInOrder
  BY <1>2 DEF Init, BytesAreInOrder
<1> QED
  BY <1>1, <1>3, <1>4 DEF Init, SentInv

\* SentInv is kept by every step.
LEMMA SentInvStep == SentInv /\ [Next]_vars => SentInv'
<1> SUFFICES ASSUME SentInv, [Next]_vars, ~overrun'
             PROVE  /\ RingHoldsUnread' /\ BytesAreInOrder'
                    /\ (pc # "loop" => RestHasArrived)'
  BY TypeInvStep DEF SentInv
<1>t. TypeInv /\ TypeInv'
  BY TypeInvStep DEF SentInv
<1>0. /\ arrived \in Nat /\ taken \in Nat /\ len_data \in Nat
      /\ data \in Seq(Values) /\ sent \in Seq(Values)
      /\ Len(data) \in Nat /\ Len(sent) \in Nat
  BY <1>t, MaxBytesType, MaxFrameType, LenProperties DEF TypeInv, TypeOK, Bytes, Values
<1>1. CASE AddData
  <2>a. ~overrun /\ ~ (arrived + 1 - taken >= RingSize)
    BY <1>1, Zenon DEF AddData
  <2>0. /\ ~overrun /\ arrived' = arrived + 1 /\ arrived' - taken < RingSize
        /\ UNCHANGED <<taken, len_data, data, measured, pc, sent>>
        /\ stockage_data' = [stockage_data EXCEPT ![arrived % RingSize] = arrived]
    BY <1>0, <1>1, <1>t, <2>a, RingSizeType DEF AddData, TypeInv, CopyInv, reader, frame
  <2>1. RingHoldsUnread'
    <3>1. taken' <= arrived' /\ arrived' - taken' < RingSize
      BY <1>0, <2>0 DEF SentInv, RingHoldsUnread
    <3>2. ASSUME NEW k \in taken .. arrived PROVE stockage_data'[k % RingSize] = k
      <4>1. k \in Nat /\ k \in Int /\ k % RingSize \in Slots
        BY <1>0, RingSizeType, DivMod DEF Slots
      <4>2. CASE k = arrived
        BY <1>t, <2>0, <4>1, <4>2 DEF TypeInv, TypeOK
      <4>3. CASE k < arrived
        <5>1. arrived - k < RingSize
          BY <1>0, <2>0, <4>1, RingSizeType
        <5>2. k % RingSize # arrived % RingSize
          BY <1>0, <4>1, <4>3, <5>1, RingSizeType, ModDistinct
        <5>3. stockage_data[k % RingSize] = k
          BY <1>0, <2>0, <4>1, <4>3 DEF SentInv, RingHoldsUnread
        <5> QED
          BY <1>t, <2>0, <4>1, <5>2, <5>3 DEF TypeInv, TypeOK
      <4> QED
        BY <1>0, <4>1, <4>2, <4>3
    <3>3. taken' .. arrived' - 1 = taken .. arrived
      BY <1>0, <2>0
    <3> QED
      BY <3>1, <3>2, <3>3 DEF RingHoldsUnread
  <2>2. BytesAreInOrder'
    BY <2>0 DEF SentInv, BytesAreInOrder
  <2>3. ASSUME pc' # "loop" PROVE RestHasArrived'
    <3>1. PICK m \in taken + (len_data - Len(data)) .. arrived : measured = m % RingSize
      BY <2>0, <2>3 DEF SentInv, RestHasArrived
    <3>2. m \in taken' + (len_data' - Len(data')) .. arrived' /\ measured' = m % RingSize
      BY <1>0, <2>0, <3>1
    <3> QED
      BY <3>2, Zenon DEF RestHasArrived
  <2> QED
    BY <2>1, <2>2, <2>3
<1>2. CASE StartFrame
  <2>0. /\ ~overrun /\ data = <<>> /\ data' = <<>> /\ len_data' = LenData
        /\ measured' = arrived % RingSize
        /\ UNCHANGED <<stockage_data, arrived, taken, sent>>
    BY <1>2, <1>t DEF StartFrame, TypeInv, CopyInv, writer, reader
  <2>1. RingHoldsUnread' /\ BytesAreInOrder'
    BY <2>0 DEF SentInv, RingHoldsUnread, BytesAreInOrder
  <2>2. LenData \in Nat /\ LenData <= arrived - taken
    BY <1>t, <2>0, LenDataBounds, ReadableIsUnread, MaxFrameType DEF TypeInv, SentInv
  <2>3. Len(data') = 0
    BY <2>0, EmptySeq
  <2>4. /\ arrived \in taken' + (len_data' - Len(data')) .. arrived'
        /\ measured' = arrived % RingSize
    BY <1>0, <2>0, <2>2, <2>3
  <2>5. RestHasArrived'
    BY <2>4, Zenon DEF RestHasArrived
  <2> QED
    BY <2>1, <2>5
<1>3. CASE CheckReadable
  <2>0. ~overrun /\ pc = "check" /\ Len(data) < len_data
    BY <1>3 DEF CheckReadable
  <2>1. data' = data
    BY <1>3, <2>0, RestIsReadable DEF CheckReadable
  <2>2. UNCHANGED <<stockage_data, arrived, taken, len_data, data, measured, sent>>
    BY <1>3, <2>1 DEF CheckReadable, writer, reader
  <2> QED
    BY <2>0, <2>2 DEF SentInv, RingHoldsUnread, BytesAreInOrder, RestHasArrived
<1>4. CASE get_data
  <2>0. /\ ~overrun /\ pc = "get" /\ Len(data) < len_data /\ taken' = taken + 1
        /\ data' = Append(data, stockage_data[taken % RingSize])
        /\ UNCHANGED <<stockage_data, arrived, len_data, measured, sent>>
    BY <1>4, <1>t DEF get_data, TypeInv, CopyInv, writer
  <2>1. PICK m \in taken + (len_data - Len(data)) .. arrived : measured = m % RingSize
    BY <2>0 DEF SentInv, RestHasArrived
  <2>2. taken < arrived
    BY <1>0, <2>0, <2>1
  <2>3. stockage_data[taken % RingSize] = taken
    BY <1>0, <2>0, <2>2 DEF SentInv, RingHoldsUnread
  <2>4. /\ Len(data') = Len(data) + 1
        /\ data'[Len(data) + 1] = taken
        /\ \A i \in 1 .. Len(data) : data'[i] = data[i]
    <3>1. taken \in Values
      BY <1>0, <1>t, <2>2, MaxBytesType DEF TypeInv, TypeOK, Bytes, Values
    <3> QED
      BY <1>0, <2>0, <2>3, <3>1, AppendProperties
  <2>5. RingHoldsUnread'
    <3>1. RingHoldsUnread
      BY <2>0 DEF SentInv
    <3>2. taken' <= arrived' /\ arrived' - taken' < RingSize
      BY <1>0, <2>0, <2>2, <3>1, RingSizeType DEF RingHoldsUnread
    <3>3. ASSUME NEW k \in taken' .. arrived' - 1 PROVE stockage_data'[k % RingSize] = k
      <4>1. k \in taken .. arrived - 1
        BY <1>0, <2>0
      <4> QED
        BY <2>0, <3>1, <4>1 DEF RingHoldsUnread
    <3> QED
      BY <3>2, <3>3 DEF RingHoldsUnread
  <2>6. BytesAreInOrder'
    <3>1. BytesAreInOrder
      BY <2>0 DEF SentInv
    <3>2. Len(sent') + Len(data') = taken'
      <4>1. sent' = sent /\ taken' = taken + 1 /\ Len(sent) + Len(data) = taken
        BY <2>0, <3>1 DEF BytesAreInOrder
      <4> QED
        BY <1>0, <2>4, <4>1
    <3>3. ASSUME NEW i \in 1 .. Len(data') PROVE data'[i] = Len(sent') + i - 1
      <4>0. sent' = sent /\ Len(sent) + Len(data) = taken
        BY <2>0, <3>1 DEF BytesAreInOrder
      <4>1. CASE i = Len(data) + 1
        <5>1. data'[i] = taken /\ Len(sent') + i - 1 = taken
          BY <1>0, <2>4, <4>0, <4>1
        <5> QED
          BY <5>1
      <4>2. CASE i \in 1 .. Len(data)
        BY <1>0, <2>0, <2>4, <3>1, <4>2 DEF BytesAreInOrder
      <4> QED
        BY <1>0, <2>4, <4>1, <4>2
    <3> QED
      BY <2>0, <3>1, <3>2, <3>3 DEF BytesAreInOrder
  <2>7. m \in taken' + (len_data' - Len(data')) .. arrived' /\ measured' = m % RingSize
    BY <1>0, <2>0, <2>1, <2>4
  <2>8. RestHasArrived'
    BY <2>7, Zenon DEF RestHasArrived
  <2> QED
    BY <2>5, <2>6, <2>8
<1>5. CASE SendFrame
  <2>0. /\ ~overrun /\ sent' = sent \o data /\ data' = <<>> /\ pc' = "loop"
        /\ UNCHANGED <<stockage_data, arrived, taken>>
    BY <1>5 DEF SendFrame, writer, reader
  <2>1. RingHoldsUnread'
    BY <2>0 DEF SentInv, RingHoldsUnread
  <2>2. /\ Len(data') = 0 /\ Len(sent') = Len(sent) + Len(data)
        /\ \A i \in 1 .. Len(sent) + Len(data) :
              sent'[i] = IF i <= Len(sent) THEN sent[i] ELSE data[i - Len(sent)]
    BY <1>0, <2>0, EmptySeq, ConcatProperties
  <2>3. BytesAreInOrder'
    BY <1>0, <2>0, <2>2 DEF SentInv, BytesAreInOrder
  <2> QED
    BY <2>0, <2>1, <2>3
<1>6. CASE Acknowledged
  BY <1>6 DEF Acknowledged, SentInv, RingHoldsUnread, BytesAreInOrder, RestHasArrived,
              writer, reader, frame
<1>7. CASE UNCHANGED vars
  BY <1>7 DEF SentInv, RingHoldsUnread, BytesAreInOrder, RestHasArrived,
              vars, writer, reader, frame
<1> QED
  BY <1>1, <1>2, <1>3, <1>4, <1>5, <1>6, <1>7 DEF Next, MainLoop, Poll

\* The invariant gives the property.
LEMMA SentInvImplies == SentInv => SentIsReceived
<1> SUFFICES ASSUME SentInv, ~overrun
             PROVE  /\ taken <= arrived
                    /\ Len(sent \o data) = taken
                    /\ \A i \in 1 .. taken : (sent \o data)[i] = i - 1
  BY DEF SentIsReceived
<1>1. data \in Seq(Values) /\ sent \in Seq(Values) /\ Len(data) \in Nat /\ Len(sent) \in Nat
  BY LenProperties DEF SentInv, TypeInv, TypeOK, Values
<1>2. /\ Len(sent \o data) = Len(sent) + Len(data)
      /\ \A i \in 1 .. Len(sent) + Len(data) :
            (sent \o data)[i] = IF i <= Len(sent) THEN sent[i] ELSE data[i - Len(sent)]
  BY <1>1, ConcatProperties
<1> QED
  BY <1>1, <1>2 DEF SentInv, RingHoldsUnread, BytesAreInOrder

\* What the sensor sends is what it received, in order and once, until the
\* main loop falls a whole ring behind the interrupt: whatever the sizes of
\* the ring and of the frames, and wherever the interrupt falls in the copy.
THEOREM SentCorrect == Spec => []SentIsReceived
  BY SentInvInit, SentInvStep, SentInvImplies, PTL DEF Spec

----------------------------------------------------------------------------
(* SensorBuffer: addresses and intensities do not change places. *)

\* No byte of a frame was made up.
NothingMadeUp ==
    /\ \A i \in 1 .. Len(sent) : sent[i] # Garbage
    /\ \A i \in 1 .. Len(data) : data[i] # Garbage

\* A slot holds only addresses or only intensities, and so does a place in a
\* frame.
PairsInv ==
    /\ TypeInv
    /\ len_data % 2 = 0 /\ Len(sent) % 2 = 0
    /\ \A p \in Slots : stockage_data[p] = Garbage \/ stockage_data[p] % 2 = p % 2
    /\ NothingMadeUp =>
          /\ Len(sent) + Len(data) = taken
          /\ \A i \in 1 .. Len(data) : data[i] % 2 = (i - 1) % 2

\* The sum of two counts, the first of them even.
LEMMA EvenSum ==
    ASSUME NEW x \in Nat, NEW y \in Nat, x % 2 = 0
    PROVE  (x + y) % 2 = y % 2
  BY Z3

\* PairsInv holds at the start.
LEMMA PairsInvInit == Init => PairsInv
<1> SUFFICES ASSUME Init PROVE PairsInv
  OBVIOUS
<1>1. TypeInv
  BY TypeInvInit
<1>2. Len(<<>>) = 0 /\ 0 % 2 = 0
  BY EmptySeq, Z3
<1>3. \A p \in Slots : stockage_data[p] = Garbage
  BY DEF Init, Slots
<1>4. /\ len_data % 2 = 0 /\ Len(sent) % 2 = 0
      /\ Len(sent) + Len(data) = taken /\ Len(data) = 0
  BY <1>2 DEF Init
<1> QED
  BY <1>1, <1>3, <1>4 DEF PairsInv

\* PairsInv is kept by every step.
LEMMA PairsInvStep == PairsInv /\ [Next]_vars => PairsInv'
<1> SUFFICES ASSUME PairsInv, [Next]_vars PROVE PairsInv'
  OBVIOUS
<1>t. TypeInv /\ TypeInv'
  BY TypeInvStep DEF PairsInv
<1>0. /\ arrived \in Nat /\ taken \in Nat /\ len_data \in Nat
      /\ data \in Seq(Values) /\ sent \in Seq(Values)
      /\ Len(data) \in Nat /\ Len(sent) \in Nat
      /\ RingSize \in Nat \ {0} /\ RingSize % 2 = 0
  BY <1>t, MaxBytesType, MaxFrameType, RingSizeType, LenProperties
     DEF TypeInv, TypeOK, Bytes, Values
<1>1. CASE AddData
  <2>0. /\ UNCHANGED <<taken, len_data, data, sent>>
        /\ stockage_data' = [stockage_data EXCEPT ![arrived % RingSize] = arrived]
        /\ stockage_data \in [Slots -> Values]
    BY <1>1, <1>t DEF AddData, TypeInv, TypeOK, CopyInv, reader, frame, Values
  <2>1. (arrived % RingSize) % 2 = arrived % 2
    BY <1>0, ModParity
  <2>2. ASSUME NEW p \in Slots
        PROVE  stockage_data'[p] = Garbage \/ stockage_data'[p] % 2 = p % 2
    <3>1. CASE p = arrived % RingSize
      BY <2>0, <2>1, <3>1
    <3>2. CASE p # arrived % RingSize
      BY <2>0, <3>2 DEF PairsInv
    <3> QED
      BY <3>1, <3>2
  <2> QED
    BY <1>t, <2>0, <2>2 DEF PairsInv, NothingMadeUp
<1>2. CASE StartFrame
  <2>1. /\ data = <<>> /\ data' = <<>> /\ len_data' = LenData
        /\ UNCHANGED <<stockage_data, taken, sent>>
    BY <1>2, <1>t DEF StartFrame, TypeInv, CopyInv, writer, reader
  <2>2. LenData % 2 = 0
    BY <1>t, LenDataBounds DEF TypeInv
  <2> QED
    BY <1>t, <2>1, <2>2 DEF PairsInv, NothingMadeUp
<1>3. CASE CheckReadable
  <2>0. UNCHANGED <<stockage_data, taken, len_data, sent>>
    BY <1>3 DEF CheckReadable, writer, reader
  <2>1. CASE data' = data
    BY <1>t, <2>0, <2>1 DEF PairsInv, NothingMadeUp
  <2>2. CASE data' = Append(data, Garbage)
    <3>1. Garbage \in Values
      BY DEF Values
    <3>2. Len(data') = Len(data) + 1 /\ data'[Len(data) + 1] = Garbage
      BY <1>0, <2>2, <3>1, AppendProperties
    <3>3. Len(data) + 1 \in 1 .. Len(data')
      BY <1>0, <3>2
    <3>4. ~NothingMadeUp'
      BY <3>2, <3>3 DEF NothingMadeUp
    <3> QED
      BY <1>t, <2>0, <3>4 DEF PairsInv
  <2> QED
    BY <1>3, <2>1, <2>2 DEF CheckReadable
<1>4. CASE get_data
  <2> DEFINE byte == stockage_data[taken % RingSize]
  <2>0. /\ data' = Append(data, byte) /\ taken' = taken + 1
        /\ UNCHANGED <<stockage_data, len_data, sent>>
    BY <1>4, <1>t DEF get_data, TypeInv, CopyInv, writer
  <2>1. taken % RingSize \in Slots
    BY <1>t DEF TypeInv, TypeOK, CopyInv
  <2>2. byte \in Values
    BY <1>t, <2>1 DEF TypeInv, TypeOK, Values
  <2>3. byte = Garbage \/ byte % 2 = (taken % RingSize) % 2
    BY <2>1 DEF PairsInv
  <2>4. (taken % RingSize) % 2 = taken % 2
    BY <1>0, ModParity
  <2> HIDE DEF byte
  <2>5. /\ Len(data') = Len(data) + 1
        /\ \A i \in 1 .. Len(data) : data'[i] = data[i]
        /\ data'[Len(data) + 1] = byte
    BY <1>0, <2>0, <2>2, AppendProperties
  <2>6. ASSUME NothingMadeUp'
        PROVE  /\ Len(sent') + Len(data') = taken'
               /\ \A i \in 1 .. Len(data') : data'[i] % 2 = (i - 1) % 2
    <3>1. NothingMadeUp /\ byte # Garbage
      <4>1. \A i \in 1 .. Len(data) + 1 : data'[i] # Garbage
        BY <2>5, <2>6 DEF NothingMadeUp
      <4>2. byte # Garbage /\ \A i \in 1 .. Len(data) : data[i] # Garbage
        BY <1>0, <2>5, <4>1
      <4> QED
        BY <2>0, <2>6, <4>2 DEF NothingMadeUp
    <3>2. /\ Len(sent) + Len(data) = taken /\ Len(sent) % 2 = 0
          /\ \A i \in 1 .. Len(data) : data[i] % 2 = (i - 1) % 2
      BY <3>1 DEF PairsInv
    <3>3. byte % 2 = Len(data) % 2
      <4>1. (Len(sent) + Len(data)) % 2 = Len(data) % 2
        BY <1>0, <3>2, EvenSum
      <4>2. taken % 2 = Len(data) % 2
        BY <3>2, <4>1
      <4> QED
        BY <2>3, <2>4, <3>1, <4>2, Zenon
    <3>4. Len(sent') + Len(data') = taken'
      <4>1. sent' = sent /\ taken' = taken + 1
        BY <2>0
      <4> QED
        BY <1>0, <2>5, <3>2, <4>1
    <3>5. ASSUME NEW i \in 1 .. Len(data') PROVE data'[i] % 2 = (i - 1) % 2
      <4>1. CASE i = Len(data) + 1
        <5>1. i - 1 = Len(data) /\ data'[i] = byte
          BY <1>0, <2>5, <4>1
        <5> QED
          BY <3>3, <5>1
      <4>2. CASE i \in 1 .. Len(data)
        BY <2>5, <3>2, <4>2
      <4> QED
        BY <1>0, <2>5, <4>1, <4>2
    <3> QED
      BY <3>4, <3>5
  <2> QED
    BY <1>t, <2>0, <2>6 DEF PairsInv
<1>5. CASE SendFrame
  <2>0. /\ sent' = sent \o data /\ data' = <<>> /\ len_data' = 0
        /\ Len(data) = len_data
        /\ UNCHANGED <<stockage_data, taken>>
    BY <1>5 DEF SendFrame, writer, reader
  <2>1. /\ Len(data') = 0 /\ Len(sent') = Len(sent) + Len(data)
        /\ \A i \in 1 .. Len(sent) + Len(data) :
              sent'[i] = IF i <= Len(sent) THEN sent[i] ELSE data[i - Len(sent)]
    BY <1>0, <2>0, EmptySeq, ConcatProperties
  <2>2. Len(sent') % 2 = 0 /\ len_data' % 2 = 0
    <3>1. Len(data) % 2 = 0 /\ Len(sent) % 2 = 0
      BY <2>0 DEF PairsInv
    <3>2. (Len(sent) + Len(data)) % 2 = 0 /\ 0 % 2 = 0
      BY <1>0, <3>1, EvenSum, Z3
    <3> QED
      BY <2>0, <2>1, <3>2
  <2>3. ASSUME NothingMadeUp' PROVE NothingMadeUp
    <3>1. ASSUME NEW i \in 1 .. Len(sent) PROVE sent[i] # Garbage
      <4>1. i \in 1 .. Len(sent') /\ i \in 1 .. Len(sent) + Len(data) /\ i <= Len(sent)
        BY <1>0, <2>1
      <4> QED
        BY <2>1, <2>3, <4>1 DEF NothingMadeUp
    <3>2. ASSUME NEW i \in 1 .. Len(data) PROVE data[i] # Garbage
      <4> DEFINE j == Len(sent) + i
      <4>1. /\ j \in 1 .. Len(sent') /\ j \in 1 .. Len(sent) + Len(data)
            /\ ~ (j <= Len(sent)) /\ j - Len(sent) = i
        BY <1>0, <2>1
      <4> HIDE DEF j
      <4> QED
        BY <2>1, <2>3, <4>1 DEF NothingMadeUp
    <3> QED
      BY <3>1, <3>2 DEF NothingMadeUp
  <2>4. ASSUME NothingMadeUp'
        PROVE  /\ Len(sent') + Len(data') = taken'
               /\ \A i \in 1 .. Len(data') : data'[i] % 2 = (i - 1) % 2
    BY <1>0, <2>0, <2>1, <2>3, <2>4 DEF PairsInv
  <2> QED
    BY <1>t, <2>0, <2>2, <2>4 DEF PairsInv
<1>6. CASE Acknowledged
  BY <1>6, <1>t DEF Acknowledged, PairsInv, NothingMadeUp, writer, reader, frame
<1>7. CASE UNCHANGED vars
  BY <1>7, <1>t DEF PairsInv, NothingMadeUp, vars, writer, reader, frame
<1> QED
  BY <1>1, <1>2, <1>3, <1>4, <1>5, <1>6, <1>7 DEF Next, MainLoop, Poll

\* The invariant gives the property.
LEMMA PairsInvImplies == PairsInv => PairsStayTogether
<1> SUFFICES ASSUME PairsInv, \A i \in DOMAIN (sent \o data) : (sent \o data)[i] # Garbage
             PROVE  \A i \in DOMAIN data : data[i] % 2 = (i - 1) % 2
  BY DEF PairsStayTogether
<1>1. /\ data \in Seq(Values) /\ sent \in Seq(Values)
      /\ Len(data) \in Nat /\ Len(sent) \in Nat
  BY LenProperties DEF PairsInv, TypeInv, TypeOK, Values
<1>2. /\ DOMAIN (sent \o data) = 1 .. Len(sent) + Len(data)
      /\ \A i \in 1 .. Len(sent) + Len(data) :
            (sent \o data)[i] = IF i <= Len(sent) THEN sent[i] ELSE data[i - Len(sent)]
  BY <1>1, ConcatProperties, LenProperties
<1>3. ASSUME NEW i \in 1 .. Len(sent) PROVE sent[i] # Garbage
  <2>1. i \in 1 .. Len(sent) + Len(data) /\ i <= Len(sent)
    BY <1>1
  <2> QED
    BY <1>2, <2>1
<1>4. ASSUME NEW i \in 1 .. Len(data) PROVE data[i] # Garbage
  <2> DEFINE j == Len(sent) + i
  <2>1. j \in 1 .. Len(sent) + Len(data) /\ ~ (j <= Len(sent)) /\ j - Len(sent) = i
    BY <1>1
  <2> HIDE DEF j
  <2> QED
    BY <1>2, <2>1
<1>5. DOMAIN data = 1 .. Len(data)
  BY <1>1, LenProperties
<1> QED
  BY <1>3, <1>4, <1>5 DEF PairsInv, NothingMadeUp

\* No overrun, however long, makes an address of an intensity, for any even
\* ring and frames.
THEOREM PairsCorrect == Spec => []PairsStayTogether
  BY PairsInvInit, PairsInvStep, PairsInvImplies, PTL DEF Spec

----------------------------------------------------------------------------
(* Watchdog.  The promise of stop_watchdog is inductive with the types.    *)

WatchdogInv == WatchdogTypeOK /\ StoppedIsStopped

\* What only the sets of oscillators say: the internal one is never free, and taking
\* another one's power away leaves it.
LEMMA IrcStays ==
  ASSUME NEW on, "IRC" \in powered
  PROVE  /\ WithoutFreeIrc(on) = on
         /\ \A clk : "IRC" \in PowerOff("WDOSC", clk)
BY DEF WithoutFreeIrc, IrcIsFree, sys_pll_clk_sel, PowerOff

\* After the detour the oscillator of the watchdog has lost its power, locked or not.
LEMMA DetourFreesOscillator == "WDOSC" \notin PowerOff("WDOSC", Detour)
BY DEF PowerOff, Detour

\* A stop that returns 0 has stopped the watchdog, whatever was locked, and no
\* configuration, lock, feed or change of the main clock starts it again or takes the
\* internal oscillator from the chip.
THEOREM WatchdogStops == WatchdogSpec => [](WatchdogTypeOK /\ StoppedIsStopped)
<1>1. WatchdogInit => WatchdogInv
  BY DEF WatchdogInit, WatchdogInv, WatchdogTypeOK, StoppedIsStopped, LockNames, Running
<1>2. WatchdogInv /\ [WatchdogNext]_wd_vars => WatchdogInv'
  <2> SUFFICES ASSUME WatchdogInv, [WatchdogNext]_wd_vars PROVE WatchdogInv'
    OBVIOUS
  <2> USE DEF WatchdogInv, WatchdogTypeOK, StoppedIsStopped, Running
  <2>1. CASE watchdog_config
    BY <2>1 DEF watchdog_config, ConfigLocks, Select, LockNames
  <2>2. CASE watchdog_lock \/ watchdog_lock_full
    <3>1. wd_locks' \subseteq LockNames
      BY <2>2 DEF watchdog_lock, watchdog_lock_full, LockNames
    <3>2. UNCHANGED <<powered, main_clk_sel, wd_enabled, wd_clk, wd_block, wd_irq, wd_stop>>
      BY <2>2 DEF watchdog_lock, watchdog_lock_full
    <3> QED
      BY <3>1, <3>2
  <2>8. CASE watchdog_feed
    BY <2>8 DEF watchdog_feed
  <2>3. CASE stop_watchdog
    <3>1. WithoutFreeIrc(powered) = powered
      BY IrcStays
    <3>2. WithoutFreeIrc(PowerOff("WDOSC", Detour)) = PowerOff("WDOSC", Detour)
      BY IrcStays
    <3>3. PowerOff("WDOSC", Detour) \subseteq powered /\ "IRC" \in PowerOff("WDOSC", Detour)
      BY IrcStays DEF PowerOff
    <3> QED
      BY <2>3, <3>1, <3>2, <3>3, DetourFreesOscillator DEF stop_watchdog
  <2>4. CASE startup_watchdog_disable
    <3>1. PowerOff("WDOSC", wd_clk) \subseteq powered /\ "IRC" \in PowerOff("WDOSC", wd_clk)
      BY IrcStays DEF PowerOff
    <3> QED
      BY <2>4, <3>1 DEF startup_watchdog_disable, Enable
  <2>5. CASE clock_config
    BY <2>5 DEF clock_config
  <2>6. CASE Reset
    BY <2>6 DEF Reset, LockNames
  <2>7. CASE UNCHANGED wd_vars
    BY <2>7 DEF wd_vars
  <2> QED
    BY <2>1, <2>2, <2>3, <2>4, <2>5, <2>6, <2>7, <2>8 DEF WatchdogNext
<1> QED
  BY <1>1, <1>2, PTL DEF WatchdogSpec, WatchdogInv

----------------------------------------------------------------------------
(* SysTime.  While the lock is held the clock stands still, so a call sees *)
(* one time in two reads, and writes one in two writes.                    *)

SysTimeInv ==
    /\ {time, new_time} \subseteq Times /\ time_pc \in {"idle", "want", "seconds", "msec", "release"}
    /\ time_call \in {"none", "set", "adjust", "get", "peek"}
    /\ time \in had \/ time_call \in {"set", "adjust"}
    /\ time_lock <=> time_pc \in {"seconds", "msec", "release"} /\ time_call # "peek"
    /\ time_call = "none" => time_pc = "idle"
    /\ time_pc \in {"want", "release"} => time_call # "peek"
    /\ time_pc \in {"msec", "release"} /\ time_call \in {"set", "adjust"} =>
         time.seconds = new_time.seconds
    /\ time_pc \in {"msec", "release"} /\ time_call = "get" => new_time.seconds = time.seconds
    /\ time_pc = "release" => new_time = time

\* Every step of the clock and of a call keeps it.
LEMMA LockKept ==
  ASSUME SysTimeInv, [SysTimeNext]_time_vars
  PROVE  SysTimeInv'
<1> USE SysTimeSizes DEF SysTimeInv
<1>1. CASE time_track
  BY <1>1 DEF time_track
<1>2. CASE TimeCall
  BY <1>2 DEF TimeCall
<1>3. CASE TakeLock
  BY <1>3 DEF TakeLock
<1>4. CASE MoveSeconds
  <2>1. time' \in Times /\ new_time' \in Times
    BY <1>4 DEF MoveSeconds, Times
  <2>2. time_call \in {"set", "adjust"} => time'.seconds = new_time'.seconds
    BY <1>4 DEF MoveSeconds, Times
  <2>3. time_call = "get" => new_time'.seconds = time'.seconds
    BY <1>4 DEF MoveSeconds, Times
  <2> QED
    BY <1>4, <2>1, <2>2, <2>3 DEF MoveSeconds
<1>5. CASE MoveMsec
  <2>1. time' \in Times /\ new_time' \in Times
    BY <1>5 DEF MoveMsec, Times
  <2>2. time_call # "peek" => new_time' = time'
    BY <1>5 DEF MoveMsec, Times
  <2> QED
    BY <1>5, <2>1, <2>2 DEF MoveMsec
<1>6. CASE ReleaseLock
  BY <1>6 DEF ReleaseLock
<1>7. CASE MaskInterrupts
  BY <1>7 DEF MaskInterrupts
<1>8. CASE UNCHANGED time_vars
  BY <1>8 DEF time_vars
<1> QED
  BY <1>1, <1>2, <1>3, <1>4, <1>5, <1>6, <1>7, <1>8 DEF SysTimeNext

\* For clocks of any range, a set_time leaves the time it was given and a get_time
\* under the lock returns one the clock had, wherever the tick comes.
THEOREM LockKeepsTime == SysTimeSpec => []LockedTimeIsWhole
<1>1. SysTimeInit => SysTimeInv
  BY SysTimeSizes DEF SysTimeInit, SysTimeInv, ZeroTime, Times
<1>2. SysTimeInv /\ [SysTimeNext]_time_vars => SysTimeInv'
  BY LockKept
<1>3. SysTimeInv => LockedTimeIsWhole
  BY DEF SysTimeInv, LockedTimeIsWhole
<1> QED
  BY <1>1, <1>2, <1>3, PTL DEF SysTimeSpec

\* get_time_diff tells of any two times, of clocks of any range, which is later and by
\* how much, with the fields of a time.
THEOREM DifferenceIsExact ==
  ASSUME NEW t1 \in Times, NEW t2 \in Times
  PROVE  LET d == get_time_diff(t1, t2)
         IN d.msec \in 0 .. LastMsec /\ d.sign * Value(d) = Value(t1) - Value(t2)
<1> USE SysTimeSizes DEF Times
<1> DEFINE d == get_time_diff(t1, t2)
           Right(r) == r.msec \in 0 .. LastMsec /\ r.sign * Value(r) = Value(t1) - Value(t2)
<1> SUFFICES Right(d)
  OBVIOUS
<1>1. CASE t1.seconds = t2.seconds
  <2>1. CASE t1.msec < t2.msec
    BY <1>1, <2>1 DEF get_time_diff, Value, Thousand
  <2>2. CASE t1.msec = t2.msec
    BY <1>1, <2>2 DEF get_time_diff, Value, Thousand
  <2>3. CASE t1.msec > t2.msec
    BY <1>1, <2>3 DEF get_time_diff, Value, Thousand
  <2> QED
    BY <2>1, <2>2, <2>3
<1>2. ASSUME NEW later \in Times, NEW earlier \in Times, NEW sign \in {-1, 1},
             later.seconds > earlier.seconds
      PROVE  /\ Apart(sign, later, earlier).msec \in 0 .. LastMsec
             /\ Apart(sign, later, earlier).sign = sign
             /\ Value(Apart(sign, later, earlier)) = Value(later) - Value(earlier)
  BY <1>2 DEF Apart, Value, Thousand
<1>3. CASE t1.seconds < t2.seconds
  <2>1. d = Apart(-1, t2, t1)
    BY <1>3 DEF get_time_diff
  <2>2. Value(d) = Value(t2) - Value(t1) /\ d.sign = -1 /\ d.msec \in 0 .. LastMsec
    BY <1>2, <1>3, <2>1
  <2> QED
    BY <2>2 DEF Value, Thousand
<1>4. CASE t1.seconds > t2.seconds
  <2>1. d = Apart(1, t1, t2)
    BY <1>4 DEF get_time_diff
  <2>2. Value(d) = Value(t1) - Value(t2) /\ d.sign = 1 /\ d.msec \in 0 .. LastMsec
    BY <1>2, <1>4, <2>1
  <2> QED
    BY <2>2 DEF Value, Thousand
<1> QED
  BY <1>1, <1>3, <1>4

\* What set_time_and_get_difference leaves, of a clock it set to a later second.
LEMMA LaterSecondIsExact ==
  ASSUME NEW old \in Times, NEW new \in Times, new.seconds > old.seconds
  PROVE  Value(DifferenceFrom(old, new)) = Value(new) - Value(old)
<1> USE SysTimeSizes DEF Times
<1>1. PICK msec : msec = Thousand - old.msec + new.msec
  OBVIOUS
<1>2. PICK gap : gap = new.seconds - old.seconds
  OBVIOUS
<1>3. /\ msec \in Nat /\ gap \in 1 .. MaxSeconds /\ SecondsWrap \in Nat /\ SecondsWrap > gap
  BY <1>1, <1>2 DEF Thousand, SecondsWrap
<1>4. gap % SecondsWrap = gap /\ (gap - 1) % SecondsWrap = gap - 1
  BY <1>3
<1>5. DifferenceFrom(old, new) = IF msec > Thousand
                                 THEN [seconds |-> gap, msec |-> msec - Thousand]
                                 ELSE [seconds |-> gap - 1, msec |-> msec]
  BY <1>1, <1>2, <1>3, <1>4 DEF DifferenceFrom
<1>6. Value(DifferenceFrom(old, new)) = (gap - 1) * Thousand + msec
  <2>1. CASE msec > Thousand
    <3>1. Value(DifferenceFrom(old, new)) = gap * Thousand + (msec - Thousand)
      BY <1>5, <2>1 DEF Value
    <3>2. gap * Thousand = (gap - 1) * Thousand + Thousand
      BY <1>3 DEF Thousand
    <3> QED BY <1>3, <3>1, <3>2 DEF Thousand
  <2>2. CASE ~(msec > Thousand)
    BY <1>5, <2>2 DEF Value
  <2> QED BY <2>1, <2>2
<1>7. Value(new) - Value(old) = gap * Thousand + new.msec - old.msec
  BY <1>2 DEF Value, Thousand
<1>8. PICK below : below = (gap - 1) * Thousand
  OBVIOUS
<1>9. gap * Thousand = below + Thousand /\ below \in Int
  BY <1>3, <1>8 DEF Thousand
<1>10. Value(new) - Value(old) = below + Thousand + new.msec - old.msec
  BY <1>7, <1>9
<1>11. Value(DifferenceFrom(old, new)) = below + msec
  BY <1>6, <1>8
<1> QED BY <1>1, <1>9, <1>10, <1>11 DEF Thousand

\* For clocks of any range, set_time_and_get_difference tells by how much it moved a clock it
\* set to a later second, and get_time_diff is exact at every step.
THEOREM DifferencesStayRight == SysTimeSpec => []DifferencesAreRight
<1> DEFINE Told == (time_pc = "idle" /\ time_call = "adjust" /\ new_time.seconds > tmp_old.seconds) =>
                     Value(diff) = Value(new_time) - Value(tmp_old)
           DiffInv == SysTimeInv /\ tmp_old \in Times /\ Told
<1>1. SysTimeInit => DiffInv
  BY SysTimeSizes DEF SysTimeInit, SysTimeInv, ZeroTime, Times
<1>2. DiffInv /\ [SysTimeNext]_time_vars => DiffInv'
  <2> SUFFICES ASSUME DiffInv, [SysTimeNext]_time_vars PROVE DiffInv'
    OBVIOUS
  <2>0. SysTimeInv' /\ new_time \in Times /\ time \in Times /\ ZeroTime \in Times
    BY SysTimeSizes, LockKept DEF SysTimeInv, ZeroTime, Times
  <2>1. CASE time_track \/ MaskInterrupts \/ UNCHANGED time_vars
    BY <2>0, <2>1 DEF time_track, MaskInterrupts, time_vars, Value, Thousand
  <2>2. CASE TimeCall \/ TakeLock \/ MoveSeconds
    BY <2>0, <2>2 DEF TimeCall, TakeLock, MoveSeconds
  <2>3. CASE MoveMsec
    BY <2>0, <2>3 DEF MoveMsec
  <2>4. CASE ReleaseLock
    <3>1. UNCHANGED <<time_call, new_time, tmp_old>>
      BY <2>4 DEF ReleaseLock
    <3>2. time_call = "adjust" => diff' = DifferenceFrom(tmp_old, new_time)
      BY <2>4 DEF ReleaseLock
    <3>3. Told'
      <4> SUFFICES ASSUME time_call = "adjust", new_time.seconds > tmp_old.seconds
                   PROVE  Value(diff') = Value(new_time) - Value(tmp_old)
        BY <3>1 DEF Value, Thousand
      <4> QED BY <2>0, <3>2, LaterSecondIsExact
    <3> QED BY <2>0, <3>1, <3>3
  <2> QED
    BY <2>1, <2>2, <2>3, <2>4 DEF SysTimeNext
<1>3. DiffInv => DifferencesAreRight
  BY DifferenceIsExact DEF SysTimeInv, DifferencesAreRight
<1> QED
  BY <1>1, <1>2, <1>3, PTL DEF SysTimeSpec

----------------------------------------------------------------------------
(* Usleep.  What a call has counted, at each of its steps, is told by the  *)
(* counter but for the turns it has made, which the ticks of msleep and    *)
(* the flag tell.                                                          *)

Period == Millisecond * TickMs

\* The call was made with a counter that ran and far enough from zero.
Timely == us_ran /\ us_start > 2 * Late

\* b counts more than the value the call began at have been reloaded since.
ToReload == IF us_value = 0 THEN Period ELSE us_value
Turned(b) == us_elapsed + ToReload = us_start + b

\* A call of msleep, its ticks, and what they take.
Long == us_asked > Millisecond
Ticks == (us_asked \div Millisecond) \div TickMs
Slept == IF Long THEN Ticks * Period ELSE 0
Rest == IF Long THEN us_asked % Millisecond ELSE us_asked

\* When msleep's last tick comes, and when a loop begins that waits for the end of a period.
Woken == IF ~Long THEN 0 ELSE IF Ticks = 0 THEN 2 * Late ELSE us_start + Slept - Period
Looping == IF ~Long THEN us_start ELSE IF Ticks = 0 THEN us_start + 2 * Late
           ELSE us_start + Slept - Period + 2 * Late

\* At most one turn more than the sleep, and a flag that tells it.
OneTurn == Turned(Slept) \/ Turned(Slept + Period)
FlagTells == ~us_flag => Slept = 0 /\ Turned(0)

UsTypes ==
    /\ us_value \in 0 .. Period - 1 /\ us_start \in 0 .. Period - 1
    /\ us_left \in Nat /\ us_sleep \in Nat /\ us_asked \in Nat /\ us_elapsed \in Nat
    /\ us_late \in Nat /\ us_end \in Int
UsFlags ==
    /\ us_flag \in BOOLEAN /\ us_run \in BOOLEAN /\ us_on \in BOOLEAN /\ us_ran \in BOOLEAN
    /\ us_run => us_on
    /\ us_pc # "asleep" => us_sleep = 0
    /\ us_pc \in {"idle", "clear", "msleep", "asleep", "compute", "loop", "rest", "until"}

AtClear == us_elapsed <= us_late /\ Turned(0) /\ us_left = us_asked
AtMsleep == Long /\ us_left = Rest /\ us_elapsed <= Late + us_late /\ Turned(0) /\ ~us_flag
Asleep ==
    /\ Long /\ us_left = Rest /\ us_sleep > 0 /\ us_sleep <= Ticks /\ us_late = 0
    /\ Turned((Ticks - us_sleep) * Period) /\ (us_flag <=> us_sleep < Ticks)
TicksOver ==
    us_sleep = 0 /\ Long /\ us_left = Rest /\ OneTurn /\ FlagTells /\ us_elapsed <= Woken + us_late
AtCompute == us_left = Rest /\ OneTurn /\ FlagTells /\ us_elapsed <= Woken + Late + us_late
NextPeriod == us_left = Rest /\ us_left > us_start /\ us_end = Period - 1 - (us_left - us_start)
InLoop == NextPeriod /\ OneTurn /\ FlagTells /\ us_elapsed <= Looping + us_late
InRest ==
    /\ NextPeriod /\ OneTurn
    /\ us_elapsed <= us_asked + us_late \/ us_elapsed <= Looping + Late + us_late
InUntil ==
    /\ us_left = Rest /\ us_left <= us_start /\ us_end = us_start - us_left
    /\ (~us_flag => Turned(0)) /\ us_elapsed <= us_asked + 2 * Late + us_late

InCall ==
    /\ us_run /\ us_late <= Late
    /\ us_pc = "clear" => AtClear
    /\ us_pc = "msleep" => AtMsleep
    /\ us_pc = "asleep" => Asleep \/ TicksOver
    /\ us_pc = "compute" => AtCompute
    /\ us_pc = "loop" => InLoop
    /\ us_pc = "rest" => InRest
    /\ us_pc = "until" => InUntil

UsInv == UsTypes /\ UsFlags /\ SleepsAtMost /\ (Timely /\ us_pc # "idle" => InCall)

\* The counts of a period.
LEMMA Periods ==
  /\ Period \in Nat \ {0} /\ Reload = Period - 1 /\ Millisecond \in Nat \ {0} /\ TickMs \in Nat \ {0}
  /\ Millisecond <= Period /\ Late \in Nat \ {0} /\ 2 * Late <= Millisecond
  /\ Unsigned \in Nat /\ Unsigned > Period /\ Waits \subseteq Nat
<1>1. Millisecond \in Nat \ {0} /\ TickMs \in Nat \ {0}
  BY UsleepAssumption
<1>2. Period \in Nat \ {0} /\ Millisecond <= Period
  <2>1. TickMs >= 1 /\ TickMs \in Int
    BY <1>1
  <2>2. Millisecond * TickMs >= Millisecond
    BY <1>1, <2>1, MulGrows
  <2> QED BY <1>1, <2>2 DEF Period
<1>3. Unsigned > Period
  <2>1. 2 * Millisecond * TickMs = 2 * (Millisecond * TickMs)
    BY <1>1, Z3
  <2> QED BY <1>2, <2>1, UsleepAssumption DEF Period
<1> QED BY <1>1, <1>2, <1>3, UsleepAssumption DEF Reload, Period

\* What msleep's ticks take, of the time asked for.
LEMMA LongNumbers ==
  ASSUME us_asked \in Nat, Long
  PROVE  /\ Ticks \in Nat /\ Slept = Ticks * Period /\ Slept \in Nat
         /\ Rest \in Nat /\ Rest < Millisecond /\ Slept + Rest <= us_asked
         /\ us_asked < Slept + Period /\ Millisecond + Rest <= us_asked
         /\ (Ticks = 0 => Slept = 0) /\ (Ticks # 0 => Slept >= Period)
<1>0. Millisecond \in Nat \ {0} /\ TickMs \in Nat \ {0} /\ Period \in Nat \ {0} /\ us_asked \in Int
  BY Periods
<1>1. PICK q \in Int, r \in 0 .. Millisecond - 1 :
         r = us_asked % Millisecond /\ us_asked = Millisecond * q + r
  BY <1>0, Division, Zenon
<1>2. us_asked \div Millisecond = q
  <2>1. (Millisecond * q + r) \div Millisecond = q
    BY <1>0, DivUnique, Zenon
  <2> QED BY <1>1, <2>1, Zenon
<1>3. PICK n \in Int, t \in 0 .. TickMs - 1 : t = q % TickMs /\ q = TickMs * n + t
  BY <1>0, Division, Zenon
<1>4. Ticks = n
  <2>1. (TickMs * n + t) \div TickMs = n
    BY <1>0, DivUnique, Zenon
  <2>2. q \div TickMs = n
    BY <1>3, <2>1, Zenon
  <2> QED BY <1>2, <2>2 DEF Ticks
<1>5. q >= 1
  <2> SUFFICES ASSUME q <= 0 PROVE FALSE
    OBVIOUS
  <2>1. Millisecond * q <= 0
    BY <1>0, Z3
  <2> QED BY <1>0, <1>1, <2>1 DEF Long
<1>6. n >= 0
  <2> SUFFICES ASSUME n <= -1 PROVE FALSE
    OBVIOUS
  <2>1. TickMs * n <= -TickMs
    BY <1>0, Z3
  <2> QED BY <1>0, <1>3, <1>5, <2>1
<1>7. Millisecond * q = n * Period + Millisecond * t
  <2>1. Millisecond * (TickMs * n + t) = n * (Millisecond * TickMs) + Millisecond * t
    BY <1>0, Z3
  <2> QED BY <1>3, <2>1 DEF Period
<1>8. Millisecond * t \in Nat /\ Millisecond * t + Millisecond <= Period
      /\ Millisecond * q >= Millisecond
  <2>1. Millisecond * (t + 1) <= Millisecond * TickMs
    <3>1. t + 1 <= TickMs /\ t + 1 \in Nat
      BY <1>0
    <3> QED BY <1>0, <3>1, Z3
  <2>2. Millisecond * (t + 1) = Millisecond * t + Millisecond /\ Millisecond * t \in Nat
    BY <1>0, Z3
  <2>3. Millisecond * q >= Millisecond
    BY <1>0, <1>5, MulGrows
  <2> QED BY <2>1, <2>2, <2>3 DEF Period
<1>9. n * Period \in Nat /\ (n = 0 => n * Period = 0) /\ (n # 0 => n * Period >= Period)
  <2>1. CASE n = 0
    BY <1>0, <2>1
  <2>2. CASE n # 0
    <3>1. Period * n >= Period /\ Period * n = n * Period /\ n * Period \in Int
      BY <1>0, <1>6, <2>2, Z3
    <3> QED BY <1>0, <2>2, <3>1
  <2> QED BY <2>1, <2>2
<1>10. Slept = n * Period /\ Rest = r
  BY <1>1, <1>4 DEF Slept, Rest
<1>11. PICK a \in Nat, b \in Nat : a = n * Period /\ b = Millisecond * t
  BY <1>8, <1>9
<1>12. us_asked = a + b + r /\ b + Millisecond <= Period /\ a + b >= Millisecond
  BY <1>1, <1>7, <1>8, <1>11
<1>13. r \in Nat /\ r < Millisecond
  BY <1>0
<1> QED BY <1>0, <1>4, <1>6, <1>9, <1>10, <1>11, <1>12, <1>13

\* The bounds of a timely call are in order.
LEMMA CallNumbers ==
  ASSUME UsTypes, Timely
  PROVE  /\ Slept \in Nat /\ Rest \in Nat /\ Woken \in Nat /\ Looping \in Nat
         /\ Slept + Rest <= us_asked /\ Woken <= us_asked
         /\ Woken + 2 * Late < us_start + Slept + Period - 1
         /\ Slept = 0 => us_start <= Looping
         /\ Rest <= us_start + Period - 1
         /\ Rest > us_start =>
              /\ Looping + 2 * Late < us_start + Slept + Period - 1
              /\ Looping + 2 * Late <= us_asked + 3 * Late
              /\ Woken + 2 * Late <= Looping
              /\ us_asked + Late < us_start + Slept + Period - 1
<1>0. /\ Period \in Nat \ {0} /\ Millisecond \in Nat \ {0} /\ Millisecond <= Period
      /\ Late \in Nat \ {0} /\ 2 * Late <= Millisecond /\ us_asked \in Nat
      /\ us_start \in Nat /\ us_start <= Period - 1 /\ us_start > 2 * Late
  BY Periods DEF UsTypes, Timely
<1>1. CASE ~Long
  <2>1. Slept = 0 /\ Rest = us_asked /\ Woken = 0 /\ Looping = us_start /\ us_asked <= Millisecond
    BY <1>0, <1>1 DEF Long, Slept, Rest, Woken, Looping
  <2> QED BY <1>0, <2>1
<1>2. CASE Long /\ Ticks = 0
  <2>1. /\ Rest \in Nat /\ Rest < Millisecond /\ us_asked < Period /\ Millisecond + Rest <= us_asked
        /\ Slept = 0
    BY <1>0, <1>2, LongNumbers
  <2>2. Woken = 2 * Late /\ Looping = us_start + 2 * Late
    BY <1>2 DEF Woken, Looping
  <2> QED BY <1>0, <2>1, <2>2
<1>3. CASE Long /\ Ticks # 0
  <2>1. /\ Rest \in Nat /\ Rest < Millisecond /\ us_asked < Slept + Period
        /\ Slept + Rest <= us_asked /\ Slept \in Nat /\ Slept >= Period
    BY <1>0, <1>3, LongNumbers
  <2>2. /\ Woken = us_start + Slept - Period
        /\ Looping = us_start + Slept - Period + 2 * Late
    BY <1>3 DEF Woken, Looping
  <2> QED BY <1>0, <2>1, <2>2
<1> QED BY <1>1, <1>2, <1>3

\* A call asks for what it did, and began where it did, whatever step is taken.
LEMMA SameCall ==
  ASSUME us_asked' = us_asked, us_start' = us_start
  PROVE  Long' = Long /\ Ticks' = Ticks /\ Slept' = Slept /\ Rest' = Rest
         /\ Woken' = Woken /\ Looping' = Looping
<1>1. Long' = Long /\ Ticks' = Ticks
  BY DEF Long, Ticks
<1> QED BY <1>1 DEF Slept, Rest, Woken, Looping

\* No bound of a timely call is above what is allowed.
LEMMA InTime ==
  ASSUME UsTypes, Timely, InCall, us_pc \in {"clear", "msleep", "asleep", "compute", "loop", "rest", "until"}
  PROVE  /\ us_elapsed <= us_asked + Allowed
         /\ us_late < Late \/ (us_pc = "asleep" /\ us_sleep # 0) => us_elapsed < us_asked + Allowed
<1>0. /\ Period \in Nat \ {0} /\ Late \in Nat \ {0} /\ us_asked \in Nat /\ us_elapsed \in Nat
      /\ us_start \in Nat /\ us_start <= Period - 1 /\ us_start > 2 * Late /\ us_late \in Nat
      /\ us_late <= Late /\ Allowed = 3 * Late
  BY Periods DEF UsTypes, Timely, InCall, Allowed
<1>1. /\ Slept \in Nat /\ Rest \in Nat /\ Woken \in Nat /\ Looping \in Nat
      /\ Slept + Rest <= us_asked /\ Woken <= us_asked
      /\ (Rest > us_start => Looping + 2 * Late <= us_asked + 3 * Late)
  BY CallNumbers
<1>2. CASE us_pc = "clear"
  BY <1>0, <1>2 DEF InCall, AtClear
<1>3. CASE us_pc = "msleep"
  BY <1>0, <1>3 DEF InCall, AtMsleep
<1>4. CASE us_pc = "asleep" /\ Asleep
  <2>1. PICK k \in Nat : k = us_sleep /\ k >= 1 /\ k <= Ticks
    BY <1>4 DEF Asleep, UsTypes
  <2>2. us_elapsed + ToReload = us_start + (Ticks - k) * Period
    BY <1>4, <2>1 DEF Asleep, Turned
  <2>3. ToReload \in 1 .. Period
    BY <1>0 DEF ToReload, UsTypes
  <2>4. Slept = Ticks * Period /\ Ticks \in Nat
    BY <1>0, <1>4, LongNumbers DEF Asleep
  <2>5. (Ticks - k) * Period <= Ticks * Period - Period /\ (Ticks - k) * Period \in Nat
    <3>1. PICK d \in Nat : Ticks - k = d /\ d + 1 <= Ticks
      BY <2>1, <2>4
    <3>2. (d + 1) * Period <= Ticks * Period /\ (d + 1) * Period = d * Period + Period
          /\ d * Period \in Nat
      BY <1>0, <2>4, <3>1, Z3
    <3> QED BY <1>0, <2>4, <3>1, <3>2
  <2>6. PICK a : a = (Ticks - k) * Period
    OBVIOUS
  <2> QED BY <1>0, <1>1, <2>2, <2>3, <2>4, <2>5, <2>6
<1>5. CASE us_pc = "asleep" /\ TicksOver
  BY <1>0, <1>1, <1>5 DEF TicksOver
<1>6. CASE us_pc = "compute"
  BY <1>0, <1>1, <1>6 DEF InCall, AtCompute
<1>7. CASE us_pc = "loop"
  BY <1>0, <1>1, <1>7 DEF InCall, InLoop, NextPeriod
<1>8. CASE us_pc = "rest"
  BY <1>0, <1>1, <1>8 DEF InCall, InRest, NextPeriod
<1>9. CASE us_pc = "until"
  BY <1>0, <1>1, <1>9 DEF InCall, InUntil
<1> QED BY <1>2, <1>3, <1>4, <1>5, <1>6, <1>7, <1>8, <1>9 DEF InCall

\* A count: of the call, and of the counter, which may begin another turn.
LEMMA CountsOn ==
  ASSUME UsTypes, Period >= 2, NEW b \in Int, Turned(b), us_elapsed' = us_elapsed + 1,
         us_value' = IF us_value = 0 THEN Reload ELSE us_value - 1, us_start' = us_start
  PROVE  /\ us_value # 1 => us_elapsed' + ToReload' = us_start' + b
         /\ us_value = 1 => us_elapsed' + ToReload' = us_start' + b + Period
         /\ us_value = 1 => us_elapsed = us_start + b - 1
<1>1. /\ Period \in Nat \ {0} /\ Reload = Period - 1 /\ us_value \in 0 .. Period - 1
      /\ us_elapsed \in Nat /\ us_start \in Nat
  BY Periods DEF UsTypes
<1>2. us_elapsed + ToReload = us_start + b
  BY DEF Turned
<1>3. CASE us_value = 0
  <2>1. us_value' = Period - 1 /\ ToReload = Period
    BY <1>1, <1>3 DEF ToReload
  <2>2. ToReload' = Period - 1
    BY <1>1, <2>1 DEF ToReload
  <2> QED BY <1>1, <1>2, <1>3, <2>1, <2>2
<1>4. CASE us_value = 1
  <2>1. us_value' = 0 /\ ToReload = 1
    BY <1>1, <1>4 DEF ToReload
  <2>2. ToReload' = Period
    BY <2>1 DEF ToReload
  <2> QED BY <1>1, <1>2, <1>4, <2>1, <2>2
<1>5. CASE us_value # 0 /\ us_value # 1
  <2>1. us_value' = us_value - 1 /\ us_value' # 0 /\ ToReload = us_value
    BY <1>1, <1>5 DEF ToReload
  <2>2. ToReload' = us_value - 1
    BY <2>1 DEF ToReload
  <2> QED BY <1>1, <1>2, <1>5, <2>1, <2>2
<1> QED BY <1>3, <1>4, <1>5

\* The counter does not begin a second turn before the time of its bounds.
LEMMA TurnsOnce ==
  ASSUME UsTypes, UsFlags, Period >= 2, Slept \in Nat, OneTurn,
         us_elapsed < us_start + Slept + Period - 1, Slept' = Slept, us_elapsed' = us_elapsed + 1,
         us_value' = IF us_value = 0 THEN Reload ELSE us_value - 1, us_start' = us_start,
         us_flag' <=> (us_flag \/ us_value = 1)
  PROVE  OneTurn' /\ (FlagTells => FlagTells')
<1>0. us_elapsed \in Nat /\ us_start \in Nat /\ Period \in Nat /\ us_value \in 0 .. Period - 1
  BY Periods DEF UsTypes
<1>1. OneTurn'
  <2>1. CASE us_value # 1 /\ Turned(Slept)
    <3>1. us_elapsed' + ToReload' = us_start' + Slept'
      BY <2>1, CountsOn
    <3> QED BY <3>1 DEF OneTurn, Turned
  <2>2. CASE us_value = 1 /\ Turned(Slept)
    <3>1. us_elapsed' + ToReload' = us_start' + Slept' + Period
      BY <2>2, CountsOn
    <3>2. us_start' + Slept' + Period = us_start' + (Slept' + Period)
      BY <1>0
    <3> QED BY <3>1, <3>2 DEF OneTurn, Turned
  <2>3. CASE Turned(Slept + Period)
    <3>0. Slept + Period \in Int
      BY <1>0
    <3>1. us_value # 1
      <4>1. us_value = 1 => us_elapsed = us_start + (Slept + Period) - 1
        BY <2>3, <3>0, CountsOn
      <4> QED BY <1>0, <4>1
    <3>2. us_elapsed' + ToReload' = us_start' + (Slept' + Period)
      BY <2>3, <3>0, <3>1, CountsOn
    <3> QED BY <3>2 DEF OneTurn, Turned
  <2> QED BY <2>1, <2>2, <2>3 DEF OneTurn
<1>2. ASSUME FlagTells, ~us_flag' PROVE Slept' = 0 /\ Turned(0)'
  <2>1. ~us_flag /\ us_value # 1
    BY <1>2
  <2>2. Slept = 0 /\ Turned(0)
    BY <1>2, <2>1 DEF FlagTells
  <2>3. us_elapsed' + ToReload' = us_start' + 0
    BY <2>1, <2>2, CountsOn
  <2> QED BY <2>2, <2>3 DEF Turned
<1> QED BY <1>1, <1>2 DEF FlagTells

\* The counter's counts keep a call on time, at each of its steps.
LEMMA CountKeeps ==
  ASSUME UsTypes, UsFlags, Timely, us_pc # "idle", InCall, CounterSteps
  PROVE  InCall'
<1>0. /\ Period \in Nat \ {0} /\ Period >= 2 /\ Late \in Nat \ {0} /\ us_asked \in Nat
      /\ us_elapsed \in Nat /\ us_start \in Nat /\ us_start <= Period - 1 /\ us_start > 2 * Late
      /\ us_late \in Nat /\ us_late <= Late
  BY Periods DEF UsTypes, Timely, InCall
<1>1. /\ us_run' = us_run /\ us_pc' = us_pc /\ us_start' = us_start /\ us_left' = us_left
      /\ us_end' = us_end /\ us_asked' = us_asked
      /\ us_value' = (IF us_value = 0 THEN Reload ELSE us_value - 1)
      /\ us_sleep' = (IF us_value = 1 /\ us_sleep # 0 THEN us_sleep - 1 ELSE us_sleep)
  BY DEF CounterSteps, us_call_vars
<1>2. /\ us_flag' <=> (us_flag \/ us_value = 1)
      /\ us_late' = (IF us_sleep' # 0 THEN 0 ELSE us_late + 1)
      /\ us_pc # "asleep" \/ us_sleep = 0 => us_late < Late
  BY DEF CounterSteps
<1>3. us_elapsed' = us_elapsed + 1
  <2>1. us_pc \in {"clear", "msleep", "asleep", "compute", "loop", "rest", "until"}
    BY DEF UsFlags
  <2>2. us_elapsed <= us_asked + Allowed
    BY <2>1, InTime
  <2> QED BY <1>0, <2>2 DEF CounterSteps, Allowed
<1>4. /\ Slept \in Nat /\ Rest \in Nat /\ Woken \in Nat /\ Looping \in Nat
      /\ Slept + Rest <= us_asked /\ Woken <= us_asked
      /\ Woken + 2 * Late < us_start + Slept + Period - 1
      /\ (Rest > us_start => /\ Looping + 2 * Late < us_start + Slept + Period - 1
                             /\ us_asked + Late < us_start + Slept + Period - 1)
  BY CallNumbers
<1>5. Long' = Long /\ Ticks' = Ticks /\ Slept' = Slept /\ Rest' = Rest /\ Woken' = Woken
      /\ Looping' = Looping
  BY <1>1, SameCall
<1>6. us_elapsed < us_start + Slept + Period - 1 /\ OneTurn => OneTurn' /\ (FlagTells => FlagTells')
  BY <1>0, <1>1, <1>2, <1>3, <1>4, <1>5, TurnsOnce
<1>7. Turned(0) /\ us_value # 1 => Turned(0)'
  <2> SUFFICES ASSUME Turned(0), us_value # 1 PROVE Turned(0)'
    OBVIOUS
  <2>1. us_elapsed' + ToReload' = us_start' + 0
    BY <1>0, <1>1, <1>3, CountsOn
  <2> QED BY <2>1 DEF Turned
<1>8. Turned(0) /\ us_elapsed < 2 * Late => us_value # 1
  <2> SUFFICES ASSUME Turned(0), us_value = 1 PROVE ~(us_elapsed < 2 * Late)
    OBVIOUS
  <2>1. us_elapsed = us_start + 0 - 1
    BY <1>0, <1>1, <1>3, CountsOn
  <2> QED BY <1>0, <2>1
<1>9. ASSUME us_pc # "asleep" \/ us_sleep = 0
      PROVE  us_sleep = 0 /\ us_sleep' = 0 /\ us_late < Late /\ us_late' = us_late + 1
             /\ us_late' <= Late
  <2>1. us_sleep = 0
    BY <1>9 DEF UsFlags
  <2>2. us_sleep' = 0 /\ us_late < Late
    BY <1>1, <1>2, <1>9, <2>1
  <2> QED BY <1>0, <1>2, <2>1, <2>2
<1>10. us_run'
  BY <1>1 DEF InCall
<1>11. CASE us_pc = "clear"
  <2>1. AtClear
    BY <1>11 DEF InCall
  <2>2. us_late' <= Late /\ us_late' = us_late + 1
    BY <1>9, <1>11
  <2>3. us_elapsed' <= us_late' /\ us_elapsed < 2 * Late
    BY <1>0, <1>3, <2>1, <2>2 DEF AtClear
  <2>4. AtClear'
    BY <1>1, <1>7, <1>8, <2>1, <2>3 DEF AtClear
  <2> QED BY <1>1, <1>10, <1>11, <2>2, <2>4 DEF InCall
<1>12. CASE us_pc = "msleep"
  <2>1. AtMsleep
    BY <1>12 DEF InCall
  <2>2. us_late' <= Late /\ us_late' = us_late + 1
    BY <1>9, <1>12
  <2>3. us_elapsed' <= Late + us_late' /\ us_elapsed < 2 * Late
    BY <1>0, <1>3, <2>1, <2>2 DEF AtMsleep
  <2>4. us_value # 1
    BY <1>8, <2>1, <2>3 DEF AtMsleep
  <2>5. AtMsleep'
    BY <1>1, <1>2, <1>5, <1>7, <2>1, <2>3, <2>4 DEF AtMsleep
  <2> QED BY <1>1, <1>10, <1>12, <2>2, <2>5 DEF InCall
<1>13. CASE us_pc = "asleep" /\ TicksOver
  <2>1. us_sleep' = 0 /\ us_late' <= Late /\ us_late' = us_late + 1
    BY <1>9, <1>13 DEF TicksOver
  <2>2. us_elapsed' <= Woken + us_late' /\ us_elapsed < us_start + Slept + Period - 1
    BY <1>0, <1>3, <1>4, <1>13, <2>1 DEF TicksOver
  <2>3. TicksOver'
    BY <1>1, <1>5, <1>6, <1>13, <2>1, <2>2 DEF TicksOver
  <2> QED BY <1>1, <1>10, <1>13, <2>1, <2>3 DEF InCall
<1>14. CASE us_pc = "asleep" /\ Asleep
  <2>1. PICK k \in Nat : k = us_sleep /\ k >= 1 /\ k <= Ticks
    BY <1>14 DEF Asleep, UsTypes
  <2>2. Ticks \in Nat /\ Slept = Ticks * Period
    BY <1>0, <1>14, LongNumbers DEF Asleep
  <2>3. PICK b \in Nat : b = (Ticks - k) * Period
    <3>1. Ticks - k \in Nat
      BY <2>1, <2>2
    <3>2. (Ticks - k) * Period \in Nat
      BY <1>0, <3>1, Z3
    <3> QED BY <3>2
  <2>4. Turned(b) /\ us_late = 0
    BY <1>14, <2>1, <2>3 DEF Asleep
  <2>5. CASE us_value # 1
    <3>1. us_sleep' = k /\ us_late' = 0 /\ (us_flag' <=> us_flag)
      BY <1>1, <1>2, <2>1, <2>5
    <3>2. us_elapsed' + ToReload' = us_start' + b
      BY <1>0, <1>1, <1>3, <2>4, <2>5, CountsOn
    <3>3. Turned((Ticks - us_sleep) * Period)'
      BY <1>5, <2>3, <3>1, <3>2 DEF Turned
    <3>4. Asleep'
      BY <1>1, <1>5, <1>14, <2>1, <3>1, <3>3 DEF Asleep
    <3> QED BY <1>0, <1>1, <1>10, <1>14, <3>1, <3>4 DEF InCall
  <2>6. CASE us_value = 1
    <3>1. us_sleep' = k - 1 /\ us_flag'
      BY <1>1, <1>2, <2>1, <2>6
    <3>2. us_elapsed' + ToReload' = us_start' + b + Period
      BY <1>0, <1>1, <1>3, <2>4, <2>6, CountsOn
    <3>3. us_elapsed = us_start + b - 1
      BY <1>0, <1>1, <1>3, <2>4, <2>6, CountsOn
    <3>4. b + Period = (Ticks - (k - 1)) * Period
      <4>1. PICK d \in Nat : d = Ticks - k /\ d + 1 = Ticks - (k - 1)
        BY <2>1, <2>2
      <4>2. (d + 1) * Period = d * Period + Period
        BY <1>0, Z3
      <4> QED BY <2>3, <4>1, <4>2
    <3>5. CASE k # 1
      <4>1. us_late' = 0
        BY <1>2, <2>1, <3>1, <3>5
      <4>2. us_elapsed' + ToReload' = us_start' + (Ticks' - us_sleep') * Period
        <5>1. us_start' + b + Period = us_start' + (b + Period)
          BY <1>0, <1>1
        <5> QED BY <1>5, <3>1, <3>2, <3>4, <5>1
      <4>3. us_sleep' > 0 /\ us_sleep' <= Ticks' /\ us_sleep' < Ticks'
        BY <1>5, <2>1, <2>2, <3>1, <3>5
      <4>4. Asleep'
        BY <1>1, <1>5, <1>14, <3>1, <4>1, <4>2, <4>3 DEF Asleep, Turned
      <4> QED BY <1>0, <1>1, <1>10, <1>14, <4>1, <4>4 DEF InCall
    <3>6. CASE k = 1
      <4>1. us_sleep' = 0 /\ us_late' = 1
        BY <1>2, <2>4, <3>1, <3>6
      <4>2. b + Period = Slept
        <5>1. Ticks - (k - 1) = Ticks
          BY <2>2, <3>6
        <5> QED BY <2>2, <3>4, <5>1
      <4>3. us_elapsed' + ToReload' = us_start' + Slept'
        BY <1>0, <1>1, <1>5, <3>2, <4>2
      <4>4. Woken = us_start + Slept - Period
        BY <1>14, <2>1, <3>6 DEF Woken, Asleep
      <4>5. us_elapsed' <= Woken' + us_late'
        BY <1>0, <1>3, <1>5, <3>3, <4>1, <4>2, <4>4
      <4>6. TicksOver'
        BY <1>1, <1>5, <1>14, <3>1, <4>1, <4>3, <4>5 DEF TicksOver, Asleep, OneTurn, Turned, FlagTells
      <4> QED BY <1>0, <1>1, <1>10, <1>14, <4>1, <4>6 DEF InCall
    <3> QED BY <3>5, <3>6
  <2> QED BY <2>5, <2>6
<1>15. CASE us_pc = "compute"
  <2>1. AtCompute /\ us_late' <= Late /\ us_late' = us_late + 1
    BY <1>9, <1>15 DEF InCall
  <2>2. us_elapsed' <= Woken + Late + us_late' /\ us_elapsed < us_start + Slept + Period - 1
    BY <1>0, <1>3, <1>4, <2>1 DEF AtCompute
  <2>3. AtCompute'
    BY <1>1, <1>5, <1>6, <2>1, <2>2 DEF AtCompute
  <2> QED BY <1>1, <1>10, <1>15, <2>1, <2>3 DEF InCall
<1>16. CASE us_pc = "loop"
  <2>1. InLoop /\ us_late' <= Late /\ us_late' = us_late + 1
    BY <1>9, <1>16 DEF InCall
  <2>2. us_elapsed' <= Looping + us_late' /\ us_elapsed < us_start + Slept + Period - 1
    BY <1>0, <1>3, <1>4, <2>1 DEF InLoop, NextPeriod
  <2>3. NextPeriod'
    BY <1>1, <1>5, <2>1 DEF InLoop, NextPeriod
  <2>4. InLoop'
    BY <1>5, <1>6, <2>1, <2>2, <2>3 DEF InLoop
  <2> QED BY <1>1, <1>10, <1>16, <2>1, <2>4 DEF InCall
<1>17. CASE us_pc = "rest"
  <2>1. InRest /\ us_late' <= Late /\ us_late' = us_late + 1
    BY <1>9, <1>17 DEF InCall
  <2>2. /\ us_elapsed' <= us_asked + us_late' \/ us_elapsed' <= Looping + Late + us_late'
        /\ us_elapsed < us_start + Slept + Period - 1
    BY <1>0, <1>3, <1>4, <2>1 DEF InRest, NextPeriod
  <2>3. NextPeriod'
    BY <1>1, <1>5, <2>1 DEF InRest, NextPeriod
  <2>4. InRest'
    BY <1>1, <1>5, <1>6, <2>1, <2>2, <2>3 DEF InRest
  <2> QED BY <1>1, <1>10, <1>17, <2>1, <2>4 DEF InCall
<1>18. CASE us_pc = "until"
  <2>1. InUntil /\ us_late' <= Late /\ us_late' = us_late + 1
    BY <1>9, <1>18 DEF InCall
  <2>2. us_elapsed' <= us_asked + 2 * Late + us_late'
    BY <1>0, <1>3, <2>1 DEF InUntil
  <2>3. ~us_flag' => Turned(0)'
    BY <1>2, <1>7, <2>1 DEF InUntil
  <2>4. InUntil'
    BY <1>1, <1>5, <2>1, <2>2, <2>3 DEF InUntil
  <2> QED BY <1>1, <1>10, <1>18, <2>1, <2>4 DEF InCall
<1> QED BY <1>11, <1>12, <1>13, <1>14, <1>15, <1>16, <1>17, <1>18 DEF UsFlags, InCall

\* Each of its own steps takes a call on, in time.
LEMMA CallKeeps ==
  ASSUME UsInv,
         ClearsFlag \/ CallsMsleep \/ MsleepReturns \/ Compute \/ UsleepPolls
  PROVE  UsTypes' /\ UsFlags' /\ (Timely' => InCall' \/ (us_pc' = "idle" /\ us_elapsed' <= us_asked' + Allowed))
<1>0. /\ Period \in Nat \ {0} /\ Late \in Nat \ {0} /\ us_asked \in Nat /\ us_elapsed \in Nat
      /\ us_start \in Nat /\ us_start <= Period - 1 /\ us_late \in Nat /\ us_left \in Nat
      /\ Millisecond \in Nat \ {0} /\ TickMs \in Nat \ {0} /\ Allowed = 3 * Late
      /\ us_value \in 0 .. Period - 1 /\ UsTypes /\ UsFlags
  BY Periods DEF UsInv, UsTypes, Allowed
<1>1. /\ us_asked' = us_asked /\ us_start' = us_start /\ us_ran' = us_ran /\ us_elapsed' = us_elapsed
      /\ us_late' = 0 /\ us_pc # "idle"
  BY DEF ClearsFlag, CallsMsleep, MsleepReturns, Compute, UsleepPolls, us_call_vars
<1>2. Long' = Long /\ Ticks' = Ticks /\ Slept' = Slept /\ Rest' = Rest /\ Woken' = Woken
      /\ Looping' = Looping
  BY <1>1, SameCall
<1>3. Timely' => Timely /\ InCall
  BY <1>1 DEF Timely, UsInv
<1>4. Timely => /\ Slept \in Nat /\ Rest \in Nat /\ Woken \in Nat /\ Looping \in Nat
                /\ Slept + Rest <= us_asked /\ Woken <= us_asked /\ us_start > 2 * Late
                /\ (Slept = 0 => us_start <= Looping) /\ Rest <= us_start + Period - 1
                /\ (Rest > us_start => /\ Woken + 2 * Late <= Looping
                                       /\ Looping + 2 * Late <= us_asked + 3 * Late)
  BY <1>0, CallNumbers DEF Timely
<1>5. Long => Ticks \in Nat /\ (Ticks = 0 => Slept = 0 /\ Woken = 2 * Late) /\ Slept = Ticks * Period
  BY <1>0, LongNumbers DEF Woken
<1>6. us_value' = us_value => \A b : Turned(b)' <=> Turned(b)
  BY <1>1 DEF Turned, ToReload
<1>7. us_value' = us_value =>
        OneTurn' = OneTurn /\ (us_flag' = us_flag => FlagTells' = FlagTells)
  BY <1>2, <1>6 DEF OneTurn, FlagTells
<1>11. CASE ClearsFlag
  <2>1. /\ us_pc = "clear" /\ us_flag' = FALSE
        /\ us_pc' = (IF us_left > Millisecond THEN "msleep" ELSE "compute")
        /\ us_left' = (IF us_left > Millisecond THEN us_left % Millisecond ELSE us_left)
        /\ us_sleep' = us_sleep /\ us_end' = us_end /\ us_sleep = 0
        /\ IF us_asked > Millisecond \/ us_run THEN UNCHANGED <<us_run, us_on, us_value>>
           ELSE TickStarts
    BY <1>0, <1>11 DEF ClearsFlag, UsFlags
  <2>2. us_left % Millisecond \in Nat
    BY <1>0
  <2>3. us_value' \in 0 .. Period - 1
    BY <1>0, <2>1 DEF TickStarts, CounterCleared
  <2>4. UsTypes'
    BY <1>0, <1>1, <2>1, <2>2, <2>3 DEF UsTypes
  <2>5. us_run' \in BOOLEAN /\ us_on' \in BOOLEAN /\ (us_run' => us_on')
    BY <1>0, <2>1 DEF UsFlags, TickStarts
  <2>6. UsFlags'
    BY <1>0, <1>1, <2>1, <2>5 DEF UsFlags
  <2>7. ASSUME Timely' PROVE InCall'
    <3>1. AtClear /\ us_run /\ us_late <= Late
      BY <1>3, <2>1, <2>7 DEF InCall
    <3>2. us_run' /\ us_value' = us_value /\ us_late' <= Late
      BY <1>0, <1>1, <2>1, <3>1
    <3>3. us_elapsed <= Late /\ Turned(0)' /\ us_left = us_asked
      BY <1>0, <1>6, <3>1, <3>2 DEF AtClear
    <3>4. CASE us_left > Millisecond
      <4>1. AtMsleep'
        BY <1>0, <1>1, <1>2, <2>1, <3>3, <3>4 DEF AtMsleep, Long, Rest
      <4> QED BY <2>1, <3>2, <3>4, <4>1 DEF InCall
    <3>5. CASE ~(us_left > Millisecond)
      <4>1. Rest = us_left /\ Slept = 0 /\ Woken = 0
        BY <3>3, <3>5 DEF Long, Rest, Slept, Woken
      <4>2. us_elapsed' <= Woken' + Late + us_late'
        BY <1>0, <1>1, <1>2, <3>3, <4>1
      <4>3. AtCompute'
        BY <1>2, <2>1, <3>3, <3>5, <4>1, <4>2 DEF AtCompute, OneTurn, FlagTells
      <4> QED BY <2>1, <3>2, <3>5, <4>3 DEF InCall
    <3> QED BY <3>4, <3>5
  <2> QED BY <2>4, <2>6, <2>7
<1>12. CASE CallsMsleep
  <2>1. /\ us_pc = "msleep" /\ us_pc' = "asleep"
        /\ us_sleep' = (us_asked \div Millisecond) \div (IF us_on THEN TickMs ELSE 1)
        /\ us_left' = us_left /\ us_end' = us_end
        /\ IF us_run THEN UNCHANGED hardware_vars ELSE TickStarts
    BY <1>12 DEF CallsMsleep
  <2>2. us_sleep' \in Nat
    <3>1. us_asked \div Millisecond \in Nat
      BY <1>0
    <3>2. \A a \in Nat, b \in Nat \ {0} : a \div b \in Nat
      OBVIOUS
    <3> QED BY <1>0, <2>1, <3>1, <3>2
  <2>3. us_value' \in 0 .. Period - 1 /\ us_run' \in BOOLEAN /\ us_on' \in BOOLEAN
        /\ us_flag' \in BOOLEAN /\ (us_run' => us_on')
    <3>1. us_run \in BOOLEAN /\ us_on \in BOOLEAN /\ us_flag \in BOOLEAN /\ (us_run => us_on)
      BY <1>0 DEF UsFlags
    <3>2. CASE us_run
      BY <1>0, <2>1, <3>1, <3>2 DEF hardware_vars
    <3>3. CASE ~us_run
      <4>1. us_run' = TRUE /\ us_on' = TRUE /\ us_value' = 0 /\ us_flag' = FALSE
        BY <2>1, <3>3 DEF TickStarts, CounterCleared
      <4>2. us_value' \in 0 .. Period - 1
        BY <1>0, <4>1
      <4>3. us_run' \in BOOLEAN /\ us_on' \in BOOLEAN /\ us_flag' \in BOOLEAN
        BY <4>1
      <4>4. us_run' => us_on'
        BY <4>1
      <4> QED BY <4>2, <4>3, <4>4
    <3> QED BY <3>2, <3>3
  <2>4. UsTypes'
    BY <1>0, <1>1, <2>1, <2>2, <2>3 DEF UsTypes
  <2>5. UsFlags'
    BY <1>0, <1>1, <2>1, <2>3 DEF UsFlags
  <2>6. ASSUME Timely' PROVE InCall'
    <3>1. AtMsleep /\ us_run /\ us_late <= Late
      BY <1>3, <2>1, <2>6 DEF InCall
    <3>2. us_run' /\ us_value' = us_value /\ us_late' <= Late /\ us_flag' = us_flag
      BY <1>0, <1>1, <2>1, <3>1 DEF hardware_vars
    <3>3. us_sleep' = Ticks
      BY <1>0, <2>1, <3>1 DEF UsFlags, Ticks
    <3>4. Turned(0)' /\ ~us_flag' /\ Long /\ us_left = Rest /\ us_elapsed <= 2 * Late
      BY <1>0, <1>6, <3>1, <3>2 DEF AtMsleep
    <3>5. CASE Ticks = 0
      <4>1. us_elapsed' <= Woken' + us_late'
        BY <1>0, <1>1, <1>2, <1>5, <3>4, <3>5
      <4>2. TicksOver'
        BY <1>2, <1>5, <2>1, <3>3, <3>4, <3>5, <4>1 DEF TicksOver, OneTurn, FlagTells
      <4> QED BY <2>1, <3>2, <4>2 DEF InCall
    <3>6. CASE Ticks # 0
      <4>1. (Ticks - Ticks) * Period = 0
        BY <1>0, <1>5, <3>4
      <4>2. us_sleep' > 0 /\ us_sleep' <= Ticks'
        BY <1>2, <1>5, <3>3, <3>4, <3>6
      <4>3. Turned((Ticks - us_sleep) * Period)'
        BY <1>2, <3>3, <3>4, <4>1 DEF Turned
      <4>4. us_flag' <=> us_sleep' < Ticks'
        BY <1>2, <1>5, <3>3, <3>4
      <4>5. Asleep'
        BY <1>1, <1>2, <2>1, <3>4, <4>2, <4>3, <4>4 DEF Asleep
      <4> QED BY <2>1, <3>2, <4>5 DEF InCall
    <3> QED BY <3>5, <3>6
  <2> QED BY <2>4, <2>5, <2>6
<1>13. CASE MsleepReturns
  <2>1. us_pc = "asleep" /\ us_sleep = 0 /\ us_pc' = "compute"
        /\ UNCHANGED <<us_value, us_flag, us_run, us_on, us_left, us_end, us_sleep>>
    BY <1>13 DEF MsleepReturns, hardware_vars
  <2>2. UsTypes' /\ UsFlags'
    BY <1>0, <1>1, <2>1 DEF UsTypes, UsFlags
  <2>3. ASSUME Timely' PROVE InCall'
    <3>1. TicksOver /\ us_run /\ us_late <= Late
      BY <1>3, <2>1, <2>3 DEF InCall, Asleep
    <3>2. us_elapsed' <= Woken' + Late + us_late'
      BY <1>0, <1>1, <1>2, <1>3, <1>4, <2>3, <3>1 DEF TicksOver
    <3>3. AtCompute'
      BY <1>2, <1>7, <2>1, <3>1, <3>2 DEF TicksOver, AtCompute
    <3> QED BY <1>0, <1>1, <2>1, <3>1, <3>3 DEF InCall
  <2> QED BY <2>2, <2>3
<1>14. CASE Compute
  <2>1. us_pc = "compute" /\ UNCHANGED <<us_value, us_flag, us_run, us_on, us_left, us_sleep>>
        /\ IF us_left > us_start
           THEN us_pc' = "loop" /\ us_end' = (Reload - (us_left - us_start)) % Unsigned
           ELSE us_pc' = "until" /\ us_end' = us_start - us_left
    BY <1>14 DEF Compute, hardware_vars
  <2>2. Unsigned \in Nat \ {0} /\ Unsigned > Period /\ Reload = Period - 1
    BY <1>0, Periods
  <2>3. us_end' \in Int
    <3>1. (Reload - (us_left - us_start)) % Unsigned \in Int
      BY <1>0, <2>2
    <3> QED BY <1>0, <2>1, <3>1
  <2>4. UsTypes' /\ UsFlags'
    BY <1>0, <1>1, <2>1, <2>3 DEF UsTypes, UsFlags
  <2>5. ASSUME Timely' PROVE InCall'
    <3>1. AtCompute /\ us_run /\ us_late <= Late /\ us_left = Rest
      BY <1>3, <2>1, <2>5 DEF InCall, AtCompute
    <3>2. us_elapsed <= Woken + 2 * Late
      BY <1>0, <1>3, <1>4, <2>5, <3>1 DEF AtCompute
    <3>3. CASE us_left > us_start
      <4>1. us_end' = Period - 1 - (us_left - us_start)
        <5>1. PICK x \in Nat : x = Reload - (us_left - us_start) /\ x < Unsigned
          BY <1>0, <1>3, <1>4, <2>2, <2>5, <3>1, <3>3
        <5>2. x % Unsigned = x
          BY <2>2, <5>1
        <5> QED BY <2>1, <2>2, <3>3, <5>1, <5>2
      <4>2. us_elapsed' <= Looping' + us_late'
        BY <1>0, <1>1, <1>2, <1>3, <1>4, <2>5, <3>1, <3>2, <3>3
      <4>3. InLoop'
        BY <1>1, <1>2, <1>7, <2>1, <3>1, <3>3, <4>1, <4>2 DEF InLoop, NextPeriod, AtCompute
      <4> QED BY <1>0, <1>1, <2>1, <3>1, <3>3, <4>3 DEF InCall
    <3>4. CASE ~(us_left > us_start)
      <4>1. us_left' <= us_start'
        BY <1>0, <1>1, <2>1, <3>4
      <4>2. us_elapsed' <= us_asked' + 2 * Late + us_late'
        BY <1>0, <1>1, <1>3, <1>4, <2>5, <3>2
      <4>3. ~us_flag' => Turned(0)'
        BY <1>6, <2>1, <3>1 DEF AtCompute, FlagTells
      <4>4. InUntil'
        BY <1>1, <1>2, <2>1, <3>1, <3>4, <4>1, <4>2, <4>3 DEF InUntil
      <4> QED BY <1>0, <1>1, <2>1, <3>1, <3>4, <4>4 DEF InCall
    <3> QED BY <3>3, <3>4
  <2> QED BY <2>4, <2>5
<1>15. CASE UsleepPolls
  <2>1. /\ UNCHANGED <<us_value, us_run, us_on, us_left, us_end, us_sleep>>
        /\ \/ us_pc = "loop" /\ us_flag' = FALSE /\ us_pc' = IF us_flag THEN "rest" ELSE "loop"
           \/ us_pc = "rest" /\ us_flag' = us_flag /\ us_pc' = IF us_value > us_end THEN "rest" ELSE "idle"
           \/ /\ us_pc = "until" /\ us_flag' = (us_flag /\ us_value <= us_end)
              /\ us_pc' = IF us_value > us_end /\ ~us_flag THEN "until" ELSE "idle"
    BY <1>15 DEF UsleepPolls
  <2>2. UsTypes'
    BY <1>0, <1>1, <2>1 DEF UsTypes
  <2>3. us_sleep = 0
    BY <1>0, <2>1 DEF UsFlags
  <2>4. us_flag' \in BOOLEAN
    BY <1>0, <2>1 DEF UsFlags
  <2>5. UsFlags'
    BY <1>0, <1>1, <2>1, <2>3, <2>4 DEF UsFlags
  <2>6. ASSUME Timely', us_pc = "loop" PROVE InCall'
    <3>1. InLoop /\ us_run /\ us_late <= Late
      BY <1>3, <2>6 DEF InCall
    <3>2. NextPeriod' /\ OneTurn'
      BY <1>1, <1>2, <1>7, <2>1, <3>1 DEF InLoop, NextPeriod
    <3>3. CASE us_flag
      <4>1. us_elapsed' <= Looping' + Late + us_late'
        BY <1>0, <1>1, <1>2, <1>3, <1>4, <2>6, <3>1 DEF InLoop
      <4>2. InRest'
        BY <3>2, <4>1 DEF InRest
      <4> QED BY <1>0, <1>1, <2>1, <2>6, <3>1, <3>3, <4>2 DEF InCall
    <3>4. CASE ~us_flag
      <4>1. Slept = 0 /\ Turned(0)
        BY <3>1, <3>4 DEF InLoop, FlagTells
      <4>2. us_elapsed <= us_start
        <5>1. us_elapsed + ToReload = us_start + 0 /\ ToReload \in Nat
          BY <1>0, <4>1 DEF Turned, ToReload
        <5> QED BY <1>0, <5>1
      <4>3. us_elapsed' <= Looping' + us_late'
        BY <1>0, <1>1, <1>2, <1>3, <1>4, <2>6, <4>1, <4>2
      <4>4. FlagTells'
        BY <1>2, <1>6, <2>1, <4>1 DEF FlagTells
      <4>5. InLoop'
        BY <3>2, <4>3, <4>4 DEF InLoop
      <4> QED BY <1>0, <1>1, <2>1, <2>6, <3>1, <3>4, <4>5 DEF InCall
    <3> QED BY <3>3, <3>4
  <2>7. ASSUME Timely', us_pc = "rest"
        PROVE  InCall' \/ (us_pc' = "idle" /\ us_elapsed' <= us_asked' + Allowed)
    <3>1. InRest /\ us_run /\ us_late <= Late
      BY <1>3, <2>7 DEF InCall
    <3>2. NextPeriod' /\ OneTurn'
      BY <1>1, <1>2, <1>7, <2>1, <3>1 DEF InRest, NextPeriod
    <3>3. CASE us_value > us_end
      <4>1. us_end = Period - 1 - (Rest - us_start) /\ us_end \in Int
        BY <1>0, <3>1 DEF InRest, NextPeriod, UsTypes
      <4>2. us_value > us_end /\ ToReload >= us_value /\ ToReload \in Nat
        BY <1>0, <3>3 DEF ToReload
      <4>3. us_elapsed + ToReload <= us_start + Slept + Period
        BY <1>0, <1>3, <1>4, <2>7, <3>1 DEF InRest, OneTurn, Turned
      <4>4. us_elapsed <= us_asked
        BY <1>0, <1>3, <1>4, <2>7, <4>1, <4>2, <4>3
      <4>5. InRest'
        BY <1>0, <1>1, <3>2, <4>4 DEF InRest
      <4> QED BY <1>0, <1>1, <2>1, <2>7, <3>1, <3>3, <4>5 DEF InCall
    <3>4. CASE ~(us_value > us_end)
      <4>1. us_pc' = "idle"
        BY <2>1, <2>7, <3>4
      <4>2. us_elapsed' <= us_asked' + Allowed
        BY <1>0, <1>1, <1>3, <1>4, <2>7, <3>1 DEF InRest, NextPeriod
      <4> QED BY <4>1, <4>2
    <3> QED BY <3>3, <3>4
  <2>8. ASSUME Timely', us_pc = "until"
        PROVE  InCall' \/ (us_pc' = "idle" /\ us_elapsed' <= us_asked' + Allowed)
    <3>1. InUntil /\ us_run /\ us_late <= Late
      BY <1>3, <2>8 DEF InCall
    <3>2. CASE us_value > us_end /\ ~us_flag
      <4>1. Turned(0) /\ us_end = us_start - us_left /\ us_left = Rest /\ us_left <= us_start
        BY <3>1, <3>2 DEF InUntil
      <4>2. us_elapsed + ToReload = us_start + 0 /\ ToReload >= us_value /\ ToReload \in Nat
        BY <1>0, <4>1 DEF Turned, ToReload
      <4>3. us_elapsed <= us_asked
        BY <1>0, <1>3, <1>4, <2>8, <3>2, <4>1, <4>2
      <4>4. InUntil'
        BY <1>0, <1>1, <1>2, <1>6, <2>1, <4>1, <4>3 DEF InUntil
      <4> QED BY <1>0, <1>1, <2>1, <2>8, <3>1, <3>2, <4>4 DEF InCall
    <3>3. CASE ~(us_value > us_end /\ ~us_flag)
      <4>1. us_pc' = "idle"
        BY <2>1, <2>8, <3>3
      <4>2. us_elapsed' <= us_asked' + Allowed
        BY <1>0, <1>1, <3>1 DEF InUntil
      <4> QED BY <4>1, <4>2
    <3> QED BY <3>2, <3>3
  <2> QED BY <2>1, <2>2, <2>5, <2>6, <2>7, <2>8
<1> QED BY <1>11, <1>12, <1>13, <1>14, <1>15

\* For a counter of any size, any waits, and steps that are late by at most half a millisecond,
\* usleep is late by a poll or two and never by a turn, through the ticks of msleep.
THEOREM SleepStaysShort == UsleepSpec => []SleepsAtMost
<1>1. UsleepInit => UsInv
  <2> SUFFICES ASSUME UsleepInit PROVE UsInv
    OBVIOUS
  <2>1. UsTypes
    BY Periods DEF UsleepInit, UsTypes
  <2>2. UsFlags
    BY DEF UsleepInit, UsFlags
  <2>3. SleepsAtMost /\ us_pc = "idle"
    BY DEF UsleepInit, SleepsAtMost
  <2> QED BY <2>1, <2>2, <2>3 DEF UsInv
<1>2. UsInv /\ [UsleepNext]_us_vars => UsInv'
  <2> SUFFICES ASSUME UsInv, [UsleepNext]_us_vars PROVE UsInv'
    OBVIOUS
  <2>0. UsTypes /\ UsFlags /\ SleepsAtMost /\ (Timely /\ us_pc # "idle" => InCall)
    BY DEF UsInv
  <2>1. CASE systick_toggles
    <3>1. /\ us_pc = "idle" /\ us_pc' = us_pc
          /\ UNCHANGED <<us_call_vars, us_start, us_left, us_end, us_sleep, us_elapsed, us_late>>
          /\ IF us_run THEN us_run' = FALSE /\ UNCHANGED us_on /\ CounterCleared ELSE TickStarts
      BY <2>1 DEF systick_toggles
    <3>2. us_value' = 0 /\ us_flag' = FALSE /\ us_run' \in BOOLEAN /\ us_on' \in BOOLEAN
          /\ (us_run' => us_on')
      BY <2>0, <3>1 DEF UsFlags, TickStarts, CounterCleared
    <3>3. UsTypes'
      BY <2>0, <3>1, <3>2, Periods DEF UsTypes, us_call_vars
    <3>4. UsFlags'
      BY <2>0, <3>1, <3>2 DEF UsFlags, us_call_vars
    <3>5. SleepsAtMost'
      BY <2>0, <3>1 DEF SleepsAtMost, us_call_vars, Allowed
    <3> QED BY <3>1, <3>3, <3>4, <3>5 DEF UsInv
  <2>2. CASE usleep \/ usleep_short
    <3>1. PICK us \in Waits : UsleepCalled(us, "clear")
      BY <2>2 DEF usleep, usleep_short
    <3>2. /\ us_pc = "idle" /\ us_pc' = "clear" /\ us_asked' = us /\ us_left' = us
          /\ us_start' = us_value /\ us_elapsed' = 0 /\ us_ran' = us_run /\ us_late' = 0
          /\ UNCHANGED <<us_value, us_flag, us_run, us_on, us_end, us_sleep>> /\ us \in Nat
      BY <3>1, Periods DEF UsleepCalled, hardware_vars
    <3>3. UsTypes'
      BY <2>0, <3>2 DEF UsTypes
    <3>4. UsFlags'
      BY <2>0, <3>2 DEF UsFlags
    <3>5. SleepsAtMost'
      BY <3>2, Periods DEF SleepsAtMost, Allowed
    <3>6. ASSUME Timely' PROVE InCall'
      <4>1. us_run' /\ us_late' <= Late
        BY <3>2, <3>6, Periods DEF Timely
      <4>2. us_value' # 0 /\ us_value \in Nat
        BY <2>0, <3>2, <3>6, Periods DEF Timely, UsTypes
      <4>3. us_elapsed' + ToReload' = us_start' + 0
        BY <3>2, <4>2 DEF ToReload
      <4>4. AtClear'
        BY <3>2, <4>3 DEF AtClear, Turned
      <4> QED BY <3>2, <4>1, <4>4 DEF InCall
    <3> QED BY <3>3, <3>4, <3>5, <3>6 DEF UsInv
  <2>3. CASE ClearsFlag \/ CallsMsleep \/ MsleepReturns \/ Compute \/ UsleepPolls
    <3>1. UsTypes' /\ UsFlags'
          /\ (Timely' => InCall' \/ (us_pc' = "idle" /\ us_elapsed' <= us_asked' + Allowed))
      BY <2>3, CallKeeps
    <3>2. ASSUME Timely', us_pc' # "idle" PROVE InCall'
      BY <3>1, <3>2
    <3>3. SleepsAtMost'
      <4> SUFFICES ASSUME Timely' PROVE us_elapsed' <= us_asked' + Allowed
        BY DEF Timely, SleepsAtMost, Allowed
      <4>1. UNCHANGED <<us_asked, us_start, us_ran, us_elapsed>>
        BY <2>3 DEF ClearsFlag, CallsMsleep, MsleepReturns, Compute, UsleepPolls, us_call_vars
      <4> QED BY <2>0, <4>1 DEF Timely, SleepsAtMost, Allowed
    <3> QED BY <3>1, <3>2, <3>3 DEF UsInv
  <2>4. CASE CounterSteps
    <3>1. /\ UNCHANGED <<us_run, us_on, us_call_vars, us_pc, us_start, us_left, us_end>>
          /\ us_value' = (IF us_value = 0 THEN Reload ELSE us_value - 1)
          /\ us_flag' = (us_flag \/ us_value = 1)
          /\ us_sleep' = (IF us_value = 1 /\ us_sleep # 0 THEN us_sleep - 1 ELSE us_sleep)
          /\ us_elapsed' = (IF us_pc = "idle" \/ us_elapsed > us_asked + Allowed
                            THEN us_elapsed ELSE us_elapsed + 1)
          /\ us_late' = (IF us_pc = "idle" \/ us_sleep' # 0 THEN 0 ELSE us_late + 1)
      BY <2>4 DEF CounterSteps
    <3>2. us_value' \in 0 .. Period - 1 /\ us_sleep' \in Nat
      BY <2>0, <3>1, Periods DEF UsTypes
    <3>3. us_late' \in Nat /\ us_elapsed' \in Nat
      BY <2>0, <3>1 DEF UsTypes
    <3>4. UsTypes'
      BY <2>0, <3>1, <3>2, <3>3 DEF UsTypes, us_call_vars
    <3>5. us_flag' \in BOOLEAN
      BY <3>1
    <3>6. us_pc' # "asleep" => us_sleep' = 0
      BY <2>0, <3>1 DEF UsFlags
    <3>7. UsFlags'
      BY <2>0, <3>1, <3>5, <3>6 DEF UsFlags, us_call_vars
    <3>8. ASSUME Timely', us_pc' # "idle" PROVE InCall'
      <4>1. Timely /\ us_pc # "idle"
        BY <3>1, <3>8 DEF Timely, us_call_vars
      <4> QED BY <2>0, <2>4, <4>1, CountKeeps
    <3>9. SleepsAtMost'
      <4> SUFFICES ASSUME Timely' PROVE us_elapsed' <= us_asked' + Allowed
        BY DEF Timely, SleepsAtMost, Allowed
      <4>1. CASE us_pc = "idle"
        <5>1. us_elapsed' = us_elapsed
          BY <3>1, <4>1
        <5> QED BY <2>0, <3>1, <5>1 DEF Timely, SleepsAtMost, us_call_vars, Allowed
      <4>2. CASE us_pc # "idle"
        <5>1. us_pc \in {"clear", "msleep", "asleep", "compute", "loop", "rest", "until"}
          BY <2>0, <4>2 DEF UsFlags
        <5>2. Timely /\ InCall
          BY <2>0, <3>1, <4>2 DEF Timely, us_call_vars
        <5>3. us_late < Late \/ (us_pc = "asleep" /\ us_sleep # 0)
          BY <2>4, <5>1 DEF CounterSteps
        <5>4. us_elapsed < us_asked + Allowed
          BY <2>0, <5>1, <5>2, <5>3, InTime
        <5>5. us_elapsed \in Nat /\ us_asked \in Nat /\ Allowed \in Nat /\ us_asked' = us_asked
          BY <2>0, <3>1, Periods DEF UsTypes, Allowed, us_call_vars
        <5> QED BY <3>1, <5>4, <5>5
      <4> QED BY <4>1, <4>2
    <3> QED BY <3>4, <3>7, <3>8, <3>9 DEF UsInv
  <2>5. CASE UNCHANGED us_vars
    <3>1. UsTypes' /\ UsFlags' /\ SleepsAtMost'
      BY <2>0, <2>5 DEF UsTypes, UsFlags, SleepsAtMost, us_vars, hardware_vars, us_call_vars, Allowed
    <3>2. (Timely' <=> Timely) /\ us_pc' = us_pc
      BY <2>5 DEF us_vars, hardware_vars, us_call_vars, Timely
    <3>3. Long' = Long /\ Ticks' = Ticks /\ Slept' = Slept /\ Rest' = Rest /\ Woken' = Woken
          /\ Looping' = Looping
      BY <2>5, SameCall DEF us_vars, hardware_vars, us_call_vars
    <3>4. \A b : Turned(b)' <=> Turned(b)
      BY <2>5 DEF us_vars, hardware_vars, us_call_vars, Turned, ToReload
    <3>5. (OneTurn' <=> OneTurn) /\ (FlagTells' <=> FlagTells)
      BY <2>5, <3>3, <3>4 DEF us_vars, hardware_vars, us_call_vars, OneTurn, FlagTells
    <3>6. Turned((Ticks - us_sleep) * Period)' <=> Turned((Ticks - us_sleep) * Period)
      BY <2>5, <3>3 DEF us_vars, hardware_vars, us_call_vars, Turned, ToReload
    <3>7. /\ UNCHANGED <<us_value, us_flag, us_run, us_on, us_asked, us_ran, us_pc, us_start>>
          /\ UNCHANGED <<us_left, us_end, us_sleep, us_elapsed, us_late>>
      BY <2>5 DEF us_vars, hardware_vars, us_call_vars
    <3>8. (AtClear' <=> AtClear) /\ (AtMsleep' <=> AtMsleep)
      BY <3>3, <3>4, <3>7 DEF AtClear, AtMsleep
    <3>9. (Asleep' <=> Asleep) /\ (TicksOver' <=> TicksOver)
      BY <3>3, <3>5, <3>6, <3>7 DEF Asleep, TicksOver
    <3>10. (AtCompute' <=> AtCompute) /\ (InLoop' <=> InLoop) /\ (InRest' <=> InRest)
      BY <3>3, <3>5, <3>7 DEF AtCompute, NextPeriod, InLoop, InRest
    <3>11. InUntil' <=> InUntil
      BY <3>3, <3>4, <3>7 DEF InUntil
    <3>12. InCall' <=> InCall
      BY <3>7, <3>8, <3>9, <3>10, <3>11 DEF InCall
    <3> QED BY <2>0, <3>1, <3>2, <3>12 DEF UsInv
  <2> QED BY <2>1, <2>2, <2>3, <2>4, <2>5 DEF UsleepNext
<1>3. UsInv => SleepsAtMost
  BY DEF UsInv
<1> QED BY <1>1, <1>2, <1>3, PTL DEF UsleepSpec

----------------------------------------------------------------------------
(* Ssp.  The frames are in the hardware in the order they were given, and  *)
(* the replies on the driver's side in the order they came; unless one was *)
(* lost, the replies stored and those that wait are all that have come.    *)

\* The frames whose transfer is over.
Came == ssp_count - Len(tx_fifo) - Len(shift)

SspSequences == {tx_fifo, shift, rx_fifo, data_in} \subseteq Seq(Nat)

FramesInOrder ==
    /\ Came \in Nat
    /\ \A i \in 1 .. Len(tx_fifo) : tx_fifo[i] = ssp_count - Len(tx_fifo) + i
    /\ \A i \in 1 .. Len(shift) : shift[i] = ssp_count - Len(tx_fifo)

\* Of the replies stored, kept, those that wait, queue, and the number that have come.
Increasing(s) == \A i, j \in 1 .. Len(s) : i < j => s[i] < s[j]
CameInOrder(kept, queue, came) ==
    /\ Increasing(kept) /\ Increasing(queue)
    /\ \A i \in 1 .. Len(kept) : kept[i] <= came
    /\ \A i \in 1 .. Len(queue) : queue[i] <= came
    /\ \A i \in 1 .. Len(kept), j \in 1 .. Len(queue) : kept[i] < queue[j]
AllCame(kept, queue, came) ==
    /\ Len(kept) + Len(queue) = came
    /\ \A i \in 1 .. Len(kept) : kept[i] = i
    /\ \A i \in 1 .. Len(queue) : queue[i] = Len(kept) + i

BetweenTransfers ==
    ssp_pc = "idle" =>
        tx_fifo = <<>> /\ shift = <<>> /\ rx_fifo = <<>> /\ ssp_count = ssp_size

SspInv ==
    /\ SspTypeOK /\ SspSequences /\ FramesInOrder
    /\ CameInOrder(data_in, rx_fifo, Came)
    /\ ~rx_overrun => AllCame(data_in, rx_fifo, Came)
    /\ BetweenTransfers

\* A reply that comes takes its place after those that wait.
LEMMA LongerInOrder ==
  ASSUME NEW kept, NEW queue, NEW longer, NEW came \in Nat, CameInOrder(kept, queue, came),
         \A i \in 1 .. Len(kept) : kept[i] \in Nat,
         \A i \in 1 .. Len(queue) : queue[i] \in Nat,
         Len(longer) = Len(queue) + 1, Len(queue) \in Nat, Len(kept) \in Nat,
         \A i \in 1 .. Len(queue) : longer[i] = queue[i],
         longer[Len(queue) + 1] = came + 1
  PROVE  /\ CameInOrder(kept, longer, came + 1)
         /\ AllCame(kept, queue, came) => AllCame(kept, longer, came + 1)
<1>1. ASSUME NEW j \in 1 .. Len(longer)
      PROVE  \/ j \in 1 .. Len(queue) /\ longer[j] = queue[j]
             \/ j = Len(queue) + 1 /\ longer[j] = came + 1
  OBVIOUS
<1>2. CameInOrder(kept, longer, came + 1)
  <2>1. Increasing(longer)
    <3> SUFFICES ASSUME NEW i \in 1 .. Len(longer), NEW j \in 1 .. Len(longer), i < j
                 PROVE  longer[i] < longer[j]
      BY DEF Increasing
    <3>1. i \in 1 .. Len(queue) /\ longer[i] = queue[i]
      OBVIOUS
    <3>2. CASE j \in 1 .. Len(queue)
      BY <3>1, <3>2 DEF CameInOrder, Increasing
    <3>3. CASE j = Len(queue) + 1
      BY <3>1, <3>3 DEF CameInOrder
    <3> QED
      BY <1>1, <3>2, <3>3
  <2>2. \A i \in 1 .. Len(longer) : longer[i] <= came + 1
    BY <1>1 DEF CameInOrder
  <2>3. \A i \in 1 .. Len(kept), j \in 1 .. Len(longer) : kept[i] < longer[j]
    BY <1>1 DEF CameInOrder
  <2>4. Increasing(kept) /\ \A i \in 1 .. Len(kept) : kept[i] <= came + 1
    BY DEF CameInOrder
  <2> QED
    BY <2>1, <2>2, <2>3, <2>4 DEF CameInOrder
<1>3. AllCame(kept, queue, came) => AllCame(kept, longer, came + 1)
  <2> SUFFICES ASSUME AllCame(kept, queue, came) PROVE AllCame(kept, longer, came + 1)
    OBVIOUS
  <2>1. \A j \in 1 .. Len(longer) : longer[j] = Len(kept) + j
    BY <1>1 DEF AllCame
  <2> QED
    BY <2>1 DEF AllCame
<1> QED
  BY <1>2, <1>3

\* A reply that comes in keeps the order of what has come.
LEMMA ReplyComes ==
  ASSUME NEW kept \in Seq(Nat), NEW queue \in Seq(Nat), NEW came \in Nat,
         CameInOrder(kept, queue, came)
  PROVE  /\ queue \o <<came + 1>> \in Seq(Nat)
         /\ Len(queue \o <<came + 1>>) = Len(queue) + 1
         /\ CameInOrder(kept, queue \o <<came + 1>>, came + 1)
         /\ AllCame(kept, queue, came) => AllCame(kept, queue \o <<came + 1>>, came + 1)
<1>1. <<came + 1>> \in Seq(Nat) /\ Len(<<came + 1>>) = 1 /\ <<came + 1>>[1] = came + 1
  OBVIOUS
<1>2. PICK longer : longer = queue \o <<came + 1>>
  OBVIOUS
<1>3. longer \in Seq(Nat) /\ Len(longer) = Len(queue) + 1 /\ Len(queue) \in Nat /\ Len(kept) \in Nat
  BY <1>1, <1>2, ConcatProperties, LenProperties
<1>4. \A i \in 1 .. Len(queue) : longer[i] = queue[i]
  BY <1>1, <1>2, <1>3, ConcatProperties
<1>5. longer[Len(queue) + 1] = came + 1
  BY <1>1, <1>2, <1>3, ConcatProperties
<1>6. /\ \A i \in 1 .. Len(kept) : kept[i] \in Nat
      /\ \A i \in 1 .. Len(queue) : queue[i] \in Nat
  BY ElementOfSeq
<1>7. /\ CameInOrder(kept, longer, came + 1)
      /\ AllCame(kept, queue, came) => AllCame(kept, longer, came + 1)
  BY <1>3, <1>4, <1>5, <1>6, LongerInOrder
<1> QED
  BY <1>2, <1>3, <1>7

\* A reply that is stored, the first of those that wait, leaves the others.
LEMMA MoreInOrder ==
  ASSUME NEW kept, NEW queue, NEW more, NEW rest, NEW came \in Nat, CameInOrder(kept, queue, came),
         \A i \in 1 .. Len(kept) : kept[i] \in Nat,
         \A i \in 1 .. Len(queue) : queue[i] \in Nat,
         Len(queue) \in Nat \ {0}, Len(kept) \in Nat, Len(rest) = Len(queue) - 1,
         Len(more) = Len(kept) + 1,
         \A i \in 1 .. Len(rest) : rest[i] = queue[i + 1],
         \A i \in 1 .. Len(kept) : more[i] = kept[i],
         more[Len(kept) + 1] = queue[1]
  PROVE  /\ CameInOrder(more, rest, came)
         /\ AllCame(kept, queue, came) => AllCame(more, rest, came)
<1>1. ASSUME NEW i \in 1 .. Len(more)
      PROVE  \/ i \in 1 .. Len(kept) /\ more[i] = kept[i]
             \/ i = Len(kept) + 1 /\ more[i] = queue[1]
  OBVIOUS
<1>2. ASSUME NEW j \in 1 .. Len(rest)
      PROVE  j + 1 \in 1 .. Len(queue) /\ 1 \in 1 .. Len(queue) /\ 1 < j + 1 /\ rest[j] = queue[j + 1]
  OBVIOUS
<1>3. Increasing(more)
  <2> SUFFICES ASSUME NEW i \in 1 .. Len(more), NEW j \in 1 .. Len(more), i < j
               PROVE  more[i] < more[j]
    BY DEF Increasing
  <2>1. i \in 1 .. Len(kept) /\ more[i] = kept[i]
    OBVIOUS
  <2>2. CASE j \in 1 .. Len(kept)
    BY <2>1, <2>2 DEF CameInOrder, Increasing
  <2>3. CASE j = Len(kept) + 1
    BY <2>1, <2>3 DEF CameInOrder
  <2> QED
    BY <1>1, <2>2, <2>3
<1>4. Increasing(rest)
  <2> SUFFICES ASSUME NEW i \in 1 .. Len(rest), NEW j \in 1 .. Len(rest), i < j
               PROVE  rest[i] < rest[j]
    BY DEF Increasing
  <2>1. i + 1 \in 1 .. Len(queue) /\ j + 1 \in 1 .. Len(queue) /\ i + 1 < j + 1
    BY <1>2
  <2>2. queue[i + 1] < queue[j + 1]
    BY <2>1 DEF CameInOrder, Increasing
  <2> QED
    BY <1>2, <2>2
<1>5. \A i \in 1 .. Len(more) : more[i] <= came
  BY <1>1 DEF CameInOrder
<1>6. \A i \in 1 .. Len(rest) : rest[i] <= came
  BY <1>2 DEF CameInOrder
<1>7. ASSUME NEW i \in 1 .. Len(more), NEW j \in 1 .. Len(rest)
      PROVE  more[i] < rest[j]
  <2>1. j + 1 \in 1 .. Len(queue) /\ 1 \in 1 .. Len(queue) /\ 1 < j + 1 /\ rest[j] = queue[j + 1]
    BY <1>2
  <2>2. queue[1] < rest[j]
    BY <2>1 DEF CameInOrder, Increasing
  <2>3. CASE i \in 1 .. Len(kept)
    BY <2>1, <2>3 DEF CameInOrder
  <2>4. CASE i = Len(kept) + 1
    BY <2>2, <2>4
  <2> QED
    BY <2>3, <2>4
<1>8. AllCame(kept, queue, came) => AllCame(more, rest, came)
  <2> SUFFICES ASSUME AllCame(kept, queue, came) PROVE AllCame(more, rest, came)
    OBVIOUS
  <2>1. \A i \in 1 .. Len(more) : more[i] = i
    BY <1>1 DEF AllCame
  <2>2. \A j \in 1 .. Len(rest) : rest[j] = Len(more) + j
    BY <1>2 DEF AllCame
  <2>3. Len(more) + Len(rest) = Len(kept) + Len(queue)
    OBVIOUS
  <2>4. Len(more) + Len(rest) = came
    BY <2>3 DEF AllCame
  <2> QED
    BY <2>1, <2>2, <2>4 DEF AllCame
<1> QED
  BY <1>3, <1>4, <1>5, <1>6, <1>7, <1>8 DEF CameInOrder

\* Taking a reply from the FIFO into the data keeps it too.
LEMMA ReplyStored ==
  ASSUME NEW kept \in Seq(Nat), NEW queue \in Seq(Nat), NEW came \in Nat,
         CameInOrder(kept, queue, came), queue # <<>>
  PROVE  /\ Append(kept, Head(queue)) \in Seq(Nat) /\ Tail(queue) \in Seq(Nat)
         /\ Len(Tail(queue)) = Len(queue) - 1
         /\ CameInOrder(Append(kept, Head(queue)), Tail(queue), came)
         /\ AllCame(kept, queue, came) => AllCame(Append(kept, Head(queue)), Tail(queue), came)
<1>1. PICK more, rest : more = Append(kept, Head(queue)) /\ rest = Tail(queue)
  OBVIOUS
<1>2. /\ Head(queue) = queue[1] /\ Head(queue) \in Nat
      /\ rest \in Seq(Nat) /\ Len(rest) = Len(queue) - 1
      /\ \A i \in 1 .. Len(rest) : rest[i] = queue[i + 1]
      /\ Len(queue) \in Nat \ {0}
  BY <1>1, HeadTailProperties, EmptySeq
<1>3. /\ more \in Seq(Nat) /\ Len(more) = Len(kept) + 1 /\ Len(kept) \in Nat
      /\ \A i \in 1 .. Len(kept) : more[i] = kept[i]
      /\ more[Len(kept) + 1] = queue[1]
  BY <1>1, <1>2, AppendProperties, LenProperties
<1>4. /\ \A i \in 1 .. Len(kept) : kept[i] \in Nat
      /\ \A i \in 1 .. Len(queue) : queue[i] \in Nat
  BY ElementOfSeq
<1>5. /\ CameInOrder(more, rest, came)
      /\ AllCame(kept, queue, came) => AllCame(more, rest, came)
  BY <1>2, <1>3, <1>4, MoreInOrder
<1> QED
  BY <1>1, <1>2, <1>3, <1>5

\* Every step of the transfer and of the hardware keeps the frames and their replies.
LEMMA SspStep == SspInv /\ [SspNext]_ssp_vars => SspInv'
<1> SUFFICES ASSUME SspInv, [SspNext]_ssp_vars PROVE SspInv'
  OBVIOUS
<1> USE SspSizes
<1>1. /\ SspTypeOK /\ SspSequences /\ FramesInOrder /\ BetweenTransfers
      /\ CameInOrder(data_in, rx_fifo, Came)
      /\ ~rx_overrun => AllCame(data_in, rx_fifo, Came)
  BY DEF SspInv
<1>2. /\ Len(tx_fifo) \in Nat /\ Len(shift) \in Nat /\ Len(rx_fifo) \in Nat
      /\ ssp_count \in Nat /\ ssp_size \in Nat /\ Came \in Nat
  BY <1>1, LenProperties DEF SspTypeOK, SspSequences, FramesInOrder
<1>3. CASE spi_transfer_bytes
  <2>1. tx_fifo = <<>> /\ shift = <<>> /\ rx_fifo = <<>>
    BY <1>1, <1>3 DEF spi_transfer_bytes, BetweenTransfers
  <2>2. /\ tx_fifo' = <<>> /\ shift' = <<>> /\ rx_fifo' = <<>> /\ data_in' = <<>>
        /\ ssp_count' = 0 /\ ssp_size' \in FrameCounts /\ ssp_pc' = "fill" /\ rx_overrun' = FALSE
    BY <1>3, <2>1 DEF spi_transfer_bytes
  <2>3. Len(tx_fifo') = 0 /\ Len(shift') = 0 /\ Len(rx_fifo') = 0 /\ Len(data_in') = 0
    BY <2>2
  <2>4. ssp_count' = 0
    BY <2>2
  <2>5. Came' = 0
    BY <2>3, <2>4 DEF Came
  <2>6. FramesInOrder' /\ CameInOrder(data_in', rx_fifo', Came') /\ AllCame(data_in', rx_fifo', Came')
    BY <2>3, <2>5 DEF FramesInOrder, CameInOrder, AllCame, Increasing
  <2>7. SspSequences'
    BY <2>2, EmptySeq DEF SspSequences
  <2>8. SspTypeOK'
    <3>1. ssp_pc' = "fill" /\ rx_overrun' = FALSE /\ ssp_size' \in FrameCounts
      BY <2>2
    <3>2. ssp_count' \in 0 .. ssp_size' /\ ssp_size' \in FrameCounts \cup {0}
      BY <2>4, <3>1
    <3>3. Len(tx_fifo') <= FifoSize /\ Len(shift') <= 1 /\ Len(rx_fifo') <= FifoSize
      BY <2>3
    <3> QED
      BY <3>1, <3>2, <3>3 DEF SspTypeOK
  <2>9. BetweenTransfers'
    BY <2>2 DEF BetweenTransfers
  <2> QED
    BY <2>6, <2>7, <2>8, <2>9 DEF SspInv
<1>4. CASE FillTx
  <2>1. CASE CanFill
    <3>1. /\ tx_fifo' = Append(tx_fifo, ssp_count + 1) /\ ssp_count' = ssp_count + 1
          /\ ssp_count < ssp_size /\ Len(tx_fifo) < FifoSize /\ ssp_pc = "fill"
          /\ UNCHANGED <<ssp_pc, ssp_size, shift, rx_fifo, data_in, rx_overrun>>
      BY <1>4, <2>1 DEF FillTx, CanFill, TxNotFull
    <3>2. /\ tx_fifo' \in Seq(Nat) /\ Len(tx_fifo') = Len(tx_fifo) + 1
          /\ \A i \in 1 .. Len(tx_fifo) : tx_fifo'[i] = tx_fifo[i]
          /\ tx_fifo'[Len(tx_fifo) + 1] = ssp_count + 1
      BY <1>1, <1>2, <3>1, AppendProperties DEF SspSequences
    <3>3. Came' = Came
      BY <1>2, <3>1, <3>2 DEF Came
    <3>4. FramesInOrder'
      BY <1>1, <1>2, <3>1, <3>2, <3>3 DEF FramesInOrder
    <3>5. SspTypeOK' /\ SspSequences' /\ BetweenTransfers'
      BY <1>1, <1>2, <3>1, <3>2 DEF SspTypeOK, SspSequences, BetweenTransfers
    <3> QED
      BY <1>1, <3>1, <3>3, <3>4, <3>5 DEF SspInv
  <2>2. CASE ~CanFill
    <3>1. /\ ssp_pc' = "read"
          /\ UNCHANGED <<tx_fifo, ssp_count, ssp_size, shift, rx_fifo, data_in, rx_overrun>>
      BY <1>4, <2>2 DEF FillTx
    <3> QED
      BY <1>1, <3>1 DEF SspInv, SspTypeOK, SspSequences, FramesInOrder, Came, BetweenTransfers
  <2> QED
    BY <2>1, <2>2
<1>5. CASE ReadReply
  <2>1. CASE MustRead
    <3>1. /\ data_in' = Append(data_in, Head(rx_fifo)) /\ rx_fifo' = Tail(rx_fifo)
          /\ UNCHANGED <<ssp_pc, ssp_size, ssp_count, tx_fifo, shift, rx_overrun>>
          /\ ssp_pc = "read"
      BY <1>5, <2>1 DEF ReadReply
    <3>2. rx_fifo # <<>>
      BY <1>1, <2>1 DEF MustRead, RxFull
    <3>3. /\ data_in' \in Seq(Nat) /\ rx_fifo' \in Seq(Nat) /\ Len(rx_fifo') = Len(rx_fifo) - 1
          /\ CameInOrder(data_in', rx_fifo', Came)
          /\ AllCame(data_in, rx_fifo, Came) => AllCame(data_in', rx_fifo', Came)
      BY <1>1, <1>2, <3>1, <3>2, ReplyStored DEF SspSequences
    <3>4. Came' = Came
      BY <3>1 DEF Came
    <3> QED
      BY <1>1, <1>2, <3>1, <3>3, <3>4
      DEF SspInv, SspTypeOK, SspSequences, FramesInOrder, BetweenTransfers
  <2>2. CASE ~MustRead
    <3>1. /\ ssp_pc' = IF GoOn THEN "fill" ELSE "idle"
          /\ UNCHANGED <<data_in, rx_fifo, ssp_size, ssp_count, tx_fifo, shift, rx_overrun>>
      BY <1>5, <2>2 DEF ReadReply
    <3>2. SspTypeOK' /\ BetweenTransfers'
      BY <1>1, <1>2, <3>1 DEF GoOn, Busy, SspTypeOK, BetweenTransfers
    <3> QED
      BY <1>1, <3>1, <3>2 DEF SspInv, SspSequences, FramesInOrder, Came
  <2> QED
    BY <2>1, <2>2
<1>6. CASE FrameStarts
  <2>1. /\ shift = <<>> /\ tx_fifo # <<>> /\ shift' = <<Head(tx_fifo)>> /\ tx_fifo' = Tail(tx_fifo)
        /\ UNCHANGED <<ssp_pc, ssp_size, ssp_count, rx_fifo, data_in, rx_overrun>>
    BY <1>6 DEF FrameStarts
  <2>2. /\ Head(tx_fifo) = tx_fifo[1] /\ tx_fifo[1] \in Nat /\ tx_fifo' \in Seq(Nat)
        /\ Len(tx_fifo') = Len(tx_fifo) - 1 /\ Len(tx_fifo) \in Nat \ {0}
        /\ \A i \in 1 .. Len(tx_fifo') : tx_fifo'[i] = tx_fifo[i + 1]
    BY <1>1, <2>1, HeadTailProperties, EmptySeq DEF SspSequences
  <2>3. shift' \in Seq(Nat) /\ Len(shift') = 1 /\ shift'[1] = tx_fifo[1] /\ Len(shift) = 0
    BY <2>1, <2>2
  <2>4. Came' = Came
    BY <1>2, <2>1, <2>2, <2>3 DEF Came
  <2>5. FramesInOrder'
    BY <1>1, <1>2, <2>1, <2>2, <2>3, <2>4 DEF FramesInOrder
  <2>6. SspTypeOK' /\ SspSequences' /\ BetweenTransfers'
    BY <1>1, <1>2, <2>1, <2>2, <2>3 DEF SspTypeOK, SspSequences, BetweenTransfers
  <2> QED
    BY <1>1, <2>1, <2>4, <2>5, <2>6 DEF SspInv
<1>7. CASE FrameEnds
  <2>1. /\ shift # <<>> /\ shift' = <<>>
        /\ UNCHANGED <<ssp_pc, ssp_size, ssp_count, tx_fifo, data_in>>
    BY <1>7 DEF FrameEnds
  <2>2. Len(shift) = 1 /\ Len(shift') = 0 /\ shift \in Seq(Nat)
    <3>1. shift \in Seq(Nat) /\ Len(shift) <= 1
      BY <1>1 DEF SspTypeOK, SspSequences
    <3>2. Len(shift) \in Nat \ {0}
      BY <2>1, <3>1, EmptySeq
    <3>3. Len(shift') = 0
      BY <2>1
    <3>4. Len(shift) = 1
      BY <3>1, <3>2
    <3> QED
      BY <3>1, <3>3, <3>4
  <2>3. Came' = Came + 1 /\ shift[1] = Came + 1
    BY <1>1, <1>2, <2>1, <2>2 DEF Came, FramesInOrder
  <2>4. shift = <<Came + 1>>
    BY <2>2, <2>3
  <2>5. FramesInOrder'
    BY <1>1, <1>2, <2>1, <2>2, <2>3 DEF FramesInOrder
  <2>6. ssp_pc # "idle"
    BY <1>1, <2>1 DEF BetweenTransfers
  <2>7. CASE RxFull
    <3>1. rx_overrun' = TRUE /\ rx_fifo' = rx_fifo
      BY <1>7, <2>7 DEF FrameEnds
    <3>2. CameInOrder(data_in', rx_fifo', Came')
      <4>1. /\ \A i \in 1 .. Len(data_in) : data_in[i] \in Nat
            /\ \A i \in 1 .. Len(rx_fifo) : rx_fifo[i] \in Nat
        BY <1>1, ElementOfSeq DEF SspSequences
      <4> QED
        BY <1>1, <1>2, <2>1, <2>3, <3>1, <4>1 DEF CameInOrder
    <3> QED
      BY <1>1, <2>1, <2>2, <2>5, <2>6, <3>1, <3>2
      DEF SspInv, SspTypeOK, SspSequences, BetweenTransfers
  <2>8. CASE ~RxFull
    <3>1. rx_overrun' = rx_overrun /\ rx_fifo' = rx_fifo \o <<Came + 1>>
      BY <1>7, <2>4, <2>8 DEF FrameEnds
    <3>2. /\ rx_fifo' \in Seq(Nat) /\ Len(rx_fifo') = Len(rx_fifo) + 1
          /\ CameInOrder(data_in, rx_fifo', Came + 1)
          /\ AllCame(data_in, rx_fifo, Came) => AllCame(data_in, rx_fifo', Came + 1)
      BY <1>1, <1>2, <3>1, ReplyComes DEF SspSequences
    <3>3. Len(rx_fifo') <= FifoSize
      BY <1>1, <1>2, <2>8, <3>2 DEF RxFull, SspTypeOK
    <3> QED
      BY <1>1, <2>1, <2>2, <2>3, <2>5, <2>6, <3>1, <3>2, <3>3
      DEF SspInv, SspTypeOK, SspSequences, BetweenTransfers
  <2> QED
    BY <2>7, <2>8
<1>8. CASE UNCHANGED ssp_vars
  BY <1>1, <1>8
  DEF ssp_vars, SspInv, SspTypeOK, SspSequences, FramesInOrder, BetweenTransfers, Came
<1> QED
  BY <1>3, <1>4, <1>5, <1>6, <1>7, <1>8 DEF SspNext, SspLoop

\* For FIFOs of any size and transfers of any length, however the hardware moves
\* between two steps of the loop, the replies are stored in the order of their frames,
\* and all of them unless one was lost to a full FIFO.
THEOREM RepliesCorrect == SspSpec => []RepliesInOrder
<1>1. SspInit => SspInv
  <2> SUFFICES ASSUME SspInit PROVE SspInv
    OBVIOUS
  <2>1. Len(tx_fifo) = 0 /\ Len(shift) = 0 /\ Len(rx_fifo) = 0 /\ Len(data_in) = 0
    BY DEF SspInit
  <2>2. ssp_count = 0 /\ ssp_size = 0
    BY DEF SspInit
  <2>3. Came = 0
    BY <2>1, <2>2 DEF Came
  <2>4. FramesInOrder /\ CameInOrder(data_in, rx_fifo, Came) /\ AllCame(data_in, rx_fifo, Came)
    BY <2>1, <2>3 DEF FramesInOrder, CameInOrder, AllCame, Increasing
  <2>5. SspSequences
    BY EmptySeq DEF SspInit, SspSequences
  <2>6. SspTypeOK
    <3>1. ssp_pc = "idle" /\ rx_overrun = FALSE
      BY DEF SspInit
    <3>2. ssp_count \in 0 .. ssp_size /\ ssp_size \in FrameCounts \cup {0}
      BY <2>2
    <3>3. Len(tx_fifo) <= FifoSize /\ Len(shift) <= 1 /\ Len(rx_fifo) <= FifoSize
      BY <2>1, SspSizes
    <3> QED
      BY <3>1, <3>2, <3>3 DEF SspTypeOK
  <2>7. BetweenTransfers
    BY DEF SspInit, BetweenTransfers
  <2> QED
    BY <2>4, <2>5, <2>6, <2>7 DEF SspInv
<1>2. SspInv => RepliesInOrder
  <2> SUFFICES ASSUME SspInv PROVE RepliesInOrder
    OBVIOUS
  <2>1. data_in \in Seq(Nat) /\ Increasing(data_in)
    BY DEF SspInv, SspSequences, CameInOrder
  <2>2. DOMAIN data_in = 1 .. Len(data_in)
    BY <2>1, LenProperties
  <2>3. ASSUME ssp_pc = "idle", ~rx_overrun
        PROVE  data_in = [i \in 1 .. ssp_size |-> i]
    <3>1. Came = ssp_size /\ Len(rx_fifo) = 0 /\ ssp_size \in Nat
      BY <2>3, SspSizes DEF SspInv, BetweenTransfers, Came, SspTypeOK
    <3>2. Len(data_in) = ssp_size /\ \A i \in 1 .. ssp_size : data_in[i] = i
      BY <2>1, <2>3, <3>1, LenProperties DEF SspInv, AllCame
    <3> QED
      BY <2>1, <3>2
  <2> QED
    BY <2>1, <2>2, <2>3 DEF RepliesInOrder, Increasing
<1> QED
  BY <1>1, <1>2, SspStep, PTL DEF SspSpec

----------------------------------------------------------------------------
(* Systick.  The ticks a registered callback has seen and those it is to   *)
(* see make its period; the slot that is being filled is nobody's.  And a  *)
(* main loop that sleeps has its timer running, and its own count of ticks *)
(* is the one the interrupt counts down.                                   *)

CallbackSlots ==
    [callback: TickCallbacks \cup {NoCallback}, period: TickPeriods \cup {0},
     countdown: 0 .. CountdownWidth - 1]

\* A slot whose callback was called by the last tick, and one that was not, ticks ago.
JustCalled(cb, ticks) == ticks = cb.period /\ cb.countdown = cb.period
CountsDown(cb, ticks) == cb.countdown \in 1 .. cb.period /\ ticks + cb.countdown = cb.period

RegisteredInTime ==
    \A i \in slots : since[i] # -1 =>
        /\ cbs[i].callback # NoCallback /\ cbs[i].period \in TickPeriods
        /\ IF i \in called THEN JustCalled(cbs[i], since[i]) ELSE CountsDown(cbs[i], since[i])

FillsFreeSlot ==
    adding.step # "none" =>
        /\ adding.slot \in slots /\ adding.period \in TickPeriods
        /\ since[adding.slot] = -1
        /\ adding.step = "countdown" => cbs[adding.slot].period = adding.period

CallsTypeOK ==
    /\ cbs \in [slots -> CallbackSlots]
    /\ adding \in [slot: slots \cup {0}, period: TickPeriods \cup {0},
                   step: {"none", "period", "countdown"}]
    /\ since \in [slots -> Nat \cup {-1}] /\ called \subseteq slots

CallsInv == CallsTypeOK /\ RegisteredInTime /\ FillsFreeSlot

\* The first of a set of slots is one of them.
LEMMA FirstIsOne ==
  ASSUME NEW S, S \subseteq Nat, S # {}
  PROVE  FirstOf(S) \in S
<1>1. PICK x \in S : \A y \in S : x <= y
  BY LeastNat
<1> QED
  BY <1>1 DEF FirstOf

\* The countdown of a slot: its width matters only at 0, where the period is loaded.
LEMMA CountedIs ==
  ASSUME NEW cb \in CallbackSlots
  PROVE  /\ Counted(cb) \in CallbackSlots
         /\ [Counted(cb) EXCEPT !.callback = NoCallback] \in CallbackSlots
         /\ Counted(cb).callback = cb.callback /\ Counted(cb).period = cb.period
         /\ [Counted(cb) EXCEPT !.callback = NoCallback].period = cb.period
         /\ cb.countdown = 1 => Counted(cb).countdown = cb.period
         /\ cb.countdown > 1 => Counted(cb).countdown = cb.countdown - 1
<1>1. /\ cb.callback \in TickCallbacks \cup {NoCallback} /\ cb.period \in TickPeriods \cup {0}
      /\ cb.countdown \in 0 .. CountdownWidth - 1 /\ CountdownWidth \in Nat \ {0}
      /\ TickPeriods \cup {0} \subseteq 0 .. CountdownWidth - 1
  BY SystickSizes DEF CallbackSlots
<1>2. PICK down : down = (cb.countdown + CountdownWidth - 1) % CountdownWidth
  OBVIOUS
<1>3. down \in 0 .. CountdownWidth - 1
  <2>1. cb.countdown + CountdownWidth - 1 \in Int
    BY <1>1
  <2> QED
    BY <1>1, <1>2, <2>1, DivMod
<1>4. cb.countdown >= 1 => down = cb.countdown - 1
  <2> SUFFICES ASSUME cb.countdown >= 1 PROVE down = cb.countdown - 1
    OBVIOUS
  <2>1. cb.countdown - 1 \in 0 .. CountdownWidth - 1
    BY <1>1
  <2>2. PICK R \in Nat \ {0} : R = CountdownWidth
    BY <1>1
  <2>3. PICK r \in 0 .. R - 1 : r = cb.countdown - 1
    BY <2>1, <2>2
  <2>4. (R * 1 + r) % R = r
    BY ModUnique
  <2>5. R * 1 + r = cb.countdown + CountdownWidth - 1
    BY <1>1, <2>2, <2>3
  <2> QED
    BY <1>2, <2>2, <2>3, <2>4, <2>5
<1>5. Counted(cb) = [cb EXCEPT !.countdown = IF down = 0 THEN cb.period ELSE down]
  BY <1>2 DEF Counted
<1>6. Counted(cb) \in CallbackSlots
  BY <1>1, <1>3, <1>5 DEF CallbackSlots
<1>7. /\ Counted(cb).callback = cb.callback /\ Counted(cb).period = cb.period
      /\ Counted(cb).countdown = IF down = 0 THEN cb.period ELSE down
  BY <1>5 DEF CallbackSlots
<1>8. /\ [Counted(cb) EXCEPT !.callback = NoCallback] \in CallbackSlots
      /\ [Counted(cb) EXCEPT !.callback = NoCallback].period = cb.period
  BY <1>6, <1>7 DEF CallbackSlots
<1> QED
  BY <1>1, <1>4, <1>6, <1>7, <1>8

\* A tick, for every slot that is registered before and after it.
LEMMA TickInTime ==
  ASSUME NEW cb \in CallbackSlots, cb.period \in TickPeriods, NEW ticks \in Nat
  PROVE  /\ JustCalled(cb, ticks) /\ cb.countdown = 1 => JustCalled(Counted(cb), 1)
         /\ JustCalled(cb, ticks) /\ cb.countdown # 1 => CountsDown(Counted(cb), 1)
         /\ CountsDown(cb, ticks) /\ cb.countdown = 1 => JustCalled(Counted(cb), ticks + 1)
         /\ CountsDown(cb, ticks) /\ cb.countdown # 1 => CountsDown(Counted(cb), ticks + 1)
<1>1. cb.period \in Nat /\ cb.period >= 1 /\ cb.countdown \in Nat
  <2>1. cb.period \in 1 .. CountdownWidth - 1 /\ CountdownWidth \in Nat
    BY SystickSizes
  <2>2. cb.countdown \in 0 .. CountdownWidth - 1
    BY DEF CallbackSlots
  <2> QED
    BY <2>1, <2>2
<1>2. /\ Counted(cb).period = cb.period
      /\ cb.countdown = 1 => Counted(cb).countdown = cb.period
      /\ cb.countdown > 1 => Counted(cb).countdown = cb.countdown - 1
  BY CountedIs
<1> QED
  BY <1>1, <1>2 DEF JustCalled, CountsDown

\* Every tick and every step of the main loop keeps the callbacks in time.
LEMMA CallsStep == CallsInv /\ [SystickNext]_systick_vars => CallsInv'
<1> SUFFICES ASSUME CallsInv, [SystickNext]_systick_vars PROVE CallsInv'
  OBVIOUS
<1>1. /\ CallsTypeOK /\ RegisteredInTime /\ FillsFreeSlot
      /\ cbs \in [slots -> CallbackSlots] /\ since \in [slots -> Nat \cup {-1}]
      /\ called \subseteq slots
      /\ adding \in [slot: slots \cup {0}, period: TickPeriods \cup {0},
                     step: {"none", "period", "countdown"}]
  BY DEF CallsInv, CallsTypeOK
<1>2. \A i \in slots : cbs[i] \in CallbackSlots
  BY <1>1
<1>3. CASE SysTick_Handler
  <2>1. called' = CallsAtThisTick /\ adding' = adding
    BY <1>3 DEF SysTick_Handler
  <2>2. PICK removed \in {0} \cup {FirstOf(SlotsOf(cbs[i].callback)) : i \in called'} :
          /\ cbs' = [i \in slots |->
                       IF cbs[i].callback = NoCallback THEN cbs[i]
                       ELSE IF i = removed THEN [Counted(cbs[i]) EXCEPT !.callback = NoCallback]
                       ELSE Counted(cbs[i])]
          /\ since' = [i \in slots |->
                         IF i = removed \/ since[i] = -1 THEN -1
                         ELSE IF i \in called THEN 1 ELSE since[i] + 1]
    BY <1>3 DEF SysTick_Handler
  <2>3. ASSUME NEW i \in slots
        PROVE  /\ cbs'[i] \in CallbackSlots /\ cbs'[i].period = cbs[i].period
               /\ since'[i] \in Nat \cup {-1} /\ (since[i] = -1 => since'[i] = -1)
    BY <1>1, <1>2, <2>2, CountedIs
  <2>4. CallsTypeOK'
    BY <1>1, <2>1, <2>2, <2>3 DEF CallsTypeOK, CallsAtThisTick
  <2>5. RegisteredInTime'
    <3> SUFFICES ASSUME NEW i \in slots, since'[i] # -1
                 PROVE  /\ cbs'[i].callback # NoCallback /\ cbs'[i].period \in TickPeriods
                        /\ i \in called' => JustCalled(cbs'[i], since'[i])
                        /\ i \notin called' => CountsDown(cbs'[i], since'[i])
      BY DEF RegisteredInTime
    <3>1. i # removed /\ since[i] # -1 /\ since[i] \in Nat
      BY <1>1, <2>2
    <3>2. since'[i] = IF i \in called THEN 1 ELSE since[i] + 1
      BY <2>2, <3>1
    <3>3. /\ cbs[i].callback # NoCallback /\ cbs[i].period \in TickPeriods
          /\ i \in called => JustCalled(cbs[i], since[i])
          /\ i \notin called => CountsDown(cbs[i], since[i])
      BY <1>1, <3>1 DEF RegisteredInTime
    <3>4. cbs'[i] = Counted(cbs[i])
      BY <2>2, <3>1, <3>3
    <3>5. i \in called' <=> cbs[i].countdown = 1
      BY <2>1, <3>3 DEF CallsAtThisTick
    <3>6. cbs'[i].callback # NoCallback /\ cbs'[i].period \in TickPeriods
      BY <1>2, <3>3, <3>4, CountedIs
    <3>7. PICK cb \in CallbackSlots, ticks \in Nat : cb = cbs[i] /\ ticks = since[i]
      BY <1>2, <3>1
    <3>8. CASE i \in called
      BY <3>2, <3>3, <3>4, <3>5, <3>6, <3>7, <3>8, TickInTime
    <3>9. CASE i \notin called
      BY <3>2, <3>3, <3>4, <3>5, <3>6, <3>7, <3>9, TickInTime
    <3> QED
      BY <3>8, <3>9
  <2>6. FillsFreeSlot'
    BY <1>1, <2>1, <2>3 DEF FillsFreeSlot
  <2> QED
    BY <2>4, <2>5, <2>6 DEF CallsInv
<1>4. CASE BeginAdd
  <2>1. adding = NotAdding /\ SlotsOf(NoCallback) # {} /\ UNCHANGED <<since, called>>
    BY <1>4 DEF BeginAdd, Free
  <2>2. PICK i : i = FirstOf(SlotsOf(NoCallback))
    OBVIOUS
  <2>3. PICK callback \in TickCallbacks, period \in TickPeriods :
          /\ cbs' = [cbs EXCEPT ![i].callback = callback]
          /\ adding' = [slot |-> i, period |-> period, step |-> "period"]
    BY <1>4, <2>2 DEF BeginAdd
  <2>4. i \in slots /\ cbs[i].callback = NoCallback
    <3>1. SlotsOf(NoCallback) \subseteq slots /\ slots \subseteq Nat
      BY SystickSizes DEF SlotsOf, slots
    <3>2. i \in SlotsOf(NoCallback)
      BY <2>1, <2>2, <3>1, FirstIsOne
    <3> QED
      BY <3>2 DEF SlotsOf
  <2>5. since[i] = -1
    BY <1>1, <2>4 DEF RegisteredInTime
  <2>6. cbs' \in [slots -> CallbackSlots]
    <3>1. [cbs[i] EXCEPT !.callback = callback] \in CallbackSlots
      BY <1>2, <2>3, <2>4 DEF CallbackSlots
    <3> QED
      BY <1>1, <2>3, <2>4, <3>1
  <2>7. \A j \in slots : j # i => cbs'[j] = cbs[j]
    BY <1>1, <2>3
  <2>8. CallsTypeOK'
    BY <1>1, <2>1, <2>3, <2>4, <2>6 DEF CallsTypeOK
  <2>9. RegisteredInTime'
    BY <1>1, <2>1, <2>5, <2>7 DEF RegisteredInTime
  <2>10. FillsFreeSlot'
    BY <2>1, <2>3, <2>4, <2>5 DEF FillsFreeSlot
  <2> QED
    BY <2>8, <2>9, <2>10 DEF CallsInv
<1>5. CASE SetPeriod
  <2>1. /\ adding.step = "period" /\ UNCHANGED <<since, called>>
        /\ cbs' = [cbs EXCEPT ![adding.slot].period = adding.period]
        /\ adding' = [adding EXCEPT !.step = "countdown"]
    BY <1>5 DEF SetPeriod
  <2>2. /\ adding.slot \in slots /\ adding.period \in TickPeriods
        /\ since[adding.slot] = -1
    BY <1>1, <2>1 DEF FillsFreeSlot
  <2>3. adding'.slot = adding.slot /\ adding'.period = adding.period /\ adding'.step = "countdown"
    BY <1>1, <2>1
  <2>4. /\ [cbs[adding.slot] EXCEPT !.period = adding.period] \in CallbackSlots
        /\ [cbs[adding.slot] EXCEPT !.period = adding.period].period = adding.period
    BY <1>2, <2>2 DEF CallbackSlots
  <2>5. cbs' \in [slots -> CallbackSlots] /\ cbs'[adding.slot].period = adding.period
    BY <1>1, <2>1, <2>2, <2>4
  <2>6. \A j \in slots : j # adding.slot => cbs'[j] = cbs[j]
    BY <1>1, <2>1
  <2>7. adding' \in [slot: slots \cup {0}, period: TickPeriods \cup {0},
                     step: {"none", "period", "countdown"}]
    BY <1>1, <2>1
  <2>8. CallsTypeOK'
    BY <1>1, <2>1, <2>5, <2>7 DEF CallsTypeOK
  <2>9. RegisteredInTime'
    BY <1>1, <2>1, <2>2, <2>6 DEF RegisteredInTime
  <2>10. FillsFreeSlot'
    BY <2>1, <2>2, <2>3, <2>5 DEF FillsFreeSlot
  <2> QED
    BY <2>8, <2>9, <2>10 DEF CallsInv
<1>6. CASE SetCountdown
  <2>1. /\ adding.step = "countdown" /\ adding' = NotAdding
        /\ cbs' = [cbs EXCEPT ![adding.slot].countdown = adding.period]
        /\ since' = [since EXCEPT ![adding.slot] =
                       IF cbs[adding.slot].callback = NoCallback THEN -1 ELSE 0]
        /\ called' = called \ {adding.slot}
    BY <1>6 DEF SetCountdown
  <2>2. PICK i \in slots, period \in TickPeriods :
          i = adding.slot /\ period = adding.period /\ cbs[i].period = period
    BY <1>1, <2>1 DEF FillsFreeSlot
  <2>3. period \in 1 .. CountdownWidth - 1
    BY SystickSizes
  <2>4. PICK cb : cb = [cbs[i] EXCEPT !.countdown = period]
    OBVIOUS
  <2>5. /\ cb \in CallbackSlots /\ cb.period = period /\ cb.countdown = period
        /\ cb.callback = cbs[i].callback
    BY <1>2, <2>2, <2>3, <2>4 DEF CallbackSlots
  <2>6. cbs'[i] = cb /\ cbs' \in [slots -> CallbackSlots]
    BY <1>1, <2>1, <2>2, <2>4, <2>5
  <2>7. \A j \in slots : j # i => cbs'[j] = cbs[j] /\ since'[j] = since[j]
                                   /\ (j \in called' <=> j \in called)
    BY <1>1, <2>1, <2>2
  <2>8. since'[i] = IF cb.callback = NoCallback THEN -1 ELSE 0
    BY <1>1, <2>1, <2>2, <2>5
  <2>9. since' \in [slots -> Nat \cup {-1}] /\ i \notin called'
    BY <1>1, <2>1, <2>2
  <2>10. CountsDown(cb, 0)
    BY <2>3, <2>5 DEF CountsDown
  <2>11. CallsTypeOK'
    BY <1>1, <2>1, <2>6, <2>9 DEF CallsTypeOK, NotAdding
  <2>12. RegisteredInTime'
    BY <1>1, <2>2, <2>5, <2>6, <2>7, <2>8, <2>9, <2>10 DEF RegisteredInTime
  <2>13. FillsFreeSlot'
    BY <2>1 DEF FillsFreeSlot, NotAdding
  <2> QED
    BY <2>11, <2>12, <2>13 DEF CallsInv
<1>7. CASE remove_systick_callback
  <2>1. PICK i : /\ cbs' = [cbs EXCEPT ![i].callback = NoCallback]
                 /\ since' = [since EXCEPT ![i] = -1] /\ called' = called \ {i}
    BY <1>7 DEF remove_systick_callback
  <2>2. adding = NotAdding /\ adding' = adding
    BY <1>7 DEF remove_systick_callback, Free
  <2>3. cbs' \in [slots -> CallbackSlots]
    <3>1. i \in slots => [cbs[i] EXCEPT !.callback = NoCallback] \in CallbackSlots
      BY <1>2 DEF CallbackSlots
    <3> QED
      BY <1>1, <2>1, <3>1
  <2>4. \A j \in slots : j # i => cbs'[j] = cbs[j] /\ since'[j] = since[j]
                                   /\ (j \in called' <=> j \in called)
    BY <1>1, <2>1
  <2>5. since' \in [slots -> Nat \cup {-1}] /\ (i \in slots => since'[i] = -1)
    BY <1>1, <2>1
  <2>6. CallsTypeOK'
    BY <1>1, <2>1, <2>2, <2>3, <2>5 DEF CallsTypeOK
  <2>7. RegisteredInTime'
    BY <1>1, <2>4, <2>5 DEF RegisteredInTime
  <2>8. FillsFreeSlot'
    BY <2>2 DEF FillsFreeSlot, NotAdding
  <2> QED
    BY <2>6, <2>7, <2>8 DEF CallsInv
<1>8. CASE UNCHANGED slot_vars
  BY <1>1, <1>8 DEF slot_vars, CallsInv, CallsTypeOK, RegisteredInTime, FillsFreeSlot
<1>9. CASE \/ systick_start \/ systick_stop \/ systick_timer_on \/ systick_timer_off
           \/ msleep \/ StartSleeping \/ Wake \/ UNCHANGED systick_vars
  BY <1>8, <1>9
  DEF systick_start, systick_stop, systick_timer_on, systick_timer_off, msleep, StartSleeping, Wake,
      systick_vars
<1> QED
  BY <1>3, <1>4, <1>5, <1>6, <1>7, <1>9 DEF SystickNext

\* For tables, periods and countdowns of any size, wherever the tick comes while a slot
\* is filled or emptied, a callback is called at each of its periods and only then.
THEOREM CallbacksCorrect == SystickSpec => []CalledEveryPeriod
<1>1. SystickInit => CallsInv
  <2> SUFFICES ASSUME SystickInit PROVE CallsInv
    OBVIOUS
  <2>1. [callback |-> NoCallback, period |-> 0, countdown |-> 0] \in CallbackSlots
    BY SystickSizes DEF CallbackSlots
  <2>2. CallsTypeOK
    BY <2>1 DEF SystickInit, CallsTypeOK, NotAdding
  <2> QED
    BY <2>2 DEF SystickInit, CallsInv, RegisteredInTime, FillsFreeSlot, NotAdding
<1>2. CallsInv => CalledEveryPeriod
  <2> SUFFICES ASSUME CallsInv, NEW i \in slots, since[i] # -1
               PROVE  since[i] <= cbs[i].period /\ (i \in called <=> since[i] = cbs[i].period)
    BY DEF CalledEveryPeriod
  <2>1. /\ cbs[i].period \in Nat /\ since[i] \in Nat
        /\ i \in called => JustCalled(cbs[i], since[i])
        /\ i \notin called => CountsDown(cbs[i], since[i])
    <3>1. since[i] \in Nat /\ cbs[i].period \in TickPeriods
      BY DEF CallsInv, CallsTypeOK, RegisteredInTime
    <3>2. cbs[i].period \in 1 .. CountdownWidth - 1 /\ CountdownWidth \in Nat
      BY <3>1, SystickSizes
    <3> QED
      BY <3>1, <3>2 DEF CallsInv, RegisteredInTime
  <2>2. CASE i \in called
    BY <2>1, <2>2 DEF JustCalled
  <2>3. CASE i \notin called
    BY <2>1, <2>3 DEF CountsDown
  <2> QED
    BY <2>2, <2>3
<1> QED
  BY <1>1, <1>2, CallsStep, PTL DEF SystickSpec

SleepInv ==
    /\ tick_ms \in TickLengths \cup {0} /\ {systick_running, tick_enabled} \subseteq BOOLEAN
    /\ sleep_count \in Nat /\ unslept \in Nat /\ sleeper \in {"awake", "set", "asleep"}
    /\ systick_running = tick_enabled
    /\ sleeper = "asleep" => systick_running
    /\ unslept = IF sleeper = "awake" THEN 0 ELSE sleep_count

\* The quotient of natural numbers.
LEMMA NatDivides ==
  ASSUME NEW a \in Nat, NEW b \in Nat \ {0}
  PROVE  a \div b \in Nat
<1>1. a \in Int
  OBVIOUS
<1>2. PICK q \in Int, r \in 0 .. b - 1 : q = a \div b /\ a = b * q + r
  BY <1>1, DivMod, Zenon
<1>3. ~ (-q >= 1)
  BY <1>2, MulGrows, Z3
<1> QED
  BY <1>2, <1>3

\* Whatever the timer was asked before, for tick lengths of any values, msleep returns
\* when the ticks it asked for have come and not before: the timer it starts is not
\* stopped while it sleeps.
THEOREM SleepCorrect == SystickSpec => []SleepsItsTicks
<1>1. SystickInit => SleepInv
  <2> SUFFICES ASSUME SystickInit PROVE SleepInv
    OBVIOUS
  <2>1. /\ tick_ms = 0 /\ systick_running = FALSE /\ tick_enabled = FALSE
        /\ sleep_count = 0 /\ sleeper = "awake" /\ unslept = 0
    BY DEF SystickInit
  <2> HIDE DEF SystickInit
  <2> QED
    BY <2>1 DEF SleepInv
<1>2. SleepInv /\ [SystickNext]_systick_vars => SleepInv'
  <2> SUFFICES ASSUME SleepInv, [SystickNext]_systick_vars PROVE SleepInv'
    OBVIOUS
  <2> USE SystickSizes
  <2>1. CASE SysTick_Handler
    BY <2>1 DEF SysTick_Handler, SleepInv, timer_vars
  <2>2. CASE UNCHANGED <<timer_vars, sleep_vars>>
    BY <2>2 DEF SleepInv, timer_vars, sleep_vars
  <2>3. CASE systick_start
    BY <2>3 DEF systick_start, Free, Starts, SleepInv, sleep_vars
  <2>4. CASE systick_stop
    BY <2>4 DEF systick_stop, Free, Stops, SleepInv, sleep_vars
  <2>5. CASE systick_timer_on
    BY <2>5 DEF systick_timer_on, Free, Stops, SleepInv, sleep_vars
  <2>6. CASE systick_timer_off
    BY <2>6 DEF systick_timer_off, Free, Stops, SleepInv, sleep_vars
  <2>7. CASE msleep
    <3>1. PICK ms \in SleepTimes : sleep_count' = IF tick_ms = 0 THEN ms ELSE ms \div tick_ms
      BY <2>7 DEF msleep
    <3>2. unslept' = sleep_count' /\ sleeper' = "set"
      BY <2>7 DEF msleep
    <3>3. sleep_count' \in Nat
      <4>1. ms \in Nat /\ tick_ms \in Nat
        BY DEF SleepInv
      <4>2. CASE tick_ms # 0
        BY <3>1, <4>1, <4>2, NatDivides
      <4> QED
        BY <3>1, <4>1, <4>2
    <3>4. /\ tick_ms' \in TickLengths \cup {0} /\ systick_running' = tick_enabled'
          /\ {systick_running', tick_enabled'} \subseteq BOOLEAN
      BY <2>7 DEF msleep, Stops, SleepInv, timer_vars
    <3> QED
      BY <3>2, <3>3, <3>4 DEF SleepInv
  <2>8. CASE StartSleeping
    BY <2>8 DEF StartSleeping, Starts, SleepInv, timer_vars
  <2>9. CASE Wake
    BY <2>9 DEF Wake, SleepInv, timer_vars
  <2>10. CASE BeginAdd \/ SetPeriod \/ SetCountdown \/ remove_systick_callback \/ UNCHANGED systick_vars
    BY <2>2, <2>10 DEF BeginAdd, SetPeriod, SetCountdown, remove_systick_callback, systick_vars
  <2> QED
    BY <2>1, <2>3, <2>4, <2>5, <2>6, <2>7, <2>8, <2>9, <2>10 DEF SystickNext
<1>3. SleepInv => SleepsItsTicks
  BY DEF SleepInv, SleepsItsTicks
<1> QED
  BY <1>1, <1>2, <1>3, PTL DEF SystickSpec

----------------------------------------------------------------------------
(* Serial.  A byte goes from the call to the buffer, from there to the     *)
(* FIFO and to the wire: in this order one behind the other, they stay one *)
(* sequence, to which an echo adds a byte that is not numbered and a call  *)
(* its own at the end.                                                     *)

SerialInv ==
    /\ SerialTypeOK
    /\ uart_pc \in {"copy", "start"} => sending = 0
    /\ uart_pc = "first" => out_length >= 1 /\ (~early => sending = 1)
    /\ request # <<>> => uart_pc \in {"wait", "copy"}
    /\ starts = 0 => /\ uart_pc = "off" /\ sending = 0 /\ asked = 0
                     /\ fifo = <<>> /\ wire = <<>> /\ request = <<>>
    /\ WrittenInOrder

\* A byte that is not numbered disturbs nothing.
LEMMA StrayIsLeft ==
  ASSUME NEW s \in Seq(Nat), NEW t \in Seq(Nat), NEW n \in Nat, OnceInOrder(s \o t, n)
  PROVE  OnceInOrder((s \o <<0>>) \o t, n)
<1>1. <<0>> \in Seq(Nat) /\ Len(<<0>>) = 1 /\ <<0>>[1] = 0
  OBVIOUS
<1>2. PICK u : u = s \o <<0>>
  OBVIOUS
<1>3. PICK k \in Nat, m \in Nat : k = Len(s) /\ m = Len(t)
  BY LenProperties
<1>4. /\ u \in Seq(Nat) /\ Len(u) = k + 1
      /\ \A i \in 1 .. k + 1 : u[i] = IF i <= k THEN s[i] ELSE 0
  <2>1. /\ u \in Seq(Nat) /\ Len(u) = Len(s) + Len(<<0>>)
        /\ \A i \in 1 .. Len(s) + Len(<<0>>) : u[i] = IF i <= Len(s) THEN s[i] ELSE <<0>>[i - Len(s)]
    BY <1>1, <1>2, ConcatProperties
  <2>2. \A i \in 1 .. k + 1 : i <= k \/ i - k = 1
    OBVIOUS
  <2> QED BY <1>1, <1>3, <2>1, <2>2
<1>5. PICK old : old = s \o t
  OBVIOUS
<1>6. /\ old \in Seq(Nat) /\ DOMAIN old = 1 .. k + m
      /\ \A i \in 1 .. k + m : old[i] \in Nat /\ old[i] = IF i <= k THEN s[i] ELSE t[i - k]
  <2>1. /\ old \in Seq(Nat) /\ Len(old) = Len(s) + Len(t)
        /\ \A i \in 1 .. Len(s) + Len(t) : old[i] = IF i <= Len(s) THEN s[i] ELSE t[i - Len(s)]
    BY <1>5, ConcatProperties
  <2> QED BY <1>3, <2>1, LenProperties, ElementOfSeq
<1>7. PICK new : new = u \o t
  OBVIOUS
<1>8. /\ new \in Seq(Nat) /\ DOMAIN new = 1 .. k + m + 1
      /\ \A i \in 1 .. k + m + 1 :
            new[i] = IF i <= k THEN old[i] ELSE IF i = k + 1 THEN 0 ELSE old[i - 1]
  <2>1. /\ new \in Seq(Nat) /\ Len(new) = Len(u) + Len(t)
        /\ \A i \in 1 .. Len(u) + Len(t) : new[i] = IF i <= Len(u) THEN u[i] ELSE t[i - Len(u)]
    BY <1>4, <1>7, ConcatProperties
  <2>2. DOMAIN new = 1 .. k + m + 1
    BY <1>3, <1>4, <2>1, LenProperties
  <2>3. ASSUME NEW i \in 1 .. k + m + 1
        PROVE  new[i] = IF i <= k THEN old[i] ELSE IF i = k + 1 THEN 0 ELSE old[i - 1]
    <3>1. CASE i <= k
      <4>1. i \in 1 .. k + 1 /\ i \in 1 .. k + m
        BY <3>1
      <4> QED BY <1>3, <1>4, <1>6, <2>1, <3>1, <4>1
    <3>2. CASE i = k + 1
      <4>1. i \in 1 .. k + 1 /\ ~(i <= k)
        BY <3>2
      <4> QED BY <1>3, <1>4, <2>1, <3>2, <4>1
    <3>3. CASE i > k + 1
      <4>1. i - 1 \in 1 .. k + m /\ ~(i - 1 <= k) /\ ~(i <= k + 1) /\ i - (k + 1) = (i - 1) - k
        BY <3>3
      <4>2. new[i] = t[i - (k + 1)]
        BY <1>3, <1>4, <2>1, <4>1
      <4> QED BY <1>6, <3>3, <4>1, <4>2
    <3> QED BY <3>1, <3>2, <3>3
  <2> QED BY <2>1, <2>2, <2>3
<1>9. /\ \A j \in 1 .. n : \E i \in 1 .. k + m : old[i] = j
      /\ \A i \in 1 .. k + m : old[i] <= n
      /\ \A i, j \in 1 .. k + m : (i < j /\ old[j] # 0) => old[i] < old[j]
  BY <1>5, <1>6 DEF OnceInOrder
<1>10. ASSUME NEW j \in 1 .. n
       PROVE  \E i \in 1 .. k + m + 1 : new[i] = j
  <2>1. PICK i \in 1 .. k + m : old[i] = j
    BY <1>9
  <2>2. CASE i <= k
    <3>1. i \in 1 .. k + m + 1
      OBVIOUS
    <3> QED BY <1>8, <2>1, <2>2, <3>1
  <2>3. CASE i > k
    <3>1. i + 1 \in 1 .. k + m + 1 /\ ~(i + 1 <= k) /\ i + 1 # k + 1 /\ (i + 1) - 1 = i
      BY <2>3
    <3>2. new[i + 1] = old[i]
      BY <1>8, <3>1
    <3> QED BY <2>1, <3>1, <3>2
  <2> QED BY <2>2, <2>3
<1>11. ASSUME NEW i \in 1 .. k + m + 1
       PROVE  new[i] <= n
  <2>1. CASE i <= k
    <3>1. i \in 1 .. k + m
      BY <2>1
    <3> QED BY <1>8, <1>9, <2>1, <3>1
  <2>2. CASE i = k + 1
    BY <1>8, <2>2
  <2>3. CASE i > k + 1
    <3>1. i - 1 \in 1 .. k + m /\ ~(i <= k) /\ i # k + 1
      BY <2>3
    <3>2. new[i] = old[i - 1]
      BY <1>8, <3>1
    <3> QED BY <1>9, <3>1, <3>2
  <2> QED BY <2>1, <2>2, <2>3
<1>12. ASSUME NEW i \in 1 .. k + m + 1, NEW j \in 1 .. k + m + 1, i < j, new[j] # 0
       PROVE  new[i] < new[j]
  <2>1. PICK j0 \in 1 .. k + m : new[j] = old[j0] /\ j0 = IF j <= k THEN j ELSE j - 1
    <3>1. j # k + 1
      BY <1>8, <1>12
    <3>2. CASE j <= k
      <4>1. j \in 1 .. k + m
        BY <3>2
      <4> QED BY <1>8, <3>2, <4>1
    <3>3. CASE j > k
      <4>1. j - 1 \in 1 .. k + m
        BY <3>1, <3>3
      <4> QED BY <1>8, <3>1, <3>3, <4>1
    <3> QED BY <3>2, <3>3
  <2>2. CASE i = k + 1
    BY <1>6, <1>8, <1>12, <2>1, <2>2
  <2>3. CASE i # k + 1
    <3>1. PICK i0 \in 1 .. k + m : new[i] = old[i0] /\ i0 = IF i <= k THEN i ELSE i - 1
      <4>1. CASE i <= k
        <5>1. i \in 1 .. k + m
          BY <4>1
        <5> QED BY <1>8, <4>1, <5>1
      <4>2. CASE i > k
        <5>1. i - 1 \in 1 .. k + m
          BY <2>3, <4>2
        <5> QED BY <1>8, <2>3, <4>2, <5>1
      <4> QED BY <4>1, <4>2
    <3>2. i0 < j0
      BY <1>8, <1>12, <2>1, <2>3, <3>1
    <3> QED BY <1>9, <1>12, <2>1, <3>1, <3>2
  <2> QED BY <2>2, <2>3
<1>13. new = (s \o <<0>>) \o t
  BY <1>2, <1>7
<1> QED BY <1>8, <1>10, <1>11, <1>12, <1>13 DEF OnceInOrder

\* The bytes of a call come behind all the others.
LEMMA CallJoins ==
  ASSUME NEW s \in Seq(Nat), NEW n \in Nat, OnceInOrder(s, n), NEW more \in Nat,
         NEW call, call = [i \in 1 .. more |-> n + i]
  PROVE  /\ call \in Seq(Nat \ {0}) /\ Len(call) = more
         /\ OnceInOrder(s \o call, n + more)
<1>1. /\ call \in [1 .. more -> Nat] /\ \A i \in 1 .. more : call[i] = n + i
      /\ call \in [1 .. more -> Nat \ {0}]
  OBVIOUS
<1>2. call \in Seq(Nat) /\ call \in Seq(Nat \ {0}) /\ Len(call) = more
  BY <1>1
<1>3. PICK k \in Nat : k = Len(s) /\ DOMAIN s = 1 .. k
  BY LenProperties
<1>4. PICK new : new = s \o call
  OBVIOUS
<1>5. /\ new \in Seq(Nat) /\ DOMAIN new = 1 .. k + more
      /\ \A i \in 1 .. k + more : new[i] = IF i <= k THEN s[i] ELSE call[i - k]
  <2>1. /\ new \in Seq(Nat) /\ Len(new) = Len(s) + Len(call)
        /\ \A i \in 1 .. Len(s) + Len(call) : new[i] = IF i <= Len(s) THEN s[i] ELSE call[i - Len(s)]
    BY <1>2, <1>4, ConcatProperties
  <2> QED BY <1>2, <1>3, <2>1, LenProperties
<1>6. \A i \in 1 .. k : new[i] = s[i] /\ s[i] \in Nat
  <2> TAKE i \in 1 .. k
  <2>1. i \in 1 .. k + more
    OBVIOUS
  <2> QED BY <1>3, <1>5, <2>1, ElementOfSeq
<1>7. \A i \in 1 .. more : new[k + i] = n + i
  <2> TAKE i \in 1 .. more
  <2>1. k + i \in 1 .. k + more /\ ~(k + i <= k) /\ (k + i) - k = i
    OBVIOUS
  <2> QED BY <1>1, <1>5, <2>1
<1>8. \A i \in 1 .. k + more : i \in 1 .. k \/ \E j \in 1 .. more : i = k + j
  <2> SUFFICES ASSUME NEW i \in 1 .. k + more, ~(i \in 1 .. k)
               PROVE  \E j \in 1 .. more : i = k + j
    OBVIOUS
  <2>1. i - k \in 1 .. more /\ i = k + (i - k)
    OBVIOUS
  <2> QED BY <2>1
<1>9. /\ \A j \in 1 .. n : \E i \in 1 .. k : s[i] = j
      /\ \A i \in 1 .. k : s[i] <= n
      /\ \A i, j \in 1 .. k : (i < j /\ s[j] # 0) => s[i] < s[j]
  BY <1>3 DEF OnceInOrder
<1>10. ASSUME NEW j \in 1 .. n + more
       PROVE  \E i \in 1 .. k + more : new[i] = j
  <2>1. CASE j <= n
    <3>1. PICK i \in 1 .. k : s[i] = j
      BY <1>9, <2>1
    <3>2. i \in 1 .. k + more
      OBVIOUS
    <3> QED BY <1>6, <3>1, <3>2
  <2>2. CASE j > n
    <3>1. j - n \in 1 .. more /\ k + (j - n) \in 1 .. k + more /\ n + (j - n) = j
      BY <2>2
    <3> QED BY <1>7, <3>1
  <2> QED BY <2>1, <2>2
<1>11. ASSUME NEW i \in 1 .. k + more
       PROVE  new[i] <= n + more
  <2>1. CASE i \in 1 .. k
    BY <1>6, <1>9, <2>1
  <2>2. ASSUME NEW j \in 1 .. more, i = k + j
        PROVE  new[i] <= n + more
    <3>1. new[i] = n + j
      BY <1>7, <2>2
    <3> QED BY <3>1
  <2> QED BY <1>8, <2>1, <2>2
<1>12. ASSUME NEW i \in 1 .. k + more, NEW j \in 1 .. k + more, i < j, new[j] # 0
       PROVE  new[i] < new[j]
  <2>1. CASE j \in 1 .. k
    <3>1. i \in 1 .. k
      BY <1>12, <2>1
    <3> QED BY <1>6, <1>9, <1>12, <2>1, <3>1
  <2>2. ASSUME NEW b \in 1 .. more, j = k + b
        PROVE  new[i] < new[j]
    <3>1. new[j] = n + b
      BY <1>7, <2>2
    <3>2. CASE i \in 1 .. k
      <4>1. new[i] \in Nat /\ new[i] <= n
        BY <1>6, <1>9, <3>2
      <4> QED BY <3>1, <4>1
    <3>3. ASSUME NEW a \in 1 .. more, i = k + a
          PROVE  new[i] < new[j]
      <4>1. new[i] = n + a /\ a < b
        BY <1>7, <1>12, <2>2, <3>3
      <4> QED BY <3>1, <4>1
    <3> QED BY <1>8, <3>2, <3>3
  <2> QED BY <1>8, <2>1, <2>2
<1> QED BY <1>2, <1>4, <1>5, <1>10, <1>11, <1>12 DEF OnceInOrder

\* Concatenation is associative.
LEMMA BytesAssociate == \A s, t, u \in Seq(Nat) : (s \o t) \o u = s \o (t \o u)
<1> TAKE s, t, u \in Seq(Nat)
<1> QED BY ConcatAssociative

\* What the interrupt and the calls do with the bytes that are ahead.
LEMMA BytesMove ==
  ASSUME NEW a \in Seq(Nat), NEW b \in Seq(Nat), NEW c \in Seq(Nat), NEW d \in Seq(Nat)
  PROVE  /\ b # <<>> => (Append(a, Head(b)) \o Tail(b)) = a \o b
         /\ \A x \in Nat : ((a \o (b \o <<x>>)) \o c) \o d = ((a \o b) \o (<<x>> \o c)) \o d
         /\ ((a \o b) \o <<>>) \o d = ((a \o b) \o d) \o <<>>
<1>0. \A s, t, u \in Seq(Nat) : (s \o t) \o u = s \o (t \o u)
  BY BytesAssociate
<1>1. ASSUME b # <<>> PROVE Append(a, Head(b)) \o Tail(b) = a \o b
  <2>1. /\ Head(b) \in Nat /\ Tail(b) \in Seq(Nat) /\ Len(b) \in 1 .. Len(b)
        /\ Tail(b) = SubSeq(b, 2, Len(b)) /\ Head(b) = b[1]
    BY <1>1, HeadTailProperties, EmptySeq, TailIsSubSeq
  <2>2. b = <<Head(b)>> \o Tail(b)
    <3>1. 1 \in 1 .. Len(b)
      BY <2>1, LenProperties
    <3>2. SubSeq(b, 1, Len(b)) = <<b[1]>> \o SubSeq(b, 1 + 1, Len(b))
      BY <2>1, <3>1, SubSeqRecursiveFirst
    <3> QED BY <2>1, <3>2, SubSeqFull
  <2>3. Append(a, Head(b)) = a \o <<Head(b)>> /\ <<Head(b)>> \in Seq(Nat)
    BY <2>1, AppendIsConcat
  <2>4. (a \o <<Head(b)>>) \o Tail(b) = a \o (<<Head(b)>> \o Tail(b))
    BY <1>0, <2>1, <2>3, Zenon
  <2> QED BY <2>2, <2>3, <2>4
<1>2. a \o b \in Seq(Nat) /\ c \o d \in Seq(Nat) /\ (a \o b) \o d \in Seq(Nat)
  <2>1. a \o b \in Seq(Nat) /\ c \o d \in Seq(Nat)
    BY ConcatProperties
  <2> QED BY <2>1, ConcatProperties
<1>3. ASSUME NEW x \in Nat
      PROVE  ((a \o (b \o <<x>>)) \o c) \o d = ((a \o b) \o (<<x>> \o c)) \o d
  <2>1. <<x>> \in Seq(Nat)
    OBVIOUS
  <2>2. a \o (b \o <<x>>) = (a \o b) \o <<x>> /\ (a \o b) \o <<x>> \in Seq(Nat)
    <3>1. (a \o b) \o <<x>> = a \o (b \o <<x>>)
      BY <1>0, <2>1, Zenon
    <3>2. (a \o b) \o <<x>> \in Seq(Nat)
      BY <1>2, <2>1, ConcatProperties
    <3> QED BY <3>1, <3>2
  <2>3. ((a \o b) \o <<x>>) \o c = (a \o b) \o (<<x>> \o c)
    <3>1. PICK s \in Seq(Nat) : s = a \o b
      BY <1>2
    <3>2. (s \o <<x>>) \o c = s \o (<<x>> \o c)
      BY <1>0, <2>1
    <3> QED BY <3>1, <3>2
  <2> QED BY <2>2, <2>3
<1>5. ((a \o b) \o <<>>) \o d = ((a \o b) \o d) \o <<>>
  BY <1>2, ConcatEmptySeq
<1> QED BY <1>1, <1>3, <1>5

\* The types, in a form the provers use.
LEMMA SerialTypes ==
  ASSUME SerialTypeOK
  PROVE  /\ wire \in Seq(Nat) /\ fifo \in Seq(Nat) /\ request \in Seq(Nat) /\ out_buff \in Seq(Nat)
         /\ out_length \in 0 .. OutBuffSize /\ sending \in 0 .. OutBuffSize
         /\ out_length = Len(out_buff) /\ Len(request) \in 0 .. OutBuffSize
         /\ asked \in Nat /\ starts \in Nat /\ stray \in Nat
         /\ Ahead \in Seq(Nat) /\ (wire \o fifo) \in Seq(Nat)
         /\ ((wire \o fifo) \o Ahead) \o request \in Seq(Nat)
<1>1. /\ wire \in Seq(Nat) /\ fifo \in Seq(Nat)
      /\ request \in Seq(Nat \ {0}) /\ out_buff \in Seq(Nat \ {0})
      /\ out_length \in 0 .. OutBuffSize /\ sending \in 0 .. OutBuffSize
      /\ out_length = Len(out_buff) /\ Len(request) <= OutBuffSize
      /\ asked \in Nat /\ starts \in Nat /\ stray \in Nat
  BY DEF SerialTypeOK
<1>2. Nat \ {0} \subseteq Nat
  OBVIOUS
<1>3. request \in Seq(Nat) /\ out_buff \in Seq(Nat)
  BY <1>1, <1>2, SeqMonotonic
<1>4. Len(request) \in 0 .. OutBuffSize /\ OutBuffSize \in Nat
  BY <1>1, <1>3, SerialSizes, LenProperties
<1>5. SubSeq(out_buff, sending + 1, out_length) \in Seq(Nat)
  <2>1. sending + 1 \in Int /\ out_length \in Int
    BY <1>1
  <2>2. \A i \in sending + 1 .. out_length : out_buff[i] \in Nat
    <3> TAKE i \in sending + 1 .. out_length
    <3>1. i \in 1 .. Len(out_buff)
      BY <1>1
    <3> QED BY <1>3, <3>1, ElementOfSeq
  <2> QED BY <2>1, <2>2, SubSeqProperties
<1>6. <<>> \in Seq(Nat)
  OBVIOUS
<1>7. Ahead \in Seq(Nat)
  BY <1>3, <1>5, <1>6 DEF Ahead
<1>8. (wire \o fifo) \in Seq(Nat)
  BY <1>1, ConcatProperties
<1>9. ((wire \o fifo) \o Ahead) \in Seq(Nat)
  BY <1>7, <1>8, ConcatProperties
<1>10. ((wire \o fifo) \o Ahead) \o request \in Seq(Nat)
  BY <1>3, <1>9, ConcatProperties
<1> QED BY <1>1, <1>3, <1>4, <1>7, <1>8, <1>10

\* The byte the interrupt sends is the first one ahead.
LEMMA AheadGoesOn ==
  ASSUME SerialTypeOK, NEW n \in Nat, n < out_length
  PROVE  /\ out_buff[n + 1] \in Nat
         /\ SubSeq(out_buff, n + 1, out_length) =
               <<out_buff[n + 1]>> \o SubSeq(out_buff, n + 2, out_length)
         /\ SubSeq(out_buff, n + 2, out_length) \in Seq(Nat)
<1>1. out_buff \in Seq(Nat) /\ out_length = Len(out_buff) /\ out_length \in Nat
  BY SerialTypes, SerialSizes
<1>2. n + 1 \in 1 .. Len(out_buff) /\ out_length \in n + 1 .. Len(out_buff) /\ (n + 1) + 1 = n + 2
  BY <1>1
<1>3. SubSeq(out_buff, n + 1, out_length) = <<out_buff[n + 1]>> \o SubSeq(out_buff, (n + 1) + 1, out_length)
  BY <1>1, <1>2, SubSeqRecursiveFirst
<1>4. \A i \in n + 2 .. out_length : out_buff[i] \in Nat
  <2> TAKE i \in n + 2 .. out_length
  <2>1. i \in 1 .. Len(out_buff)
    BY <1>1
  <2> QED BY <1>1, <2>1, ElementOfSeq
<1>5. SubSeq(out_buff, n + 2, out_length) \in Seq(Nat)
  <2>1. n + 2 \in Int /\ out_length \in Int
    BY <1>1
  <2> QED BY <1>4, <2>1, SubSeqProperties
<1> QED BY <1>1, <1>2, <1>3, <1>5, ElementOfSeq

\* A step that leaves the sequence as it is.
LEMMA StreamStays ==
  ASSUME SerialInv, SerialTypeOK', UNCHANGED asked, starts' = starts, early' = early,
         starts <= 1 /\ ~early =>
           ((wire' \o fifo') \o Ahead') \o request' = ((wire \o fifo) \o Ahead) \o request
  PROVE  WrittenInOrder'
BY DEF SerialInv, WrittenInOrder

\* The interrupt, or the polling that stands for it, whose first byte is sent or not.
LEMMA CheckTxKeeps ==
  ASSUME SerialInv, CheckTx, uart_pc # "off", uart_pc = "first" => early',
         early => early', uart_pc # "first" => early' = early,
         UNCHANGED <<uart_pc, masked, request, echo, out_buff, out_length, rx, wire, asked, stray, starts>>,
         early' \in BOOLEAN
  PROVE  SerialInv'
<1>1. SerialTypeOK /\ starts # 0
  BY DEF SerialInv
<1>2. CASE sending # 0 /\ out_length > sending
  <2>1. /\ fifo' = fifo \o <<out_buff[sending + 1]>> /\ sending' = sending + 1
        /\ thre' \in BOOLEAN
    BY <1>1, <1>2 DEF CheckTx, Put, SerialTypeOK
  <2>2. /\ sending \in Nat /\ sending < out_length /\ sending' # 0 /\ sending + 2 = sending' + 1
        /\ sending' \in 0 .. OutBuffSize
    <3>1. sending \in 0 .. OutBuffSize /\ out_length \in 0 .. OutBuffSize /\ OutBuffSize \in Nat
      BY <1>1, SerialTypes, SerialSizes
    <3> QED BY <1>2, <2>1, <3>1
  <2>3. PICK x \in Nat : x = out_buff[sending + 1]
    BY <1>1, <2>2, AheadGoesOn
  <2>4. fifo' \in Seq(Nat)
    <3>1. <<x>> \in Seq(Nat) /\ fifo \in Seq(Nat)
      BY <1>1, SerialTypes
    <3> QED BY <2>1, <2>3, <3>1, ConcatProperties
  <2>5. SerialTypeOK'
    BY <1>1, <2>1, <2>2, <2>4 DEF SerialTypeOK
  <2>6. uart_pc # "start" /\ uart_pc # "copy"
    BY <1>2 DEF SerialInv
  <2>7. ASSUME uart_pc # "first"
        PROVE  ((wire' \o fifo') \o Ahead') \o request' = ((wire \o fifo) \o Ahead) \o request
    <3>1. Ahead = SubSeq(out_buff, sending + 1, out_length)
      BY <1>2, <2>6, <2>7 DEF Ahead
    <3>2. Ahead' = SubSeq(out_buff, sending + 2, out_length)
      BY <2>1, <2>2, <2>6, <2>7 DEF Ahead
    <3>3. Ahead = <<x>> \o Ahead' /\ Ahead' \in Seq(Nat)
      BY <1>1, <2>2, <2>3, <3>1, <3>2, AheadGoesOn
    <3>4. wire \in Seq(Nat) /\ fifo \in Seq(Nat) /\ request \in Seq(Nat)
      BY <1>1, SerialTypes
    <3>5. ((wire \o (fifo \o <<x>>)) \o Ahead') \o request = ((wire \o fifo) \o (<<x>> \o Ahead')) \o request
      BY <3>3, <3>4, BytesMove
    <3> QED BY <2>1, <2>3, <3>3, <3>5
  <2>8. WrittenInOrder'
    <3>1. CASE uart_pc = "first"
      BY <3>1 DEF WrittenInOrder
    <3>2. CASE uart_pc # "first"
      BY <2>5, <2>7, <3>2, StreamStays
    <3> QED BY <3>1, <3>2
  <2> QED BY <1>1, <2>5, <2>6, <2>8 DEF SerialInv
<1>3. CASE ~(sending # 0 /\ out_length > sending)
  <2>1. sending' = 0 /\ thre' = FALSE /\ fifo' = fifo
    BY <1>3 DEF CheckTx
  <2>2. SerialTypeOK'
    <3>1. thre' \in BOOLEAN
      BY <2>1
    <3>2. 0 \in 0 .. OutBuffSize
      BY SerialSizes
    <3> QED BY <1>1, <2>1, <3>1, <3>2 DEF SerialTypeOK
  <2>3. ASSUME uart_pc # "first"
        PROVE  Ahead' = Ahead
    <3>1. CASE sending = 0
      BY <2>1, <2>3, <3>1 DEF Ahead
    <3>2. CASE sending # 0
      <4>1. uart_pc # "start"
        BY <3>2 DEF SerialInv
      <4>2. Ahead' = <<>>
        BY <2>1, <2>3, <4>1 DEF Ahead
      <4>3. Ahead = SubSeq(out_buff, sending + 1, out_length)
        BY <2>3, <3>2, <4>1 DEF Ahead
      <4>4. /\ sending + 1 \in Int /\ out_length \in Int
            /\ out_length < sending + 1
        BY <1>1, <1>3, <3>2, SerialTypes
      <4> QED BY <4>2, <4>3, <4>4, SubSeqEmpty
    <3> QED BY <3>1, <3>2
  <2>4. WrittenInOrder'
    <3>1. CASE uart_pc = "first"
      BY <3>1 DEF WrittenInOrder
    <3>2. CASE uart_pc # "first"
      BY <2>1, <2>2, <2>3, <3>2, StreamStays
    <3> QED BY <3>1, <3>2
  <2> QED BY <1>1, <2>1, <2>2, <2>4 DEF SerialInv
<1> QED BY <1>2, <1>3

\* A byte written straight to the data register, when nothing is being sent.
PutsStray == Put(IF sending = 0 THEN <<0>> ELSE <<>>) \/ Put(<<>>)

\* It keeps the invariant.
LEMMA StrayKeeps ==
  ASSUME SerialInv, uart_pc # "off", PutsStray,
         UNCHANGED <<uart_pc, masked, request, out_buff, out_length, sending, wire, asked, starts, early>>,
         echo' \in BOOLEAN, rx' \in BOOLEAN, stray' \in Nat
  PROVE  SerialInv'
<1>1. SerialTypeOK /\ starts # 0
  BY DEF SerialInv
<1>2. /\ wire \in Seq(Nat) /\ fifo \in Seq(Nat) /\ request \in Seq(Nat) /\ Ahead \in Seq(Nat)
      /\ <<0>> \in Seq(Nat) /\ asked \in Nat
  BY <1>1, SerialTypes
<1>3. CASE fifo' = fifo \o <<0>>
  <2>1. fifo' \in Seq(Nat) /\ thre' \in BOOLEAN
    BY <1>1, <1>2, <1>3, ConcatProperties DEF PutsStray, Put, SerialTypeOK
  <2>2. SerialTypeOK'
    BY <1>1, <2>1 DEF SerialTypeOK
  <2>3. Ahead' = Ahead
    BY DEF Ahead
  <2>4. ASSUME starts <= 1, ~early
        PROVE  OnceInOrder(((wire \o (fifo \o <<0>>)) \o Ahead) \o request, asked)
    <3>1. PICK s, t : s = wire \o fifo /\ t = Ahead \o request
      OBVIOUS
    <3>2. s \in Seq(Nat) /\ t \in Seq(Nat)
      BY <1>2, <3>1, ConcatProperties
    <3>3. OnceInOrder(s \o t, asked)
      <4>1. ((wire \o fifo) \o Ahead) \o request = (wire \o fifo) \o (Ahead \o request)
        <5>1. PICK v \in Seq(Nat) : v = wire \o fifo
          BY <3>1, <3>2
        <5>2. (v \o Ahead) \o request = v \o (Ahead \o request)
          BY <1>2, BytesAssociate
        <5> QED BY <5>1, <5>2
      <4>2. OnceInOrder(((wire \o fifo) \o Ahead) \o request, asked)
        BY <2>4 DEF SerialInv, WrittenInOrder
      <4> QED BY <3>1, <4>1, <4>2
    <3>4. OnceInOrder((s \o <<0>>) \o t, asked)
      BY <1>2, <3>2, <3>3, StrayIsLeft
    <3>5. ((wire \o (fifo \o <<0>>)) \o Ahead) \o request = (s \o <<0>>) \o t
      <4>1. wire \o (fifo \o <<0>>) = s \o <<0>>
        BY <1>2, <3>1, BytesAssociate
      <4>2. PICK u \in Seq(Nat) : u = s \o <<0>>
        BY <1>2, <3>2, ConcatProperties
      <4>3. (u \o Ahead) \o request = u \o (Ahead \o request)
        BY <1>2, BytesAssociate
      <4> QED BY <3>1, <4>1, <4>2, <4>3
    <3> QED BY <3>4, <3>5
  <2>5. WrittenInOrder'
    BY <1>3, <2>3, <2>4 DEF WrittenInOrder
  <2> QED BY <1>1, <2>2, <2>5 DEF SerialInv
<1>4. CASE fifo' = fifo \o <<>>
  <2>1. fifo' = fifo
    BY <1>2, <1>4, ConcatEmptySeq
  <2>2. thre' \in BOOLEAN
    BY <1>1 DEF PutsStray, Put, SerialTypeOK
  <2>3. SerialTypeOK'
    BY <1>1, <2>1, <2>2 DEF SerialTypeOK
  <2>4. Ahead' = Ahead
    BY DEF Ahead
  <2> QED BY <1>1, <2>1, <2>3, <2>4, StreamStays DEF SerialInv
<1> QED BY <1>3, <1>4 DEF PutsStray, Put

\* One step of any action.
LEMMA SerialStep == SerialInv /\ [SerialNext]_serial_vars => SerialInv'
<1> SUFFICES ASSUME SerialInv, [SerialNext]_serial_vars PROVE SerialInv'
  OBVIOUS
<1>1. /\ SerialTypeOK
      /\ wire \in Seq(Nat) /\ fifo \in Seq(Nat) /\ request \in Seq(Nat) /\ out_buff \in Seq(Nat)
      /\ request \in Seq(Nat \ {0}) /\ Ahead \in Seq(Nat)
      /\ OutBuffSize \in Nat \ {0} /\ asked \in Nat
  BY SerialTypes, SerialSizes DEF SerialInv, SerialTypeOK
<1>2. CASE Shift
  <2>1. /\ fifo # <<>> /\ uart_pc # "off" /\ wire' = Append(wire, Head(fifo)) /\ fifo' = Tail(fifo)
        /\ thre' \in BOOLEAN
        /\ UNCHANGED <<uart_pc, masked, request, echo, out_buff, out_length, sending, rx, asked, stray,
                       starts, early>>
    BY <1>1, <1>2 DEF Shift, serial_buff, serial_hist, SerialTypeOK
  <2>2. wire' \in Seq(Nat) /\ fifo' \in Seq(Nat)
    BY <1>1, <2>1, HeadTailProperties, AppendProperties
  <2>3. SerialTypeOK'
    BY <1>1, <2>1, <2>2 DEF SerialTypeOK
  <2>4. wire' \o fifo' = wire \o fifo /\ Ahead' = Ahead
    <3>1. wire' \o fifo' = wire \o fifo
      BY <1>1, <2>1, BytesMove
    <3>2. Ahead' = Ahead
      BY <2>1 DEF Ahead
    <3> QED BY <3>1, <3>2
  <2>5. WrittenInOrder'
    BY <2>1, <2>3, <2>4, StreamStays
  <2> QED BY <2>1, <2>3, <2>5 DEF SerialInv
<1>3. CASE Receive
  <2>1. /\ rx' = TRUE /\ stray' = stray + 1 /\ uart_pc # "off"
        /\ UNCHANGED <<uart_pc, masked, request, echo, out_buff, out_length, sending, fifo, thre, wire,
                       asked, starts, early>>
    BY <1>3 DEF Receive, serial_buff
  <2>2. SerialTypeOK'
    BY <1>1, <2>1 DEF SerialTypeOK
  <2>3. Ahead' = Ahead
    BY <2>1 DEF Ahead
  <2>4. WrittenInOrder'
    BY <2>1, <2>2, <2>3, StreamStays
  <2> QED BY <2>1, <2>2, <2>4 DEF SerialInv
<1>4. CASE UART_Handler
  <2>1. /\ uart_pc # "off"
        /\ UNCHANGED <<uart_pc, masked, request, echo, out_buff, out_length, wire, asked, stray, starts>>
    BY <1>4 DEF UART_Handler
  <2>2. CASE rx /\ CheckRx /\ UNCHANGED early
    <3>1. rx' = FALSE /\ sending' = sending /\ early' = early
      BY <2>2 DEF CheckRx
    <3>2. PutsStray
      BY <2>2 DEF CheckRx, PutsStray
    <3>3. echo' \in BOOLEAN /\ rx' \in BOOLEAN /\ stray' \in Nat
      BY <1>1, <2>1, <3>1 DEF SerialTypeOK
    <3> QED BY <2>1, <3>1, <3>2, <3>3, StrayKeeps
  <2>3. CASE ~rx /\ thre /\ CheckTx /\ early' = (early \/ uart_pc = "first") /\ UNCHANGED rx
    <3>1. /\ early' \in BOOLEAN /\ early => early'
          /\ uart_pc = "first" => early'
          /\ uart_pc # "first" => early' = early
      BY <1>1, <2>3 DEF SerialTypeOK
    <3> QED BY <2>1, <2>3, <3>1, CheckTxKeeps
  <2> QED BY <1>4, <2>2, <2>3 DEF UART_Handler
<1>5. CASE SerialPoll
  <2>1. /\ uart_pc \in {"wait", "flush"} /\ CheckTx
        /\ UNCHANGED <<uart_pc, masked, request, echo, out_buff, out_length, rx, wire, asked, stray, starts,
                       early>>
    BY <1>5 DEF SerialPoll, serial_hist
  <2>2. early' \in BOOLEAN
    BY <1>1, <2>1 DEF SerialTypeOK
  <2> QED BY <2>1, <2>2, CheckTxKeeps
<1>6. CASE Waited
  <2>1. /\ uart_pc \in {"wait", "flush"} /\ sending = 0
        /\ uart_pc' = IF uart_pc = "flush" THEN "idle" ELSE "copy"
        /\ masked' \in BOOLEAN
        /\ UNCHANGED <<request, echo, out_buff, out_length, sending, fifo, thre, rx, wire, asked, stray,
                       starts, early>>
    BY <1>1, <1>6 DEF Waited, serial_buff, serial_hw, serial_hist, SerialTypeOK
  <2>2. SerialTypeOK'
    BY <1>1, <2>1 DEF SerialTypeOK
  <2>3. Ahead' = Ahead
    BY <2>1 DEF Ahead
  <2>4. WrittenInOrder'
    BY <2>1, <2>2, <2>3, StreamStays
  <2>5. request # <<>> => uart_pc = "wait"
    BY <2>1 DEF SerialInv
  <2> QED BY <2>1, <2>2, <2>4, <2>5 DEF SerialInv
<1>7. CASE Copy
  <2>1. /\ uart_pc = "copy" /\ uart_pc' = "start" /\ sending = 0
        /\ out_buff' = request /\ out_length' = Len(request) /\ request' = <<>>
        /\ UNCHANGED <<masked, sending, echo, fifo, thre, rx, wire, asked, stray, starts, early>>
    BY <1>7 DEF Copy, serial_hw, serial_hist, SerialInv
  <2>2. SerialTypeOK'
    <3>1. Len(request) \in 0 .. OutBuffSize
      BY <1>1, SerialTypes
    <3>2. <<>> \in Seq(Nat \ {0}) /\ Len(<<>>) <= OutBuffSize
      BY <1>1
    <3> QED BY <1>1, <2>1, <3>1, <3>2 DEF SerialTypeOK
  <2>3. Ahead = <<>> /\ Ahead' = request
    BY <2>1 DEF Ahead
  <2>4. WrittenInOrder'
    <3>1. ((wire \o fifo) \o <<>>) \o request = ((wire \o fifo) \o request) \o <<>>
      BY <1>1, BytesMove
    <3> QED BY <2>1, <2>2, <2>3, <3>1, StreamStays
  <2> QED BY <2>1, <2>2, <2>4 DEF SerialInv
<1>8. CASE StartSending
  <2>1. /\ uart_pc = "start" /\ sending = 0
        /\ UNCHANGED <<request, echo, out_buff, out_length, fifo, thre, rx, wire, asked, stray, starts, early>>
    BY <1>8 DEF StartSending, serial_hw, serial_hist, SerialInv
  <2>2. CASE out_length # 0
    <3>1. sending' = 1 /\ uart_pc' = "first" /\ masked' = masked
      BY <1>8, <2>1, <2>2 DEF StartSending
    <3>2. 1 \in 0 .. OutBuffSize /\ out_length >= 1
      BY <1>1, <2>2, SerialTypes
    <3>3. SerialTypeOK'
      BY <1>1, <2>1, <3>1, <3>2 DEF SerialTypeOK
    <3>4. Ahead' = Ahead
      BY <2>1, <3>1 DEF Ahead
    <3>5. WrittenInOrder'
      BY <2>1, <3>3, <3>4, StreamStays
    <3>6. request = <<>> /\ starts # 0
      BY <2>1 DEF SerialInv
    <3> QED BY <2>1, <3>1, <3>2, <3>3, <3>5, <3>6 DEF SerialInv
  <2>3. CASE out_length = 0
    <3>1. sending' = 0 /\ uart_pc' = "idle" /\ masked' = FALSE
      BY <1>8, <2>1, <2>3 DEF StartSending
    <3>2. SerialTypeOK'
      BY <1>1, <2>1, <3>1 DEF SerialTypeOK
    <3>3. out_buff = <<>>
      <4>1. Len(out_buff) = 0
        BY <1>1, <2>3, SerialTypes
      <4> QED BY <1>1, <4>1, EmptySeq
    <3>4. Ahead' = Ahead
      BY <2>1, <3>1, <3>3 DEF Ahead
    <3>5. WrittenInOrder'
      BY <2>1, <3>2, <3>4, StreamStays
    <3>6. request = <<>> /\ starts # 0
      BY <2>1 DEF SerialInv
    <3> QED BY <2>1, <3>1, <3>2, <3>5, <3>6 DEF SerialInv
  <2> QED BY <2>2, <2>3
<1>9. CASE FirstByte
  <2>1. /\ uart_pc = "first" /\ uart_pc' = "idle" /\ masked' = FALSE
        /\ fifo' = fifo \o <<out_buff[1]>> /\ thre' \in BOOLEAN
        /\ UNCHANGED <<request, echo, out_buff, out_length, sending, rx, wire, asked, stray, starts, early>>
    BY <1>1, <1>9 DEF FirstByte, Put, serial_buff, serial_hist, SerialTypeOK
  <2>2. /\ out_length >= 1 /\ (~early => sending = 1) /\ request = <<>> /\ starts # 0
        /\ out_length \in Nat
    BY <1>1, <2>1, SerialTypes DEF SerialInv
  <2>3. /\ out_buff[1] \in Nat
        /\ SubSeq(out_buff, 1, out_length) = <<out_buff[1]>> \o SubSeq(out_buff, 2, out_length)
        /\ SubSeq(out_buff, 2, out_length) \in Seq(Nat)
    <3>1. 0 \in Nat /\ 0 < out_length /\ 0 + 1 = 1 /\ 0 + 2 = 2
      BY <2>2
    <3> QED BY <1>1, <3>1, AheadGoesOn
  <2>4. SubSeq(out_buff, 1, out_length) = out_buff
    BY <1>1, SubSeqFull, SerialTypes
  <2>5. fifo' \in Seq(Nat)
    <3>1. <<out_buff[1]>> \in Seq(Nat)
      BY <2>3
    <3> QED BY <1>1, <2>1, <3>1, ConcatProperties
  <2>6. SerialTypeOK'
    BY <1>1, <2>1, <2>5 DEF SerialTypeOK
  <2>7. ASSUME ~early
        PROVE  ((wire \o fifo') \o Ahead') \o request = ((wire \o fifo) \o Ahead) \o request
    <3>1. Ahead = out_buff
      BY <2>1 DEF Ahead
    <3>2. Ahead' = SubSeq(out_buff, 2, out_length)
      BY <2>1, <2>2, <2>7 DEF Ahead
    <3>3. PICK x \in Nat : x = out_buff[1]
      BY <2>3
    <3>4. Ahead = <<x>> \o Ahead' /\ Ahead' \in Seq(Nat)
      BY <2>3, <2>4, <3>1, <3>2, <3>3
    <3>5. wire \in Seq(Nat) /\ fifo \in Seq(Nat) /\ request \in Seq(Nat) /\ Ahead' \in Seq(Nat)
      BY <1>1, <3>4
    <3>6. ((wire \o (fifo \o <<x>>)) \o Ahead') \o request = ((wire \o fifo) \o (<<x>> \o Ahead')) \o request
      BY <3>5, BytesMove
    <3> QED BY <2>1, <3>3, <3>4, <3>6
  <2>8. WrittenInOrder'
    BY <2>1, <2>6, <2>7, StreamStays
  <2> QED BY <2>1, <2>2, <2>6, <2>8 DEF SerialInv
<1>10. ASSUME NEW callback \in BOOLEAN, uart_on(callback)
       PROVE  SerialInv'
  <2>1. /\ uart_pc \in {"off", "idle"} /\ uart_pc' = "idle" /\ starts' = starts + 1
        /\ echo' \in BOOLEAN /\ fifo' = <<>> /\ rx' = FALSE /\ thre' = TRUE
        /\ UNCHANGED <<masked, request, out_buff, out_length, sending, wire, asked, stray, early>>
    BY <1>10 DEF uart_on, serial_buff
  <2>2. starts \in Nat /\ starts' \in Nat /\ starts' # 0 /\ (starts' <= 1 => starts = 0)
    BY <1>1, <2>1, SerialTypes
  <2>3. SerialTypeOK'
    <3>1. <<>> \in Seq(Nat)
      OBVIOUS
    <3> QED BY <1>1, <2>1, <2>2, <3>1 DEF SerialTypeOK
  <2>4. WrittenInOrder'
    <3> SUFFICES ASSUME starts' <= 1
                 PROVE  OnceInOrder(((wire' \o fifo') \o Ahead') \o request', asked')
      BY DEF WrittenInOrder
    <3>1. wire' = <<>> /\ fifo' = <<>> /\ request' = <<>> /\ asked' = 0 /\ sending' = 0
      BY <2>1, <2>2 DEF SerialInv
    <3>2. Ahead' = <<>>
      BY <2>1, <3>1 DEF Ahead
    <3>3. <<>> \o <<>> = <<>>
      OBVIOUS
    <3>4. OnceInOrder(<<>>, 0)
      BY DEF OnceInOrder
    <3> QED BY <3>1, <3>2, <3>3, <3>4
  <2>5. request = <<>>
    BY <2>1 DEF SerialInv
  <2> QED BY <2>1, <2>2, <2>3, <2>4, <2>5 DEF SerialInv
<1>11. CASE uart_off
  <2>1. /\ uart_pc = "idle" /\ uart_pc' = "off" /\ echo' = TRUE
        /\ UNCHANGED <<masked, request, out_buff, out_length, sending, fifo, thre, rx, wire, asked, stray,
                       starts, early>>
    BY <1>11 DEF uart_off, serial_buff, serial_hw, serial_hist
  <2>2. SerialTypeOK'
    BY <1>1, <2>1 DEF SerialTypeOK
  <2>3. Ahead' = Ahead
    BY <2>1 DEF Ahead
  <2>4. WrittenInOrder'
    BY <2>1, <2>2, <2>3, StreamStays
  <2> QED BY <2>1, <2>2, <2>4 DEF SerialInv
<1>12. CASE serial_send_quickbyte
  <2>1. /\ uart_pc = "idle" /\ stray' = stray + 1
        /\ Put(IF sending = 0 THEN <<0>> ELSE <<>>)
        /\ UNCHANGED <<uart_pc, masked, request, echo, out_buff, out_length, sending, rx, wire, asked,
                       starts, early>>
    BY <1>12 DEF serial_send_quickbyte, serial_buff
  <2>2. echo' \in BOOLEAN /\ rx' \in BOOLEAN /\ stray' \in Nat
    BY <1>1, <2>1 DEF SerialTypeOK
  <2> QED BY <2>1, <2>2, StrayKeeps DEF PutsStray
<1>13. ASSUME NEW length \in 0 .. OutBuffSize + 1, NEW mask \in BOOLEAN, WriteCall(length, mask)
       PROVE  SerialInv'
  <2>1. PICK took : took = IF length > OutBuffSize THEN OutBuffSize ELSE length
    OBVIOUS
  <2>2. took \in Nat /\ took <= OutBuffSize
    BY <1>1, <2>1
  <2>3. /\ uart_pc = "idle" /\ uart_pc' = "wait" /\ masked' = mask
        /\ asked' = asked + took /\ request' = [i \in 1 .. took |-> asked + i]
        /\ UNCHANGED <<echo, out_buff, out_length, sending, fifo, thre, rx, wire, stray, starts, early>>
    BY <1>13, <2>1 DEF WriteCall, serial_buff, serial_hw
  <2>4. request = <<>> /\ starts # 0
    BY <2>3 DEF SerialInv
  <2>5. PICK s \in Seq(Nat) : s = (wire \o fifo) \o Ahead
    BY <1>1, SerialTypes, ConcatProperties
  <2>6. Ahead' = Ahead
    BY <2>3 DEF Ahead
  <2>7. ASSUME starts <= 1, ~early PROVE OnceInOrder(s, asked)
    <3>1. s \o <<>> = s
      BY ConcatEmptySeq
    <3> QED BY <2>4, <2>5, <2>7, <3>1 DEF SerialInv, WrittenInOrder
  <2>8. request' \in Seq(Nat \ {0}) /\ Len(request') <= OutBuffSize
    <3>1. request' \in [1 .. took -> Nat \ {0}]
      BY <1>1, <2>3
    <3> QED BY <2>2, <3>1
  <2>9. SerialTypeOK'
    BY <1>1, <2>2, <2>3, <2>8 DEF SerialTypeOK
  <2>10. WrittenInOrder'
    <3> SUFFICES ASSUME starts <= 1, ~early
                 PROVE  OnceInOrder(((wire' \o fifo') \o Ahead') \o request', asked')
      BY <2>3 DEF WrittenInOrder
    <3>1. OnceInOrder(s \o request', asked + took)
      BY <1>1, <2>2, <2>3, <2>7, CallJoins
    <3> QED BY <2>3, <2>5, <2>6, <3>1
  <2> QED BY <2>3, <2>4, <2>9, <2>10 DEF SerialInv
<1>14. ASSUME NEW mask \in BOOLEAN, FlushCall(mask)
       PROVE  SerialInv'
  <2>1. /\ uart_pc = "idle" /\ uart_pc' = "flush" /\ masked' = mask
        /\ UNCHANGED <<request, echo, out_buff, out_length, sending, fifo, thre, rx, wire, asked, stray,
                       starts, early>>
    BY <1>14 DEF FlushCall, serial_buff, serial_hw, serial_hist
  <2>2. SerialTypeOK'
    BY <1>1, <1>14, <2>1 DEF SerialTypeOK
  <2>3. Ahead' = Ahead
    BY <2>1 DEF Ahead
  <2>4. WrittenInOrder'
    BY <2>1, <2>2, <2>3, StreamStays
  <2>5. request = <<>> /\ starts # 0
    BY <2>1 DEF SerialInv
  <2> QED BY <2>1, <2>2, <2>4, <2>5 DEF SerialInv
<1>15. CASE UNCHANGED serial_vars
  BY <1>15 DEF serial_vars, serial_buff, serial_hw, serial_hist, SerialInv, SerialTypeOK, WrittenInOrder,
     Ahead
<1> QED BY <1>2, <1>3, <1>4, <1>5, <1>6, <1>7, <1>8, <1>9, <1>10, <1>11, <1>12, <1>13, <1>14, <1>15
        DEF SerialNext, SerialMain

\* For a buffer of any size and any calls, masked or not: what serial_write was given
\* goes out once each and in the order of the calls, unless the UART is restarted or
\* a TX interrupt falls between `sending++` and the write of the first byte.
THEOREM SerialCorrect == SerialSpec => []WrittenInOrder
<1>1. SerialInit => SerialInv
  <2> SUFFICES ASSUME SerialInit PROVE SerialInv
    OBVIOUS
  <2>1. <<>> \in Seq(Nat) /\ <<>> \in Seq(Nat \ {0}) /\ Len(<<>>) = 0
    OBVIOUS
  <2>2. 0 \in 0 .. OutBuffSize /\ 0 <= OutBuffSize
    BY SerialSizes
  <2>3. SerialTypeOK
    BY <2>1, <2>2 DEF SerialInit, SerialTypeOK
  <2>4. Ahead = <<>> /\ <<>> \o <<>> = <<>>
    BY DEF SerialInit, Ahead
  <2>5. OnceInOrder(<<>>, 0)
    BY DEF OnceInOrder
  <2>6. WrittenInOrder
    BY <2>4, <2>5 DEF SerialInit, WrittenInOrder
  <2> QED BY <2>3, <2>6 DEF SerialInit, SerialInv
<1>2. SerialInv => WrittenInOrder
  BY DEF SerialInv
<1> QED BY <1>1, <1>2, SerialStep, PTL DEF SerialSpec

----------------------------------------------------------------------------
(* Flash: the driver's arithmetic of sectors is the chip's; the part that  *)
(* is to be written is erased from the call to the command.                *)

\* The sector the driver computes from an address is the one the chip has it in.
LEMMA SectorIsRight ==
  ASSUME NEW a \in 0 .. SectorStart(LastSector) - 1
  PROVE  get_sector_number(a) = ChipSector(a)
<1>0. LastSector = 20 /\ a \in Nat /\ a < 196608
  <2>1. LastSector = 20 /\ ~(20 <= 16) /\ 65536 + (20 - 16) * 32768 = 196608
    BY DEF LastSector
  <2>2. SectorStart(LastSector) = 196608
    <3>1. ASSUME NEW s \in Nat, s > 16 PROVE SectorStart(s) = 65536 + (s - 16) * 32768
      BY <3>1 DEF SectorStart
    <3>2. PICK t \in Nat : t = LastSector /\ t = 20
      BY <2>1
    <3>3. SectorStart(t) = 65536 + (t - 16) * 32768
      BY <3>1, <3>2
    <3> QED BY <3>2, <3>3
  <2> QED BY <2>1, <2>2
<1>1. PICK q : q = a \div 4096
  OBVIOUS
<1>2. q \in Nat /\ 4096 * q <= a /\ a < 4096 * q + 4096
  BY <1>0, <1>1
<1>3. \E s \in 0 .. 19 : s = get_sector_number(a) /\ SectorStart(s) <= a /\ a < SectorStart(s + 1)
  <2>1. CASE q < 16
    <3>1. get_sector_number(a) = q /\ q \in 0 .. 19
      BY <1>1, <1>2, <2>1 DEF get_sector_number
    <3>2. SectorStart(q) = q * 4096 /\ SectorStart(q + 1) = (q + 1) * 4096
      BY <1>2, <2>1 DEF SectorStart
    <3> QED BY <1>2, <3>1, <3>2
  <2>2. CASE q >= 16
    <3>1. PICK e : e = q \div 8
      OBVIOUS
    <3>2. e \in 2 .. 5 /\ 8 * e <= q /\ q < 8 * e + 8
      BY <1>0, <1>2, <2>2, <3>1
    <3>3. get_sector_number(a) = 14 + e /\ 14 + e \in 0 .. 19
      BY <1>1, <2>2, <3>1, <3>2 DEF get_sector_number
    <3>4. SectorStart(14 + e) = 32768 * e /\ SectorStart((14 + e) + 1) = 32768 * e + 32768
      BY <3>2 DEF SectorStart
    <3> QED BY <1>2, <3>2, <3>3, <3>4
  <2> QED BY <1>2, <2>1, <2>2
<1>4. ASSUME NEW s \in 0 .. 19, NEW t \in 0 .. 19, s < t,
             SectorStart(t) <= a, a < SectorStart(s + 1)
      PROVE  FALSE
  <2>1. PICK u \in 1 .. 19 : u = s + 1 /\ u <= t
    BY <1>4
  <2>2. SectorStart(u) <= SectorStart(t) /\ SectorStart(u) \in Nat /\ SectorStart(t) \in Nat
    BY <2>1 DEF SectorStart
  <2> QED BY <1>0, <1>4, <2>1, <2>2
<1>5. ChipSector(a) = CHOOSE s \in 0 .. 19 : SectorStart(s) <= a /\ a < SectorStart(s + 1)
  BY <1>0 DEF ChipSector
<1>6. PICK s \in 0 .. 19 : s = ChipSector(a) /\ SectorStart(s) <= a /\ a < SectorStart(s + 1)
  BY <1>3, <1>5
<1>7. PICK t \in 0 .. 19 : t = get_sector_number(a) /\ SectorStart(t) <= a /\ a < SectorStart(t + 1)
  BY <1>3
<1>8. ~(s < t) /\ ~(t < s)
  BY <1>4, <1>6, <1>7
<1> QED BY <1>6, <1>7, <1>8

Prepared == fl_pc = "command" => fl_prepared = {ChipSector(fl_call.addr)}

PartsHold ==
    \A a \in FlashAddresses :
       /\ fl_known[a] = "erased" => fl_mem[a] = {}
       /\ fl_known[a] \in Images => fl_mem[a] = {fl_known[a]}

CallIsSound ==
    /\ fl_call.addr \in FlashAddresses /\ fl_call.op \in {"erase", "program"} /\ fl_call.image \in Images
    /\ fl_call.op = "program" => \A a \in Covered(fl_call) : fl_mem[a] = {}

FlashInv == Prepared /\ PartsHold /\ (fl_pc # "idle" => CallIsSound)

\* The command that succeeds leaves on its parts what it was to put there.
LEMMA CommandHolds ==
  ASSUME PartsHold, CallIsSound,
         fl_mem' = [a \in FlashAddresses |-> IF a \in PartsOf(fl_call) THEN Changed(fl_call, a) ELSE fl_mem[a]],
         fl_known' = [a \in FlashAddresses |-> IF a \in PartsOf(fl_call) THEN Contents(fl_call) ELSE fl_known[a]]
  PROVE  PartsHold'
<1> SUFFICES ASSUME NEW a \in FlashAddresses
             PROVE  /\ fl_known'[a] = "erased" => fl_mem'[a] = {}
                    /\ fl_known'[a] \in Images => fl_mem'[a] = {fl_known'[a]}
  BY DEF PartsHold
<1>1. CASE a \notin PartsOf(fl_call)
  BY <1>1 DEF PartsHold
<1>2. CASE a \in PartsOf(fl_call) /\ fl_call.op = "erase"
  <2>1. fl_mem'[a] = {} /\ fl_known'[a] = "erased"
    BY <1>2 DEF Changed, Contents
  <2> QED BY <2>1 DEF Images
<1>3. CASE a \in PartsOf(fl_call) /\ fl_call.op # "erase"
  <2>1. fl_mem[a] = {}
    BY <1>3 DEF PartsOf, CallIsSound
  <2>2. fl_mem'[a] = {fl_call.image} /\ fl_known'[a] = fl_call.image
    BY <1>3, <2>1 DEF Changed, Contents
  <2> QED BY <2>2 DEF CallIsSound, Images
<1> QED BY <1>1, <1>2, <1>3

\* The driver prepares the sector its address is in, and a part of the flash holds what the
\* last command that succeeded put there, through refusals, a busy ROM and restarts.
THEOREM FlashKeepsItsParts == FlashSpec => []FlashHolds
<1>1. FlashInit => FlashInv
  BY DEF FlashInit, FlashInv, Prepared, PartsHold, Images
<1>2. FlashInv /\ [FlashNext]_flash_vars => FlashInv'
  <2> SUFFICES ASSUME FlashInv, [FlashNext]_flash_vars PROVE FlashInv'
    OBVIOUS
  <2>0. Prepared /\ PartsHold /\ (fl_pc # "idle" => CallIsSound)
    BY DEF FlashInv
  <2>1. ASSUME FlashReturns, PartsHold' PROVE FlashInv'
    BY <2>1 DEF FlashReturns, FlashInv, Prepared
  <2>2. CASE flash_erase_sector
    <3>1. PICK a \in FlashAddresses :
             fl_call' = [op |-> "erase", addr |-> a, size |-> HalfKilo, image |-> "plain"]
      BY <2>2 DEF flash_erase_sector
    <3>2. fl_pc' = "prepare" /\ UNCHANGED <<fl_mem, fl_known>>
      BY <2>2 DEF flash_erase_sector
    <3>3. CallIsSound'
      BY <3>1 DEF CallIsSound, Images
    <3> QED BY <2>0, <3>2, <3>3 DEF FlashInv, Prepared, PartsHold
  <2>3. CASE flash_program_page
    <3>1. PICK call \in [op: {"program"}, addr: FlashAddresses, size: ImageSizes, image: Images] :
             /\ \A a \in Covered(call) : a \in FlashAddresses /\ fl_mem[a] = {}
             /\ FlashReturns \/ (fl_call' = call /\ fl_pc' = "prepare")
      BY <2>3 DEF flash_program_page
    <3>2. PartsHold' /\ fl_mem' = fl_mem
      BY <2>0, <2>3 DEF flash_program_page, PartsHold
    <3>3. CASE fl_call' = call /\ fl_pc' = "prepare"
      <4>1. CallIsSound'
        BY <3>1, <3>2, <3>3 DEF CallIsSound, Covered
      <4> QED BY <3>2, <3>3, <4>1 DEF FlashInv, Prepared
    <3> QED BY <2>1, <3>1, <3>2, <3>3
  <2>4. CASE iap_prepare_flash
    <3>1. PartsHold' /\ fl_mem' = fl_mem
      BY <2>0, <2>4 DEF iap_prepare_flash, PartsHold
    <3>2. CASE FlashReturns
      BY <2>1, <3>1, <3>2
    <3>3. CASE ~FlashReturns
      <4>1. fl_prepared' = {get_sector_number(fl_call.addr)} /\ UNCHANGED fl_call
        BY <2>4, <3>3 DEF iap_prepare_flash
      <4>2. CallIsSound
        BY <2>0, <2>4 DEF iap_prepare_flash
      <4>3. fl_call.addr \in 0 .. SectorStart(LastSector) - 1
        BY <4>2, FlashAssumption DEF CallIsSound
      <4>4. get_sector_number(fl_call.addr) = ChipSector(fl_call.addr)
        BY <4>3, SectorIsRight
      <4>5. Prepared' /\ CallIsSound'
        BY <3>1, <4>1, <4>2, <4>4 DEF Prepared, CallIsSound, Covered
      <4> QED BY <3>1, <4>5 DEF FlashInv
    <3> QED BY <3>2, <3>3
  <2>5. CASE FlashCommand
    <3>1. CallIsSound /\ FlashReturns
      BY <2>0, <2>5 DEF FlashCommand
    <3>2. CASE UNCHANGED <<fl_mem, fl_known>>
      BY <2>0, <2>1, <3>1, <3>2 DEF PartsHold
    <3>3. CASE ~UNCHANGED <<fl_mem, fl_known>>
      <4>1. /\ fl_mem' = [a \in FlashAddresses |->
                            IF a \in PartsOf(fl_call) THEN Changed(fl_call, a) ELSE fl_mem[a]]
            /\ fl_known' = [a \in FlashAddresses |->
                              IF a \in PartsOf(fl_call) THEN Contents(fl_call) ELSE fl_known[a]]
        BY <2>5, <3>3 DEF FlashCommand
      <4> QED BY <2>0, <2>1, <3>1, <4>1, CommandHolds
    <3> QED BY <3>2, <3>3
  <2>6. CASE FlashRestart
    <3>1. FlashReturns
      BY <2>6 DEF FlashRestart
    <3>2. CASE UNCHANGED <<fl_mem, fl_known>>
      BY <2>0, <2>1, <3>1, <3>2 DEF PartsHold
    <3>3. CASE ~UNCHANGED <<fl_mem, fl_known>>
      <4>1. PICK torn \in SUBSET PartsOf(fl_call) :
              /\ fl_mem' = [a \in FlashAddresses |-> IF a \in torn THEN {"torn"} ELSE fl_mem[a]]
              /\ fl_known' = [a \in FlashAddresses |-> IF a \in torn THEN "unknown" ELSE fl_known[a]]
        BY <2>6, <3>3 DEF FlashRestart
      <4>2. PartsHold'
        BY <2>0, <4>1 DEF PartsHold, Images
      <4> QED BY <2>1, <3>1, <4>2
    <3> QED BY <3>2, <3>3
  <2>7. CASE UNCHANGED flash_vars
    BY <2>0, <2>7 DEF flash_vars, FlashInv, Prepared, PartsHold, CallIsSound, Covered
  <2> QED BY <2>2, <2>3, <2>4, <2>5, <2>6, <2>7 DEF FlashNext
<1>3. FlashInv => FlashHolds
  <2>1. \A a \in FlashAddresses : get_sector_number(a) = ChipSector(a)
    <3>1. FlashAddresses \subseteq 0 .. SectorStart(LastSector) - 1
      BY FlashAssumption
    <3> QED BY <3>1, SectorIsRight
  <2> QED BY <2>1 DEF FlashInv, Prepared, PartsHold, FlashHolds
<1> QED BY <1>1, <1>2, <1>3, PTL DEF FlashSpec
=============================================================================
