---------------------------- MODULE RadioProofs ----------------------------
(***************************************************************************)
(* Proofs about the radio link of a sensor board and the gateway's: for    *)
(* FIFOs, frames and spins of any size, ids modulo any number from 2 on,   *)
(* and any number of messages, none is skipped and none comes before one   *)
(* sent earlier.                                                           *)
(***************************************************************************)
EXTENDS RadioLink, Remainders, SequenceTheorems, TLAPS

(***************************************************************************)
(* The inductive invariant.                                                *)
(***************************************************************************)

\* A chip transmits as long as its frame is in the air, and its board does not
\* talk to it then; the gateway holds a frame from its reading to its printing.
AirInv ==
    /\ \A n \in Nodes :
          /\ chip[n] = "TX" <=> air[n] # None
          /\ pc[n] \in {"send", "spin", "handle", "acknowledge"} => chip[n] # "TX"
    /\ pc["sensor"] \notin {"acknowledge", "print"} /\ pc["gateway"] # "send"
    /\ held # None <=> pc["gateway"] \in {"acknowledge", "spin", "print"}
    /\ air["sensor"] # None => air["sensor"].kind = "data"
    /\ air["gateway"] # None => air["gateway"].kind = "ack"

\* The frames of a kind that wait in a FIFO are in the order of their numbers,
\* from low to high.
Ordered(q, kind, low, high) ==
    \A i \in 1 .. Len(q) : q[i].kind = kind =>
        /\ low <= q[i].number /\ q[i].number <= high
        /\ \A j \in 1 .. Len(q) : i < j /\ q[j].kind = kind => q[i].number <= q[j].number

\* The numbers along a message's way and its acknowledgement's way back, from
\* the last one acknowledged to the last one sent: of the message the sensor may
\* leave behind, of the last acknowledgement on its way, of the last message the
\* gateway has acknowledged, of the one it holds, and of the last one on its way.
Lowest   == IF wait_acq THEN sent - 1 ELSE sent
Arriving == IF held # None THEN held.number ELSE printed
Acked    == IF pc["gateway"] = "print" THEN Arriving ELSE printed
AckTop   == IF air["gateway"] # None THEN air["gateway"].number ELSE Acked
DataTop  == IF air["sensor"] # None THEN air["sensor"].number ELSE sent

WayInv ==
    /\ wait_acq => sent >= 1
    /\ Lowest <= AckTop /\ AckTop <= Acked
    /\ Acked <= Arriving /\ printed <= Arriving /\ Arriving <= printed + 1
    /\ Arriving <= DataTop /\ DataTop <= sent
    /\ Ordered(fifo["sensor"], "ack", Lowest, AckTop)
    /\ Ordered(fifo["gateway"], "data", Arriving, DataTop)

RadioInv == TypeOK /\ AirInv /\ WayInv

ChipStates == {"IDLE", "RX", "TX", "OVERFLOW"}
Places == {"send", "spin", "poll", "handle", "acknowledge", "print"}

-----------------------------------------------------------------------------
(* FIFOs in order. *)

\* An empty FIFO is in order.
LEMMA OrderedEmpty == \A kind, low, high : Ordered(<<>>, kind, low, high)
  BY DEF Ordered

\* Wider bounds, for numbers that are integers.
LEMMA OrderedWider ==
  ASSUME NEW q \in Seq(Frames), NEW kind, NEW low \in Int, NEW high \in Int,
         NEW low2 \in Int, NEW high2 \in Int,
         Ordered(q, kind, low, high), low2 <= low, high <= high2
  PROVE  Ordered(q, kind, low2, high2)
<1>1. \A i \in 1 .. Len(q) : q[i].number \in Int
  <2>1. \A i \in 1 .. Len(q) : q[i] \in Frames
    BY ElementOfSeq
  <2> QED BY <2>1 DEF Frames
<1> QED BY <1>1 DEF Ordered

\* What is left when the first frame is taken.
LEMMA OrderedTail ==
  ASSUME NEW q \in Seq(Frames), NEW kind, NEW low \in Int, NEW high \in Int,
         Ordered(q, kind, low, high), q # <<>>
  PROVE  /\ Head(q) \in Frames /\ Tail(q) \in Seq(Frames)
         /\ Ordered(Tail(q), kind, low, high)
         /\ Head(q).kind = kind =>
              /\ low <= Head(q).number /\ Head(q).number <= high
              /\ Ordered(Tail(q), kind, Head(q).number, high)
<1>1. PICK rest : rest = Tail(q)
  OBVIOUS
<1>2. /\ rest \in Seq(Frames) /\ Len(q) \in Nat \ {0} /\ Len(rest) = Len(q) - 1
      /\ \A i \in 1 .. Len(rest) : rest[i] = q[i + 1]
      /\ Head(q) = q[1]
  BY <1>1, HeadTailProperties, EmptySeq, LenProperties
<1>3. Head(q) \in Frames
  BY <1>2, ElementOfSeq
<1>4. \A i \in 1 .. Len(rest) : i + 1 \in 1 .. Len(q)
  BY <1>2
<1>5. 1 \in 1 .. Len(q)
  BY <1>2
<1>6. ASSUME NEW i \in 1 .. Len(rest), rest[i].kind = kind
      PROVE  /\ low <= rest[i].number /\ rest[i].number <= high
             /\ \A j \in 1 .. Len(rest) : i < j /\ rest[j].kind = kind => rest[i].number <= rest[j].number
             /\ Head(q).kind = kind => Head(q).number <= rest[i].number
  <2>1. i + 1 \in 1 .. Len(q) /\ rest[i] = q[i + 1]
    BY <1>2, <1>4
  <2>2. low <= q[i + 1].number /\ q[i + 1].number <= high
    BY <1>6, <2>1 DEF Ordered
  <2>3. ASSUME NEW j \in 1 .. Len(rest), i < j, rest[j].kind = kind
        PROVE  rest[i].number <= rest[j].number
    <3>1. j + 1 \in 1 .. Len(q) /\ rest[j] = q[j + 1] /\ i + 1 < j + 1
      BY <1>2, <1>4, <2>3
    <3> QED BY <1>6, <2>1, <2>3, <3>1 DEF Ordered
  <2>4. ASSUME Head(q).kind = kind PROVE Head(q).number <= rest[i].number
    <3>1. 1 < i + 1
      OBVIOUS
    <3> QED BY <1>2, <1>5, <1>6, <2>1, <2>4, <3>1 DEF Ordered
  <2> QED BY <2>1, <2>2, <2>3, <2>4
<1>7. Ordered(rest, kind, low, high)
  BY <1>6 DEF Ordered
<1>8. Head(q).kind = kind => low <= Head(q).number /\ Head(q).number <= high
  BY <1>2, <1>5 DEF Ordered
<1>9. Head(q).kind = kind => Ordered(rest, kind, Head(q).number, high)
  BY <1>6 DEF Ordered
<1> QED BY <1>1, <1>2, <1>3, <1>7, <1>8, <1>9

\* What there is when a frame is received behind the others.
LEMMA OrderedAppend ==
  ASSUME NEW q \in Seq(Frames), NEW f \in Frames, NEW kind, NEW low \in Int, NEW high \in Int,
         Ordered(q, kind, low, high),
         f.kind = kind => low <= f.number /\ f.number = high
  PROVE  Append(q, f) \in Seq(Frames) /\ Ordered(Append(q, f), kind, low, high)
<1>1. PICK more : more = Append(q, f)
  OBVIOUS
<1>2. /\ more \in Seq(Frames) /\ Len(q) \in Nat /\ Len(more) = Len(q) + 1
      /\ \A i \in 1 .. Len(q) : more[i] = q[i]
      /\ more[Len(q) + 1] = f
  BY <1>1, AppendProperties, LenProperties
<1>3. f.number \in Int
  BY DEF Frames
<1>4. ASSUME NEW i \in 1 .. Len(more), more[i].kind = kind
      PROVE  /\ low <= more[i].number /\ more[i].number <= high
             /\ \A j \in 1 .. Len(more) : i < j /\ more[j].kind = kind => more[i].number <= more[j].number
  <2>1. CASE i \in 1 .. Len(q)
    <3>1. more[i] = q[i]
      BY <1>2, <2>1
    <3>2. low <= q[i].number /\ q[i].number <= high
      BY <1>4, <2>1, <3>1 DEF Ordered
    <3>3. ASSUME NEW j \in 1 .. Len(more), i < j, more[j].kind = kind
          PROVE  more[i].number <= more[j].number
      <4>1. CASE j \in 1 .. Len(q)
        <5>1. more[j] = q[j]
          BY <1>2, <4>1
        <5> QED BY <1>4, <2>1, <3>1, <3>3, <4>1, <5>1 DEF Ordered
      <4>2. CASE j = Len(q) + 1
        BY <1>2, <3>1, <3>2, <3>3, <4>2
      <4> QED BY <1>2, <4>1, <4>2
    <3> QED BY <3>1, <3>2, <3>3
  <2>2. CASE i = Len(q) + 1
    <3>1. more[i] = f /\ f.number = high
      BY <1>2, <1>4, <2>2
    <3>2. ~ \E j \in 1 .. Len(more) : i < j
      BY <1>2, <2>2
    <3> QED BY <1>3, <1>4, <3>1, <3>2
  <2> QED BY <1>2, <2>1, <2>2
<1>5. Ordered(more, kind, low, high)
  BY <1>4 DEF Ordered
<1> QED BY <1>1, <1>2, <1>5

-----------------------------------------------------------------------------
(* What a step of the chip and of the driver does to the chips. *)

\* A frame that is received joins the FIFO or does not.
LEMMA Receives ==
  ASSUME TypeOK, NEW n \in Nodes, NEW f \in Frames, NEW states \in [Nodes -> ChipStates],
         Receive(n, f, states)
  PROVE  /\ chip' \in [Nodes -> ChipStates] /\ fifo' \in [Nodes -> Seq(Frames)]
         /\ gdo0' \in [Nodes -> BOOLEAN] /\ check_rx' \in [Nodes -> BOOLEAN]
         /\ fifo'[n] = fifo[n] \/ fifo'[n] = Append(fifo[n], f)
         /\ \A m \in Nodes : m # n => fifo'[m] = fifo[m] /\ chip'[m] = states[m]
         /\ chip[n] = "RX"
         /\ chip'[n] = states[n] \/ chip'[n] = "OVERFLOW"
<1>1. /\ chip \in [Nodes -> ChipStates] /\ fifo \in [Nodes -> Seq(Frames)]
      /\ gdo0 \in [Nodes -> BOOLEAN] /\ check_rx \in [Nodes -> BOOLEAN]
  BY DEF TypeOK, ChipStates
<1>2. fifo[n] \in Seq(Frames) /\ Append(fifo[n], f) \in Seq(Frames)
  BY <1>1, AppendProperties
<1>3. chip[n] = "RX"
  BY DEF Receive
<1>4. \/ fifo' = [fifo EXCEPT ![n] = Append(@, f)] \/ fifo' = fifo
  BY DEF Receive
<1>5. chip' = states \/ chip' = [states EXCEPT ![n] = "OVERFLOW"]
  BY DEF Receive
<1>6. gdo0' \in [Nodes -> BOOLEAN] /\ check_rx' \in [Nodes -> BOOLEAN]
  BY <1>1 DEF Receive
<1>7. chip' \in [Nodes -> ChipStates]
  BY <1>5 DEF ChipStates
<1>8. fifo' \in [Nodes -> Seq(Frames)]
  BY <1>1, <1>2, <1>4
<1>9. /\ fifo'[n] = fifo[n] \/ fifo'[n] = Append(fifo[n], f)
      /\ \A m \in Nodes : m # n => fifo'[m] = fifo[m]
  BY <1>1, <1>4
<1>10. /\ chip'[n] = states[n] \/ chip'[n] = "OVERFLOW"
       /\ \A m \in Nodes : m # n => chip'[m] = states[m]
  BY <1>5
<1> QED BY <1>3, <1>6, <1>7, <1>8, <1>9, <1>10

\* A board that sends waits, or its frame is in the air.
LEMMA Sends ==
  ASSUME TypeOK, NEW n \in Nodes, NEW f \in Frames, NEW to \in Places, SendPacket(n, f, to)
  PROVE  /\ chip' \in [Nodes -> ChipStates] /\ fifo' \in [Nodes -> Seq(Frames)]
         /\ air' \in [Nodes -> Frames \cup {None}] /\ pc' \in [Nodes -> Places]
         /\ \A m \in Nodes : m # n =>
              chip'[m] = chip[m] /\ fifo'[m] = fifo[m] /\ air'[m] = air[m] /\ pc'[m] = pc[m]
         /\ fifo'[n] = fifo[n] \/ fifo'[n] = <<>>
         /\ \/ chip' = chip /\ air' = air /\ pc'[n] = "spin" /\ chip[n] = "RX"
            \/ chip'[n] = "TX" /\ air'[n] = f /\ pc'[n] = to
<1>1. /\ chip \in [Nodes -> ChipStates] /\ fifo \in [Nodes -> Seq(Frames)]
      /\ air \in [Nodes -> Frames \cup {None}] /\ pc \in [Nodes -> Places]
  BY DEF TypeOK, ChipStates, Places
<1>2. <<>> \in Seq(Frames)
  BY EmptySeq
<1>3. CASE /\ Refused(n)
           /\ pc' = [pc EXCEPT ![n] = "spin"]
           /\ UNCHANGED <<chip, fifo, air>>
  BY <1>1, <1>3 DEF Refused, Places
<1>4. CASE /\ chip' = [chip EXCEPT ![n] = "TX"]
           /\ air' = [air EXCEPT ![n] = f]
           /\ fifo' = IF chip[n] = "OVERFLOW" THEN [fifo EXCEPT ![n] = <<>>] ELSE fifo
           /\ pc' = [pc EXCEPT ![n] = to]
  BY <1>1, <1>2, <1>4 DEF ChipStates, Places
<1> QED BY <1>3, <1>4 DEF SendPacket

\* A frame leaves the FIFO of a board, which is then in RX or IDLE.
LEMMA Takes ==
  ASSUME TypeOK, NEW n \in Nodes, NEW state \in {"RX", "IDLE"}, ReceivePacket(n, state)
  PROVE  /\ chip' \in [Nodes -> ChipStates] /\ fifo' \in [Nodes -> Seq(Frames)]
         /\ gdo0' \in [Nodes -> BOOLEAN]
         /\ \A m \in Nodes : m # n => chip'[m] = chip[m] /\ fifo'[m] = fifo[m]
         /\ pc[n] = "handle" /\ chip'[n] = state /\ fifo[n] # <<>>
         /\ fifo'[n] = Tail(fifo[n]) \/ fifo'[n] = <<>>
<1>1. /\ chip \in [Nodes -> ChipStates] /\ fifo \in [Nodes -> Seq(Frames)]
      /\ gdo0 \in [Nodes -> BOOLEAN] /\ fifo[n] \in Seq(Frames)
  BY DEF TypeOK, ChipStates
<1>2. /\ fifo[n] # <<>> /\ pc[n] = "handle"
      /\ fifo' = [fifo EXCEPT ![n] = IF chip[n] = "OVERFLOW" THEN <<>> ELSE Tail(@)]
      /\ gdo0' = [gdo0 EXCEPT ![n] = FALSE] /\ chip' = [chip EXCEPT ![n] = state]
  BY DEF ReceivePacket
<1>3. Tail(fifo[n]) \in Seq(Frames) /\ <<>> \in Seq(Frames)
  BY <1>1, <1>2, HeadTailProperties, EmptySeq
<1>4. chip' \in [Nodes -> ChipStates] /\ gdo0' \in [Nodes -> BOOLEAN]
  BY <1>1, <1>2 DEF ChipStates
<1>5. fifo' \in [Nodes -> Seq(Frames)]
  BY <1>1, <1>2, <1>3
<1>6. /\ fifo'[n] = Tail(fifo[n]) \/ fifo'[n] = <<>>
      /\ \A m \in Nodes : m # n => chip'[m] = chip[m] /\ fifo'[m] = fifo[m]
      /\ chip'[n] = state
  BY <1>1, <1>2
<1> QED BY <1>2, <1>4, <1>5, <1>6

\* A transmission that ends leaves its chip in RX.
LEMMA TxEnds ==
  ASSUME TypeOK, NEW n \in Nodes
  PROVE  /\ AfterTx(n) \in [Nodes -> ChipStates] /\ AfterTx(n)[n] = "RX"
         /\ \A m \in Nodes : m # n => AfterTx(n)[m] = chip[m]
  BY DEF AfterTx, TypeOK, ChipStates

\* The numbers of the way are numbers.
LEMMA NumbersType ==
  ASSUME TypeOK
  PROVE  /\ sent \in Nat /\ printed \in Nat
         /\ Lowest \in Int /\ Arriving \in Nat /\ Acked \in Nat /\ AckTop \in Nat /\ DataTop \in Nat
<1>1. sent \in Nat /\ printed \in Nat
  BY LimitsType DEF TypeOK
<1>2. held # None => held.number \in Nat
  BY LimitsType DEF TypeOK, Frames
<1>3. /\ air["sensor"] # None => air["sensor"].number \in Nat
      /\ air["gateway"] # None => air["gateway"].number \in Nat
  BY LimitsType DEF TypeOK, Frames, Nodes
<1> QED BY <1>1, <1>2, <1>3 DEF Lowest, Arriving, Acked, AckTop, DataTop

\* A FIFO that loses its first frame or all of them stays in order, between wider
\* bounds too.
LEMMA OrderedLess ==
  ASSUME NEW q \in Seq(Frames), NEW q2, NEW kind, NEW low \in Int, NEW high \in Int,
         NEW low2 \in Int, NEW high2 \in Int,
         Ordered(q, kind, low, high), low2 <= low, high <= high2,
         q2 = q \/ q2 = <<>> \/ (q # <<>> /\ q2 = Tail(q))
  PROVE  Ordered(q2, kind, low2, high2)
<1>1. CASE q2 = q
  BY <1>1, OrderedWider
<1>2. CASE q2 = <<>>
  BY <1>2, OrderedEmpty
<1>3. CASE q # <<>> /\ q2 = Tail(q)
  <2>1. Tail(q) \in Seq(Frames) /\ Ordered(Tail(q), kind, low, high)
    BY <1>3, OrderedTail
  <2> QED BY <1>3, <2>1, OrderedWider
<1> QED BY <1>1, <1>2, <1>3

\* The way when the FIFOs only lose frames and no number goes back.
LEMMA WayGoesOn ==
  ASSUME RadioInv, TypeOK', wait_acq' => sent' >= 1,
         Lowest' <= Lowest, AckTop <= AckTop', AckTop' <= Acked', Acked' <= Arriving',
         printed' <= Arriving', Arriving' <= printed' + 1, Arriving' <= Arriving,
         DataTop <= DataTop', DataTop' <= sent',
         \A n \in Nodes : \/ fifo'[n] = fifo[n] \/ fifo'[n] = <<>>
                          \/ fifo[n] # <<>> /\ fifo'[n] = Tail(fifo[n])
  PROVE  WayInv'
<1>1. /\ Lowest \in Int /\ AckTop \in Int /\ Arriving \in Int /\ DataTop \in Int
  BY NumbersType DEF RadioInv
<1>2. /\ Lowest' \in Int /\ AckTop' \in Int /\ Arriving' \in Int /\ DataTop' \in Int
  <2>1. /\ sent' \in Nat /\ printed' \in Nat
    BY LimitsType DEF TypeOK
  <2>2. held' # None => held'.number \in Nat
    BY LimitsType DEF TypeOK, Frames
  <2>3. /\ air'["sensor"] # None => air'["sensor"].number \in Nat
        /\ air'["gateway"] # None => air'["gateway"].number \in Nat
    BY LimitsType DEF TypeOK, Frames, Nodes
  <2> QED BY <2>1, <2>2, <2>3 DEF Lowest, Arriving, Acked, AckTop, DataTop
<1>3. fifo["sensor"] \in Seq(Frames) /\ fifo["gateway"] \in Seq(Frames)
  BY DEF RadioInv, TypeOK, Nodes
<1>4. Ordered(fifo'["sensor"], "ack", Lowest', AckTop')
  BY <1>1, <1>2, <1>3, OrderedLess DEF RadioInv, WayInv, Nodes
<1>5. Ordered(fifo'["gateway"], "data", Arriving', DataTop')
  BY <1>1, <1>2, <1>3, OrderedLess DEF RadioInv, WayInv, Nodes
<1>6. Lowest' <= AckTop' /\ Arriving' <= DataTop'
  BY <1>1, <1>2 DEF RadioInv, WayInv
<1> QED BY <1>4, <1>5, <1>6 DEF WayInv

-----------------------------------------------------------------------------
(* Transmissions. *)

\* A frame that reaches the other chip, and is received behind those before it.
LEMMA DeliveredKeeps ==
  ASSUME RadioInv, NEW n \in Nodes, Delivered(n)
  PROVE  RadioInv'
<1>1. TypeOK /\ AirInv /\ WayInv
  BY DEF RadioInv
<1>2. PICK m \in Nodes : m = Other(n) /\ m # n
  BY DEF Other, Nodes
<1>3. air[n] # None /\ air[n] \in Frames
  BY <1>1 DEF Delivered, AirInv, TypeOK
<1>4. PICK f \in Frames : f = air[n]
  BY <1>3
<1>5. /\ Receive(m, f, AfterTx(n)) /\ air' = [air EXCEPT ![n] = None]
      /\ UNCHANGED <<loops, pc, messages, foreign>>
  BY <1>2, <1>4 DEF Delivered
<1>6. /\ AfterTx(n) \in [Nodes -> ChipStates] /\ AfterTx(n)[n] = "RX" /\ AfterTx(n)[m] = chip[m]
  BY <1>1, <1>2, TxEnds
<1>7. /\ chip' \in [Nodes -> ChipStates] /\ fifo' \in [Nodes -> Seq(Frames)]
      /\ gdo0' \in [Nodes -> BOOLEAN] /\ check_rx' \in [Nodes -> BOOLEAN]
      /\ fifo'[m] = fifo[m] \/ fifo'[m] = Append(fifo[m], f)
      /\ fifo'[n] = fifo[n] /\ chip'[n] = "RX"
      /\ chip[m] = "RX" /\ (chip'[m] = "RX" \/ chip'[m] = "OVERFLOW")
  BY <1>1, <1>2, <1>5, <1>6, Receives
<1>8. air' \in [Nodes -> Frames \cup {None}] /\ air'[n] = None /\ air'[m] = air[m] /\ air[m] = None
  BY <1>1, <1>2, <1>5, <1>7 DEF TypeOK, AirInv
<1>9. TypeOK'
  BY <1>1, <1>5, <1>7, <1>8 DEF TypeOK, ChipStates, messages
<1>10. /\ pc' = pc /\ held' = held /\ sent' = sent /\ wait_acq' = wait_acq /\ printed' = printed
  BY <1>5 DEF messages
<1>11. n \in {"sensor", "gateway"} /\ m \in {"sensor", "gateway"}
  BY DEF Nodes
<1>12. AirInv'
  BY <1>1, <1>2, <1>7, <1>8, <1>10, <1>11 DEF AirInv, Nodes
<1>13. /\ sent \in Nat /\ printed \in Nat
       /\ Lowest \in Int /\ Arriving \in Nat /\ Acked \in Nat /\ AckTop \in Nat /\ DataTop \in Nat
  BY <1>1, NumbersType
<1>14. Lowest' = Lowest /\ Arriving' = Arriving /\ Acked' = Acked
  BY <1>10 DEF Lowest, Arriving, Acked
<1>15. fifo[m] \in Seq(Frames)
  BY <1>1 DEF TypeOK
<1>16. CASE n = "sensor"
  <2>1. m = "gateway"
    BY <1>2, <1>11, <1>16
  <2>2. f.number = DataTop /\ DataTop' = sent /\ AckTop' = AckTop
    BY <1>3, <1>4, <1>8, <1>10, <1>14, <1>16, <2>1 DEF DataTop, AckTop
  <2>3. Ordered(fifo'["gateway"], "data", Arriving, DataTop)
    <3>1. Arriving \in Int /\ DataTop \in Int /\ Arriving <= f.number /\ f.number = DataTop
      BY <1>1, <1>13, <2>2 DEF WayInv
    <3>2. Ordered(fifo[m], "data", Arriving, DataTop)
      BY <1>1, <2>1 DEF WayInv
    <3>3. Ordered(Append(fifo[m], f), "data", Arriving, DataTop)
      BY <1>15, <3>1, <3>2, OrderedAppend
    <3> QED BY <1>7, <2>1, <3>2, <3>3
  <2>4. fifo'["gateway"] \in Seq(Frames)
    BY <1>7, <2>1
  <2>5. Ordered(fifo'["gateway"], "data", Arriving, sent)
    BY <1>1, <1>13, <2>3, <2>4, OrderedWider DEF WayInv
  <2>6. fifo'["sensor"] = fifo["sensor"]
    BY <1>7, <1>16
  <2> QED BY <1>1, <1>9, <1>10, <1>12, <1>13, <1>14, <2>2, <2>5, <2>6 DEF WayInv, RadioInv
<1>17. CASE n = "gateway"
  <2>1. m = "sensor"
    BY <1>2, <1>11, <1>17
  <2>2. f.number = AckTop /\ AckTop' = Acked /\ DataTop' = DataTop
    BY <1>3, <1>4, <1>8, <1>10, <1>14, <1>17, <2>1 DEF DataTop, AckTop
  <2>3. Ordered(fifo'["sensor"], "ack", Lowest, AckTop)
    <3>1. Lowest \in Int /\ AckTop \in Int /\ Lowest <= f.number /\ f.number = AckTop
      BY <1>1, <1>13, <2>2 DEF WayInv
    <3>2. Ordered(fifo[m], "ack", Lowest, AckTop)
      BY <1>1, <2>1 DEF WayInv
    <3>3. Ordered(Append(fifo[m], f), "ack", Lowest, AckTop)
      BY <1>15, <3>1, <3>2, OrderedAppend
    <3> QED BY <1>7, <2>1, <3>2, <3>3
  <2>4. fifo'["sensor"] \in Seq(Frames)
    BY <1>7, <2>1
  <2>5. Ordered(fifo'["sensor"], "ack", Lowest, Acked)
    BY <1>1, <1>13, <2>3, <2>4, OrderedWider DEF WayInv
  <2>6. fifo'["gateway"] = fifo["gateway"]
    BY <1>7, <1>17
  <2> QED BY <1>1, <1>9, <1>10, <1>12, <1>13, <1>14, <2>2, <2>5, <2>6 DEF WayInv, RadioInv
<1> QED BY <1>11, <1>16, <1>17

\* A frame that nobody hears, or that is spoilt.
LEMMA LostKeeps ==
  ASSUME RadioInv, NEW n \in Nodes, Unheard(n) \/ Spoilt(n)
  PROVE  RadioInv'
<1>1. TypeOK /\ AirInv /\ WayInv
  BY DEF RadioInv
<1>2. PICK m \in Nodes : m = Other(n) /\ m # n /\ Nodes = {n, m}
  BY DEF Other, Nodes
<1>3. /\ chip[n] = "TX" /\ chip' = AfterTx(n) /\ air' = [air EXCEPT ![n] = None]
      /\ fifo' = fifo \/ fifo' = [fifo EXCEPT ![m] = <<>>]
      /\ UNCHANGED <<gdo0, boards, messages, foreign>>
  BY <1>2 DEF Unheard, Spoilt
<1>4. /\ chip' \in [Nodes -> ChipStates] /\ chip'[n] = "RX" /\ chip'[m] = chip[m]
  BY <1>1, <1>2, <1>3, TxEnds
<1>5. /\ air' \in [Nodes -> Frames \cup {None}] /\ air'[n] = None /\ air'[m] = air[m] /\ air[n] # None
  BY <1>1, <1>2, <1>3 DEF TypeOK, AirInv
<1>6. /\ fifo' \in [Nodes -> Seq(Frames)] /\ \A k \in Nodes : fifo'[k] = fifo[k] \/ fifo'[k] = <<>>
  <2>1. fifo \in [Nodes -> Seq(Frames)] /\ <<>> \in Seq(Frames)
    BY <1>1, EmptySeq DEF TypeOK
  <2> QED BY <1>3, <2>1
<1>7. TypeOK'
  BY <1>1, <1>3, <1>4, <1>5, <1>6 DEF TypeOK, ChipStates, messages, boards
<1>8. /\ pc' = pc /\ held' = held /\ sent' = sent /\ wait_acq' = wait_acq /\ printed' = printed
  BY <1>3 DEF messages, boards
<1>9. AirInv'
  BY <1>1, <1>2, <1>4, <1>5, <1>8 DEF AirInv, Nodes
<1>10. /\ sent \in Nat /\ printed \in Nat
       /\ Lowest \in Int /\ Arriving \in Nat /\ Acked \in Nat /\ AckTop \in Nat /\ DataTop \in Nat
  BY <1>1, NumbersType
<1>11. Lowest' = Lowest /\ Arriving' = Arriving /\ Acked' = Acked
  BY <1>8 DEF Lowest, Arriving, Acked
<1>12. DataTop' = DataTop \/ DataTop' = sent
  BY <1>2, <1>5, <1>8 DEF DataTop, Nodes
<1>13. AckTop' = AckTop \/ AckTop' = Acked
  BY <1>2, <1>5, <1>11 DEF AckTop, Nodes
<1>14. WayInv'
  BY <1>1, <1>6, <1>7, <1>8, <1>10, <1>11, <1>12, <1>13, WayGoesOn DEF WayInv
<1> QED BY <1>7, <1>9, <1>14 DEF RadioInv

\* A frame of another transmitter, which is of neither kind.
LEMMA ForeignKeeps ==
  ASSUME RadioInv, NEW n \in Nodes, ForeignFrame(n)
  PROVE  RadioInv'
<1>1. TypeOK /\ AirInv /\ WayInv
  BY DEF RadioInv
<1>2. Foreign \in Frames
  BY LimitsType DEF Foreign, Frames
<1>3. chip \in [Nodes -> ChipStates]
  BY <1>1 DEF TypeOK, ChipStates
<1>4. /\ Receive(n, Foreign, chip) /\ foreign < MaxForeign /\ foreign' = foreign + 1
      /\ UNCHANGED <<air, loops, pc, messages>>
  BY DEF ForeignFrame
<1>5. /\ chip' \in [Nodes -> ChipStates] /\ fifo' \in [Nodes -> Seq(Frames)]
      /\ gdo0' \in [Nodes -> BOOLEAN] /\ check_rx' \in [Nodes -> BOOLEAN]
      /\ fifo'[n] = fifo[n] \/ fifo'[n] = Append(fifo[n], Foreign)
      /\ \A m \in Nodes : m # n => fifo'[m] = fifo[m] /\ chip'[m] = chip[m]
      /\ chip[n] = "RX" /\ (chip'[n] = chip[n] \/ chip'[n] = "OVERFLOW")
  BY <1>1, <1>2, <1>3, <1>4, Receives
<1>6. foreign' \in 0 .. MaxForeign
  BY <1>1, <1>4, LimitsType DEF TypeOK
<1>7. TypeOK'
  BY <1>1, <1>4, <1>5, <1>6 DEF TypeOK, ChipStates, messages
<1>8. /\ pc' = pc /\ held' = held /\ sent' = sent /\ wait_acq' = wait_acq /\ printed' = printed
      /\ air' = air
  BY <1>4 DEF messages
<1>9. AirInv'
  BY <1>1, <1>5, <1>8 DEF AirInv, Nodes
<1>10. /\ sent \in Nat /\ printed \in Nat
       /\ Lowest \in Int /\ Arriving \in Nat /\ Acked \in Nat /\ AckTop \in Nat /\ DataTop \in Nat
  BY <1>1, NumbersType
<1>11. /\ Lowest' = Lowest /\ Arriving' = Arriving /\ Acked' = Acked
       /\ DataTop' = DataTop /\ AckTop' = AckTop
  BY <1>8 DEF Lowest, Arriving, Acked, DataTop, AckTop
<1>12. ASSUME NEW m \in Nodes, NEW kind \in {"data", "ack"}, NEW low \in Int, NEW high \in Int,
              Ordered(fifo[m], kind, low, high)
       PROVE  Ordered(fifo'[m], kind, low, high)
  <2>1. fifo[m] \in Seq(Frames) /\ Foreign.kind # kind
    BY <1>1 DEF TypeOK, Foreign
  <2> QED BY <1>2, <1>5, <1>12, <2>1, OrderedAppend
<1>13. Ordered(fifo'["sensor"], "ack", Lowest, AckTop) /\ Ordered(fifo'["gateway"], "data", Arriving, DataTop)
  BY <1>1, <1>10, <1>12 DEF WayInv, Nodes
<1> QED BY <1>1, <1>7, <1>8, <1>9, <1>11, <1>13 DEF WayInv, RadioInv

-----------------------------------------------------------------------------
(* The boards' loops. *)

\* The second half of a loop, whatever it finds.
LEMMA PollKeeps ==
  ASSUME RadioInv, NEW n \in Nodes, NEW to \in {"send", "poll"},
         to = IF n = "sensor" THEN "send" ELSE "poll", Poll(n, to)
  PROVE  RadioInv'
<1>1. TypeOK /\ AirInv /\ WayInv
  BY DEF RadioInv
<1>2. /\ pc[n] = "poll" /\ chip[n] # "TX"
      /\ loops' = [loops EXCEPT ![n] = IF chip[n] = "RX" THEN @ ELSE NextLoops(n)]
      /\ \/ UNCHANGED <<chip, fifo>>
         \/ chip' = [chip EXCEPT ![n] = "RX"] /\ fifo' = [fifo EXCEPT ![n] = <<>>]
      /\ check_rx' = [check_rx EXCEPT ![n] = FALSE]
      /\ pc' = [pc EXCEPT ![n] = IF check_rx[n] THEN "handle" ELSE to]
      /\ UNCHANGED <<gdo0, air, messages, foreign>>
  BY DEF Poll
<1>3. /\ chip' \in [Nodes -> ChipStates] /\ chip'[n] # "TX"
      /\ \A m \in Nodes : m # n => chip'[m] = chip[m]
  BY <1>1, <1>2 DEF TypeOK, ChipStates
<1>4. /\ fifo' \in [Nodes -> Seq(Frames)] /\ \A k \in Nodes : fifo'[k] = fifo[k] \/ fifo'[k] = <<>>
  <2>1. fifo \in [Nodes -> Seq(Frames)] /\ <<>> \in Seq(Frames)
    BY <1>1, EmptySeq DEF TypeOK
  <2> QED BY <1>2, <2>1
<1>5. loops' \in [Nodes -> 0 .. LoopLimit]
  <2>1. loops \in [Nodes -> 0 .. LoopLimit] /\ NextLoops(n) \in 0 .. LoopLimit
    BY <1>1, LimitsType DEF TypeOK, NextLoops
  <2> QED BY <1>2, <2>1
<1>6. /\ pc' \in [Nodes -> Places] /\ pc'[n] \in {"handle", to}
      /\ \A m \in Nodes : m # n => pc'[m] = pc[m]
  <2>1. pc \in [Nodes -> Places] /\ "handle" \in Places /\ to \in Places
    BY <1>1 DEF TypeOK, Places
  <2> QED BY <1>2, <2>1
<1>7. TypeOK'
  <2>1. check_rx' \in [Nodes -> BOOLEAN]
    BY <1>1, <1>2 DEF TypeOK
  <2> QED BY <1>1, <1>2, <1>3, <1>4, <1>5, <1>6, <2>1 DEF TypeOK, ChipStates, Places, messages
<1>8. /\ held' = held /\ sent' = sent /\ wait_acq' = wait_acq /\ printed' = printed /\ air' = air
  BY <1>2 DEF messages
<1>9. AirInv'
  BY <1>1, <1>2, <1>3, <1>6, <1>8 DEF AirInv, Nodes
<1>10. /\ sent \in Nat /\ printed \in Nat
       /\ Lowest \in Int /\ Arriving \in Nat /\ Acked \in Nat /\ AckTop \in Nat /\ DataTop \in Nat
  BY <1>1, NumbersType
<1>11. pc'["gateway"] = "print" <=> pc["gateway"] = "print"
  BY <1>2, <1>6 DEF Nodes
<1>12. /\ Lowest' = Lowest /\ Arriving' = Arriving /\ Acked' = Acked
       /\ DataTop' = DataTop /\ AckTop' = AckTop
  BY <1>8, <1>11 DEF Lowest, Arriving, Acked, DataTop, AckTop
<1>13. WayInv'
  BY <1>1, <1>4, <1>7, <1>8, <1>10, <1>12, WayGoesOn DEF WayInv
<1> QED BY <1>7, <1>9, <1>13 DEF RadioInv

\* The handler, when the FIFO is empty.
LEMMA HandleNothingKeeps ==
  ASSUME RadioInv, NEW n \in Nodes, NEW to \in {"send", "poll"},
         to = IF n = "sensor" THEN "send" ELSE "poll", HandleNothing(n, to)
  PROVE  RadioInv'
<1>1. TypeOK /\ AirInv /\ WayInv
  BY DEF RadioInv
<1>2. /\ pc[n] = "handle"
      /\ chip' = [chip EXCEPT ![n] = "IDLE"] /\ gdo0' = [gdo0 EXCEPT ![n] = FALSE]
      /\ check_rx' = [check_rx EXCEPT ![n] = FALSE] /\ pc' = [pc EXCEPT ![n] = to]
      /\ UNCHANGED <<fifo, air, loops, messages, foreign>>
  BY DEF HandleNothing
<1>3. /\ chip' \in [Nodes -> ChipStates] /\ chip'[n] = "IDLE" /\ chip[n] # "TX"
      /\ \A m \in Nodes : m # n => chip'[m] = chip[m]
  BY <1>1, <1>2 DEF TypeOK, ChipStates, AirInv
<1>4. /\ pc' \in [Nodes -> Places] /\ pc'[n] = to
      /\ \A m \in Nodes : m # n => pc'[m] = pc[m]
  <2>1. pc \in [Nodes -> Places] /\ to \in Places
    BY <1>1 DEF TypeOK, Places
  <2> QED BY <1>2, <2>1
<1>5. TypeOK'
  <2>1. check_rx' \in [Nodes -> BOOLEAN] /\ gdo0' \in [Nodes -> BOOLEAN]
    BY <1>1, <1>2 DEF TypeOK
  <2> QED BY <1>1, <1>2, <1>3, <1>4, <2>1 DEF TypeOK, ChipStates, Places, messages
<1>6. /\ held' = held /\ sent' = sent /\ wait_acq' = wait_acq /\ printed' = printed
      /\ air' = air /\ fifo' = fifo
  BY <1>2 DEF messages
<1>7. AirInv'
  BY <1>1, <1>2, <1>3, <1>4, <1>6 DEF AirInv, Nodes
<1>8. pc'["gateway"] = "print" <=> pc["gateway"] = "print"
  BY <1>2, <1>4 DEF Nodes
<1>9. /\ Lowest' = Lowest /\ Arriving' = Arriving /\ Acked' = Acked
      /\ DataTop' = DataTop /\ AckTop' = AckTop
  BY <1>6, <1>8 DEF Lowest, Arriving, Acked, DataTop, AckTop
<1> QED BY <1>1, <1>5, <1>6, <1>7, <1>9 DEF WayInv, RadioInv

-----------------------------------------------------------------------------
(* The sensor's board. *)

\* What the sensor sends bears its last number; nothing of it is in the air yet.
LEMMA SensorSends ==
  ASSUME RadioInv, NEW number \in 0 .. MaxMessages,
         SendPacket("sensor", DataFrame(number), "poll"),
         pc["sensor"] \in {"send", "spin"},
         sent' = number, sent <= number,
         wait_acq' \in BOOLEAN, wait_acq' => sent' >= 1,
         Lowest' = Lowest,
         UNCHANGED <<gdo0, check_rx, loops, held, printed, foreign>>
  PROVE  RadioInv'
<1>1. TypeOK /\ AirInv /\ WayInv
  BY DEF RadioInv
<1>2. "sensor" \in Nodes /\ "gateway" \in Nodes /\ "poll" \in Places
  BY DEF Nodes, Places
<1>3. DataFrame(number) \in Frames
  BY DEF DataFrame, Frames
<1>4. PICK f \in Frames : f = DataFrame(number)
  BY <1>3
<1>5. /\ chip' \in [Nodes -> ChipStates] /\ fifo' \in [Nodes -> Seq(Frames)]
      /\ air' \in [Nodes -> Frames \cup {None}] /\ pc' \in [Nodes -> Places]
      /\ \A m \in Nodes : m # "sensor" =>
           chip'[m] = chip[m] /\ fifo'[m] = fifo[m] /\ air'[m] = air[m] /\ pc'[m] = pc[m]
      /\ fifo'["sensor"] = fifo["sensor"] \/ fifo'["sensor"] = <<>>
      /\ \/ chip' = chip /\ air' = air /\ pc'["sensor"] = "spin" /\ chip["sensor"] = "RX"
         \/ chip'["sensor"] = "TX" /\ air'["sensor"] = f /\ pc'["sensor"] = "poll"
  BY <1>1, <1>2, <1>4, Sends
<1>6. chip["sensor"] # "TX" /\ air["sensor"] = None
  BY <1>1, <1>2 DEF AirInv
<1>7. f.kind = "data" /\ f.number = number /\ f # None
  BY <1>4, NoneType DEF DataFrame
<1>8. TypeOK'
  BY <1>1, <1>5 DEF TypeOK, ChipStates, Places
<1>9. held' = held /\ printed' = printed
  OBVIOUS
<1>10. AirInv'
  BY <1>1, <1>2, <1>5, <1>6, <1>7, <1>9 DEF AirInv, Nodes
<1>11. /\ sent \in Nat /\ printed \in Nat /\ number \in Nat
       /\ Lowest \in Int /\ Arriving \in Nat /\ Acked \in Nat /\ AckTop \in Nat /\ DataTop \in Nat
  BY <1>1, NumbersType
<1>12. Arriving' = Arriving /\ Acked' = Acked /\ AckTop' = AckTop
  BY <1>2, <1>5, <1>9 DEF Arriving, Acked, AckTop
<1>13. DataTop = sent /\ DataTop' = number
  BY <1>5, <1>6, <1>7 DEF DataTop
<1>14. \A n \in Nodes : fifo'[n] = fifo[n] \/ fifo'[n] = <<>>
  BY <1>5
<1>15. WayInv'
  BY <1>1, <1>8, <1>9, <1>11, <1>12, <1>13, <1>14, WayGoesOn DEF WayInv
<1> QED BY <1>8, <1>10, <1>15 DEF RadioInv

\* A new message, only when the last one is acknowledged.
LEMMA SendNewMessageKeeps ==
  ASSUME RadioInv, SendNewMessage
  PROVE  RadioInv'
<1>1. sent \in Nat /\ sent \in 0 .. MaxMessages
  BY LimitsType DEF RadioInv, TypeOK
<1>2. /\ pc["sensor"] = "send" /\ ~wait_acq /\ sent < MaxMessages /\ sent' = sent + 1
      /\ wait_acq' = TRUE /\ SendPacket("sensor", DataFrame(sent + 1), "poll")
      /\ UNCHANGED <<gdo0, check_rx, loops, held, printed, foreign>>
  BY DEF SendNewMessage
<1>3. PICK number \in 0 .. MaxMessages : number = sent + 1
  BY <1>1, <1>2, LimitsType
<1>4. Lowest' = Lowest
  BY <1>1, <1>2 DEF Lowest
<1> QED BY <1>1, <1>2, <1>3, <1>4, SensorSends

\* The last message again.
LEMMA ResendKeeps ==
  ASSUME RadioInv, ResendLastMessage \/ SensorSpinEnds
  PROVE  RadioInv'
<1>1. sent \in Nat /\ sent \in 0 .. MaxMessages /\ wait_acq \in BOOLEAN /\ (wait_acq => sent >= 1)
  BY LimitsType DEF RadioInv, TypeOK, WayInv
<1>2. /\ pc["sensor"] \in {"send", "spin"} /\ SendPacket("sensor", DataFrame(sent), "poll")
      /\ UNCHANGED <<gdo0, check_rx, loops, messages, foreign>>
  BY DEF ResendLastMessage, SensorSpinEnds, SpinEnds
<1>3. /\ sent' = sent /\ wait_acq' = wait_acq
      /\ UNCHANGED <<gdo0, check_rx, loops, held, printed, foreign>>
  BY <1>2 DEF messages
<1>4. Lowest' = Lowest
  BY <1>3 DEF Lowest
<1> QED BY <1>1, <1>2, <1>3, <1>4, SensorSends

\* Nothing to send.
LEMMA NothingToSendKeeps ==
  ASSUME RadioInv, NothingToSend
  PROVE  RadioInv'
<1>1. TypeOK /\ AirInv /\ WayInv
  BY DEF RadioInv
<1>2. /\ pc' = [pc EXCEPT !["sensor"] = "poll"] /\ chip' = chip /\ fifo' = fifo /\ gdo0' = gdo0
      /\ air' = air /\ check_rx' = check_rx /\ loops' = loops /\ sent' = sent
      /\ wait_acq' = wait_acq /\ held' = held /\ printed' = printed /\ foreign' = foreign
  BY DEF NothingToSend, chips, messages
<1>3. /\ pc' \in [Nodes -> Places] /\ pc'["sensor"] = "poll" /\ pc'["gateway"] = pc["gateway"]
  BY <1>1, <1>2 DEF TypeOK, Places, Nodes
<1>4. TypeOK'
  BY <1>1, <1>2, <1>3 DEF TypeOK, Places
<1>5. AirInv'
  BY <1>1, <1>2, <1>3 DEF AirInv, Nodes
<1>6. WayInv'
  BY <1>1, <1>2, <1>3 DEF WayInv, Lowest, Arriving, Acked, DataTop, AckTop
<1> QED BY <1>4, <1>5, <1>6 DEF RadioInv

\* Numbers that are at most one apart and agree modulo IdMod are equal.
LEMMA SameIdIsSame ==
  ASSUME NEW a \in Nat, NEW b \in Nat, a <= b, b <= a + 1, a % IdMod = b % IdMod
  PROVE  a = b
<1>1. IdMod \in Nat \ {0} /\ IdMod >= 2
  BY IdModType
<1>2. CASE a < b
  <2>1. b - a < IdMod
    BY <1>1, <1>2
  <2> QED BY <1>1, <1>2, <2>1, ModDistinct
<1> QED BY <1>2

\* An acknowledgement, of the last message or of the one before: when it is that
\* of the last, what is behind it is of the last message too.
LEMMA SensorHandlesKeeps ==
  ASSUME RadioInv, SensorHandles
  PROVE  RadioInv'
<1>1. TypeOK /\ AirInv /\ WayInv
  BY DEF RadioInv
<1>2. "sensor" \in Nodes /\ "gateway" \in Nodes
  BY DEF Nodes
<1>3. PICK f : f = Head(fifo["sensor"])
  OBVIOUS
<1>4. /\ ReceivePacket("sensor", "RX")
      /\ wait_acq' = (wait_acq /\ ~IsExpectedAck(f))
      /\ pc' = [pc EXCEPT !["sensor"] = "send"]
      /\ UNCHANGED <<air, check_rx, loops, sent, held, printed, foreign>>
  BY <1>3 DEF SensorHandles
<1>5. /\ chip' \in [Nodes -> ChipStates] /\ fifo' \in [Nodes -> Seq(Frames)]
      /\ gdo0' \in [Nodes -> BOOLEAN]
      /\ \A m \in Nodes : m # "sensor" => chip'[m] = chip[m] /\ fifo'[m] = fifo[m]
      /\ pc["sensor"] = "handle" /\ chip'["sensor"] = "RX" /\ fifo["sensor"] # <<>>
      /\ fifo'["sensor"] = Tail(fifo["sensor"]) \/ fifo'["sensor"] = <<>>
  BY <1>1, <1>2, <1>4, Takes
<1>6. /\ pc' \in [Nodes -> Places] /\ pc'["sensor"] = "send" /\ pc'["gateway"] = pc["gateway"]
  BY <1>1, <1>2, <1>4 DEF TypeOK, Places
<1>7. /\ sent \in Nat /\ printed \in Nat
      /\ Lowest \in Int /\ Arriving \in Nat /\ Acked \in Nat /\ AckTop \in Nat /\ DataTop \in Nat
  BY <1>1, NumbersType
<1>8. fifo["sensor"] \in Seq(Frames)
  BY <1>1, <1>2 DEF TypeOK
<1>9. /\ f \in Frames /\ Tail(fifo["sensor"]) \in Seq(Frames)
      /\ f.kind = "ack" => /\ Lowest <= f.number /\ f.number <= AckTop
                           /\ Ordered(Tail(fifo["sensor"]), "ack", f.number, AckTop)
  <2>1. Ordered(fifo["sensor"], "ack", Lowest, AckTop) /\ AckTop \in Int
    BY <1>1, <1>7 DEF WayInv
  <2>2. PICK q \in Seq(Frames) : q = fifo["sensor"]
    BY <1>8
  <2> QED BY <1>3, <1>5, <1>7, <2>1, <2>2, OrderedTail
<1>10. TypeOK'
  <2>1. wait_acq' \in BOOLEAN
    BY <1>1, <1>4 DEF TypeOK
  <2> QED BY <1>1, <1>4, <1>5, <1>6, <2>1 DEF TypeOK, ChipStates, Places
<1>11. AirInv'
  BY <1>1, <1>2, <1>4, <1>5, <1>6 DEF AirInv, Nodes
<1>12. Arriving' = Arriving /\ Acked' = Acked /\ DataTop' = DataTop /\ AckTop' = AckTop
  BY <1>4, <1>6 DEF Arriving, Acked, DataTop, AckTop
<1>13. CASE wait_acq' = wait_acq
  <2>1. Lowest' = Lowest
    BY <1>4, <1>13 DEF Lowest
  <2>2. \A n \in Nodes : \/ fifo'[n] = fifo[n] \/ fifo'[n] = <<>>
                         \/ fifo[n] # <<>> /\ fifo'[n] = Tail(fifo[n])
    BY <1>5
  <2>3. WayInv'
    BY <1>1, <1>4, <1>7, <1>10, <1>12, <1>13, <2>1, <2>2, WayGoesOn DEF WayInv
  <2> QED BY <1>10, <1>11, <2>3 DEF RadioInv
<1>14. CASE wait_acq' # wait_acq
  <2>1. wait_acq = TRUE /\ wait_acq' = FALSE /\ f.kind = "ack" /\ f.number % IdMod = sent % IdMod
    BY <1>1, <1>4, <1>14 DEF TypeOK, IsExpectedAck
  <2>2. Lowest = sent - 1 /\ Lowest' = sent /\ sent >= 1
    BY <1>1, <1>4, <2>1 DEF Lowest, WayInv
  <2>3. f.number \in Nat /\ f.number <= sent /\ sent <= f.number + 1
    <3>1. f.number \in Nat
      BY <1>9, LimitsType DEF Frames
    <3> QED BY <1>1, <1>7, <1>9, <2>1, <2>2, <3>1 DEF WayInv
  <2>4. f.number = sent
    BY <1>7, <2>1, <2>3, SameIdIsSame
  <2>5. AckTop = sent
    BY <1>1, <1>7, <1>9, <2>1, <2>4 DEF WayInv
  <2>6. Ordered(fifo'["sensor"], "ack", sent, AckTop)
    BY <1>5, <1>9, <2>1, <2>4, OrderedEmpty
  <2>7. fifo'["gateway"] = fifo["gateway"]
    BY <1>2, <1>5
  <2>8. WayInv'
    BY <1>1, <1>4, <1>7, <1>12, <2>1, <2>2, <2>5, <2>6, <2>7 DEF WayInv
  <2> QED BY <1>10, <1>11, <2>8 DEF RadioInv
<1> QED BY <1>13, <1>14

-----------------------------------------------------------------------------
(* The gateway's board. *)

\* A frame that is not for the gateway.
LEMMA GatewayIgnoresKeeps ==
  ASSUME RadioInv, GatewayIgnores
  PROVE  RadioInv'
<1>1. TypeOK /\ AirInv /\ WayInv
  BY DEF RadioInv
<1>2. "sensor" \in Nodes /\ "gateway" \in Nodes
  BY DEF Nodes
<1>3. /\ ReceivePacket("gateway", "IDLE")
      /\ pc' = [pc EXCEPT !["gateway"] = "poll"]
      /\ UNCHANGED <<air, check_rx, loops, messages, foreign>>
  BY DEF GatewayIgnores
<1>4. /\ chip' \in [Nodes -> ChipStates] /\ fifo' \in [Nodes -> Seq(Frames)]
      /\ gdo0' \in [Nodes -> BOOLEAN]
      /\ \A m \in Nodes : m # "gateway" => chip'[m] = chip[m] /\ fifo'[m] = fifo[m]
      /\ pc["gateway"] = "handle" /\ chip'["gateway"] = "IDLE" /\ fifo["gateway"] # <<>>
      /\ fifo'["gateway"] = Tail(fifo["gateway"]) \/ fifo'["gateway"] = <<>>
  BY <1>1, <1>2, <1>3, Takes
<1>5. /\ pc' \in [Nodes -> Places] /\ pc'["gateway"] = "poll" /\ pc'["sensor"] = pc["sensor"]
  BY <1>1, <1>2, <1>3 DEF TypeOK, Places
<1>6. /\ sent \in Nat /\ printed \in Nat
      /\ Lowest \in Int /\ Arriving \in Nat /\ Acked \in Nat /\ AckTop \in Nat /\ DataTop \in Nat
  BY <1>1, NumbersType
<1>7. /\ air' = air /\ sent' = sent /\ wait_acq' = wait_acq /\ held' = held /\ printed' = printed
  BY <1>3 DEF messages
<1>8. TypeOK'
  BY <1>1, <1>3, <1>4, <1>5, <1>7 DEF TypeOK, ChipStates, Places
<1>9. AirInv'
  BY <1>1, <1>2, <1>4, <1>5, <1>7 DEF AirInv, Nodes
<1>10. /\ Lowest' = Lowest /\ Arriving' = Arriving /\ Acked' = Acked
       /\ DataTop' = DataTop /\ AckTop' = AckTop
  BY <1>4, <1>5, <1>7 DEF Lowest, Arriving, Acked, DataTop, AckTop
<1>11. \A n \in Nodes : \/ fifo'[n] = fifo[n] \/ fifo'[n] = <<>>
                        \/ fifo[n] # <<>> /\ fifo'[n] = Tail(fifo[n])
  BY <1>4
<1>12. WayInv'
  BY <1>1, <1>6, <1>7, <1>8, <1>10, <1>11, WayGoesOn DEF WayInv
<1> QED BY <1>8, <1>9, <1>12 DEF RadioInv

\* A message is taken: the last one printed again, or the next, since whatever is
\* behind the last one acknowledged is at most one further.
LEMMA GatewayReadsKeeps ==
  ASSUME RadioInv, GatewayReads
  PROVE  RadioInv'
<1>1. TypeOK /\ AirInv /\ WayInv
  BY DEF RadioInv
<1>2. "sensor" \in Nodes /\ "gateway" \in Nodes
  BY DEF Nodes
<1>3. PICK f : f = Head(fifo["gateway"])
  OBVIOUS
<1>4. /\ ReceivePacket("gateway", "RX") /\ f.kind = "data" /\ held' = f
      /\ pc' = [pc EXCEPT !["gateway"] = "acknowledge"]
      /\ UNCHANGED <<air, check_rx, loops, sent, wait_acq, printed, foreign>>
  BY <1>3 DEF GatewayReads
<1>5. /\ chip' \in [Nodes -> ChipStates] /\ fifo' \in [Nodes -> Seq(Frames)]
      /\ gdo0' \in [Nodes -> BOOLEAN]
      /\ \A m \in Nodes : m # "gateway" => chip'[m] = chip[m] /\ fifo'[m] = fifo[m]
      /\ pc["gateway"] = "handle" /\ chip'["gateway"] = "RX" /\ fifo["gateway"] # <<>>
      /\ fifo'["gateway"] = Tail(fifo["gateway"]) \/ fifo'["gateway"] = <<>>
  BY <1>1, <1>2, <1>4, Takes
<1>6. /\ pc' \in [Nodes -> Places] /\ pc'["gateway"] = "acknowledge" /\ pc'["sensor"] = pc["sensor"]
  BY <1>1, <1>2, <1>4 DEF TypeOK, Places
<1>7. /\ sent \in Nat /\ printed \in Nat
      /\ Lowest \in Int /\ Arriving \in Nat /\ Acked \in Nat /\ AckTop \in Nat /\ DataTop \in Nat
  BY <1>1, NumbersType
<1>8. /\ f \in Frames
      /\ Arriving <= f.number /\ f.number <= DataTop
      /\ Ordered(Tail(fifo["gateway"]), "data", f.number, DataTop)
  <2>1. Ordered(fifo["gateway"], "data", Arriving, DataTop) /\ DataTop \in Int /\ Arriving \in Int
    BY <1>1, <1>7 DEF WayInv
  <2>2. PICK q \in Seq(Frames) : q = fifo["gateway"]
    BY <1>1, <1>2 DEF TypeOK
  <2> QED BY <1>3, <1>4, <1>5, <2>1, <2>2, OrderedTail
<1>9. f.number \in Nat /\ f # None
  BY <1>8, LimitsType, NoneType DEF Frames
<1>10. TypeOK'
  BY <1>1, <1>4, <1>5, <1>6, <1>8 DEF TypeOK, ChipStates, Places
<1>11. AirInv'
  BY <1>1, <1>2, <1>4, <1>5, <1>6, <1>9 DEF AirInv, Nodes
<1>12. held = None /\ Arriving = printed /\ Acked = printed
  BY <1>1, <1>5 DEF AirInv, Arriving, Acked
<1>13. Arriving' = f.number /\ Acked' = printed
  BY <1>4, <1>6, <1>9 DEF Arriving, Acked
<1>14. AckTop' = AckTop
  BY <1>4, <1>12, <1>13 DEF AckTop
<1>15. /\ Lowest' = Lowest /\ DataTop' = DataTop
  BY <1>4 DEF Lowest, DataTop
<1>16. Lowest >= sent - 1
  BY <1>1, <1>7 DEF Lowest, TypeOK
<1>17. f.number <= printed + 1
  BY <1>1, <1>7, <1>8, <1>9, <1>12, <1>16 DEF WayInv
<1>18. Ordered(fifo'["gateway"], "data", f.number, DataTop)
  BY <1>5, <1>8, OrderedEmpty
<1>19. fifo'["sensor"] = fifo["sensor"]
  BY <1>2, <1>5
<1>20. WayInv'
  BY <1>1, <1>4, <1>7, <1>8, <1>9, <1>12, <1>13, <1>14, <1>15, <1>17, <1>18, <1>19 DEF WayInv
<1> QED BY <1>10, <1>11, <1>20 DEF RadioInv

\* The acknowledgement of the message in hand, before it is printed.
LEMMA GatewayAcknowledgesKeeps ==
  ASSUME RadioInv, GatewayAcknowledges
  PROVE  RadioInv'
<1>1. TypeOK /\ AirInv /\ WayInv
  BY DEF RadioInv
<1>2. "sensor" \in Nodes /\ "gateway" \in Nodes /\ "print" \in Places
  BY DEF Nodes, Places
<1>3. /\ pc["gateway"] \in {"acknowledge", "spin"}
      /\ SendPacket("gateway", AckFrame(held.number), "print")
      /\ UNCHANGED <<gdo0, check_rx, loops, messages, foreign>>
  BY DEF GatewayAcknowledges, SpinEnds
<1>4. held # None /\ held \in Frames
  BY <1>1, <1>3 DEF AirInv, TypeOK
<1>5. PICK f \in Frames : f = AckFrame(held.number)
  BY <1>4 DEF AckFrame, Frames
<1>6. /\ chip' \in [Nodes -> ChipStates] /\ fifo' \in [Nodes -> Seq(Frames)]
      /\ air' \in [Nodes -> Frames \cup {None}] /\ pc' \in [Nodes -> Places]
      /\ \A m \in Nodes : m # "gateway" =>
           chip'[m] = chip[m] /\ fifo'[m] = fifo[m] /\ air'[m] = air[m] /\ pc'[m] = pc[m]
      /\ fifo'["gateway"] = fifo["gateway"] \/ fifo'["gateway"] = <<>>
      /\ \/ chip' = chip /\ air' = air /\ pc'["gateway"] = "spin" /\ chip["gateway"] = "RX"
         \/ chip'["gateway"] = "TX" /\ air'["gateway"] = f /\ pc'["gateway"] = "print"
  BY <1>1, <1>2, <1>3, <1>5, Sends
<1>7. chip["gateway"] # "TX" /\ air["gateway"] = None
  BY <1>1, <1>2, <1>3 DEF AirInv
<1>8. f.kind = "ack" /\ f.number = held.number /\ f # None
  BY <1>5, NoneType DEF AckFrame
<1>9. /\ sent' = sent /\ wait_acq' = wait_acq /\ held' = held /\ printed' = printed
  BY <1>3 DEF messages
<1>10. TypeOK'
  BY <1>1, <1>3, <1>6, <1>9 DEF TypeOK, ChipStates, Places
<1>11. AirInv'
  BY <1>1, <1>2, <1>3, <1>6, <1>7, <1>8, <1>9 DEF AirInv, Nodes
<1>12. /\ sent \in Nat /\ printed \in Nat
       /\ Lowest \in Int /\ Arriving \in Nat /\ Acked \in Nat /\ AckTop \in Nat /\ DataTop \in Nat
  BY <1>1, NumbersType
<1>13. Lowest' = Lowest /\ Arriving' = Arriving /\ DataTop' = DataTop
  BY <1>2, <1>6, <1>9 DEF Lowest, Arriving, DataTop
<1>14. Acked = printed /\ AckTop = printed /\ Arriving = held.number
  BY <1>3, <1>4, <1>7 DEF Acked, AckTop, Arriving
<1>15. \/ Acked' = Acked /\ AckTop' = AckTop
       \/ Acked' = Arriving /\ AckTop' = Arriving
  <2>1. CASE air' = air /\ pc'["gateway"] = "spin"
    BY <1>3, <1>7, <1>9, <1>14, <2>1 DEF Acked, AckTop
  <2>2. CASE air'["gateway"] = f /\ pc'["gateway"] = "print"
    BY <1>8, <1>13, <1>14, <2>2 DEF Acked, AckTop
  <2> QED BY <1>6, <2>1, <2>2
<1>16. \A n \in Nodes : fifo'[n] = fifo[n] \/ fifo'[n] = <<>>
  BY <1>6
<1>17. WayInv'
  BY <1>1, <1>9, <1>10, <1>12, <1>13, <1>14, <1>15, <1>16, WayGoesOn DEF WayInv
<1> QED BY <1>10, <1>11, <1>17 DEF RadioInv

\* The message in hand is printed.
LEMMA GatewayPrintsKeeps ==
  ASSUME RadioInv, GatewayPrints
  PROVE  RadioInv' /\ printed' \in {printed, printed + 1}
<1>1. TypeOK /\ AirInv /\ WayInv
  BY DEF RadioInv
<1>2. /\ pc["gateway"] = "print" /\ printed' = held.number /\ held' = None
      /\ pc' = [pc EXCEPT !["gateway"] = "poll"]
      /\ chip' = chip /\ fifo' = fifo /\ gdo0' = gdo0 /\ air' = air
      /\ check_rx' = check_rx /\ loops' = loops /\ sent' = sent /\ wait_acq' = wait_acq
      /\ foreign' = foreign
  BY DEF GatewayPrints, chips
<1>3. held # None /\ held \in Frames
  BY <1>1, <1>2 DEF AirInv, TypeOK
<1>4. printed' \in 0 .. MaxMessages
  BY <1>2, <1>3 DEF Frames
<1>5. /\ pc' \in [Nodes -> Places] /\ pc'["gateway"] = "poll" /\ pc'["sensor"] = pc["sensor"]
  BY <1>1, <1>2 DEF TypeOK, Places, Nodes
<1>6. TypeOK'
  BY <1>1, <1>2, <1>4, <1>5 DEF TypeOK, Places
<1>7. AirInv'
  BY <1>1, <1>2, <1>5 DEF AirInv, Nodes
<1>8. /\ sent \in Nat /\ printed \in Nat
      /\ Lowest \in Int /\ Arriving \in Nat /\ Acked \in Nat /\ AckTop \in Nat /\ DataTop \in Nat
  BY <1>1, NumbersType
<1>9. Arriving = held.number /\ Acked = held.number
  BY <1>2, <1>3 DEF Arriving, Acked
<1>10. Arriving' = Arriving /\ Acked' = Acked
  BY <1>2, <1>5, <1>9 DEF Arriving, Acked
<1>11. Lowest' = Lowest /\ DataTop' = DataTop /\ AckTop' = AckTop
  BY <1>2, <1>10 DEF Lowest, DataTop, AckTop
<1>12. WayInv'
  BY <1>1, <1>2, <1>8, <1>9, <1>10, <1>11 DEF WayInv
<1>13. printed' \in {printed, printed + 1}
  BY <1>1, <1>2, <1>8, <1>9 DEF WayInv
<1> QED BY <1>6, <1>7, <1>12, <1>13 DEF RadioInv

-----------------------------------------------------------------------------
(* Together. *)

\* It holds before the first message.
LEMMA RadioInitially == Init => RadioInv
<1> SUFFICES ASSUME Init PROVE RadioInv
  OBVIOUS
<1>1. TypeOK
  <2>1. /\ chip \in [Nodes -> {"IDLE", "RX", "TX", "OVERFLOW"}]
        /\ pc \in [Nodes -> {"send", "spin", "poll", "handle", "acknowledge", "print"}]
    BY DEF Init
  <2>2. <<>> \in Seq(Frames)
    BY EmptySeq
  <2>3. fifo \in [Nodes -> Seq(Frames)]
    BY <2>2 DEF Init
  <2>4. gdo0 \in [Nodes -> BOOLEAN] /\ air \in [Nodes -> Frames \cup {None}]
    BY DEF Init
  <2>5. check_rx \in [Nodes -> BOOLEAN]
    BY DEF Init
  <2>6. 0 \in 0 .. LoopLimit /\ 0 \in 0 .. MaxMessages /\ 0 \in 0 .. MaxForeign
    BY LimitsType
  <2>7. loops \in [Nodes -> 0 .. LoopLimit]
    BY <2>6 DEF Init
  <2>8. sent \in 0 .. MaxMessages /\ printed \in 0 .. MaxMessages /\ foreign \in 0 .. MaxForeign
    BY <2>6 DEF Init
  <2>9. wait_acq \in BOOLEAN /\ held \in Frames \cup {None}
    BY DEF Init
  <2> QED BY <2>1, <2>3, <2>4, <2>5, <2>7, <2>8, <2>9 DEF TypeOK
<1>2. AirInv
  BY DEF Init, AirInv, Nodes
<1>3. WayInv
  BY OrderedEmpty DEF Init, WayInv, Lowest, Arriving, Acked, AckTop, DataTop, Nodes
<1> QED BY <1>1, <1>2, <1>3 DEF RadioInv

\* Every step keeps it, and prints the last message again or the next.
LEMMA RadioStep ==
  ASSUME RadioInv, [Next]_vars
  PROVE  RadioInv' /\ printed' \in {printed, printed + 1}
<1>1. CASE Sensor
  <2>1. printed' = printed
    BY <1>1 DEF Sensor, SendNewMessage, ResendLastMessage, NothingToSend, Spin, SensorSpinEnds,
       Poll, HandleNothing, SensorHandles, messages, vars
  <2>2. "sensor" \in Nodes
    BY DEF Nodes
  <2>3. CASE Spin("sensor")
    BY <2>3 DEF Spin, RadioInv, TypeOK, AirInv, WayInv, Lowest, Arriving, Acked, AckTop, DataTop,
       vars, chips, boards, messages
  <2> QED BY <1>1, <2>1, <2>2, <2>3, SendNewMessageKeeps, ResendKeeps, NothingToSendKeeps, PollKeeps,
       HandleNothingKeeps, SensorHandlesKeeps DEF Sensor
<1>2. CASE Gateway
  <2>1. "gateway" \in Nodes
    BY DEF Nodes
  <2>2. CASE Spin("gateway")
    BY <2>2 DEF Spin, RadioInv, TypeOK, AirInv, WayInv, Lowest, Arriving, Acked, AckTop, DataTop,
       vars, chips, boards, messages
  <2>3. CASE Poll("gateway", "poll") \/ HandleNothing("gateway", "poll")
    BY <2>1, <2>3, PollKeeps, HandleNothingKeeps DEF Poll, HandleNothing, messages
  <2>4. CASE GatewayIgnores \/ GatewayReads \/ GatewayAcknowledges
    BY <2>4, GatewayIgnoresKeeps, GatewayReadsKeeps, GatewayAcknowledgesKeeps
       DEF GatewayIgnores, GatewayReads, GatewayAcknowledges, messages
  <2>5. CASE GatewayPrints
    BY <2>5, GatewayPrintsKeeps
  <2> QED BY <1>2, <2>2, <2>3, <2>4, <2>5 DEF Gateway
<1>3. CASE \E n \in Nodes : Delivered(n) \/ Unheard(n) \/ Spoilt(n) \/ ForeignFrame(n)
  <2>1. PICK n \in Nodes : Delivered(n) \/ Unheard(n) \/ Spoilt(n) \/ ForeignFrame(n)
    BY <1>3
  <2>2. printed' = printed
    BY <2>1 DEF Delivered, Unheard, Spoilt, ForeignFrame, messages
  <2> QED BY <2>1, <2>2, DeliveredKeeps, LostKeeps, ForeignKeeps
<1>4. CASE UNCHANGED vars
  BY <1>4 DEF RadioInv, TypeOK, AirInv, WayInv, Lowest, Arriving, Acked, AckTop, DataTop,
     vars, chips, boards, messages
<1> QED BY <1>1, <1>2, <1>3, <1>4 DEF Next

\* Every variable of the link keeps the values the code gives it.
THEOREM RadioTypeCorrect == Spec => []TypeOK
<1>1. RadioInv => TypeOK
  BY DEF RadioInv
<1>2. RadioInv /\ [Next]_vars => RadioInv'
  BY RadioStep
<1> QED BY RadioInitially, <1>1, <1>2, PTL DEF Spec

\* For any FIFOs, ids modulo any number from 2 on, frames lost, repeated, spoilt
\* or of others: the sensor goes on to its next message only when the gateway has
\* printed the last one or is about to.
THEOREM AcknowledgedCorrect == Spec => []AcknowledgedIsPrinted
<1>1. RadioInv => AcknowledgedIsPrinted
  <2> SUFFICES ASSUME RadioInv, ~wait_acq PROVE printed = sent \/ (held # None /\ held.number = sent)
    BY DEF AcknowledgedIsPrinted
  <2>1. TypeOK /\ WayInv
    BY DEF RadioInv
  <2>2. /\ sent \in Nat /\ printed \in Nat
        /\ Lowest \in Int /\ Arriving \in Nat /\ Acked \in Nat /\ AckTop \in Nat /\ DataTop \in Nat
    BY <2>1, NumbersType
  <2>3. Lowest = sent
    BY DEF Lowest
  <2>4. Arriving = sent
    BY <2>1, <2>2, <2>3 DEF WayInv
  <2> QED BY <2>4 DEF Arriving
<1>2. RadioInv /\ [Next]_vars => RadioInv'
  BY RadioStep
<1> QED BY RadioInitially, <1>1, <1>2, PTL DEF Spec

\* The gateway prints the messages in the order in which they were sent.
THEOREM PrintedCorrect == Spec => PrintedInOrder
<1>1. RadioInv /\ [Next]_vars => RadioInv' /\ [printed' \in {printed, printed + 1}]_printed
  BY RadioStep
<1> QED BY RadioInitially, <1>1, PTL DEF Spec, PrintedInOrder

=============================================================================
