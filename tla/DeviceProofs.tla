---------------------------- MODULE DeviceProofs ---------------------------
(***************************************************************************)
(* What the drivers of extdrv/ promise of the chips they share with their  *)
(* power supply, proved for every value of their constants: memories,      *)
(* screens, frames and chains of any size.  Each driver has its inductive  *)
(* invariant, which says of the steps inside a call what its property says *)
(* of their end.  The arithmetic of pages and blocks is that of            *)
(* Remainders.                                                             *)
(***************************************************************************)
EXTENDS Ws2812, RtcPcf85363a, Eeprom, Ncn5120, SdMmc, Cc1101, Displays, Remainders,
        SequenceTheorems, FiniteSetTheorems, WellFoundedInduction, TLAPS

----------------------------------------------------------------------------
(* RtcPcf85363a.  Inside a call, too, a clock that stands still belongs to *)
(* a time_write that has not ended: this one, or one that was cut.  And    *)
(* the control registers are received before the marker.                   *)

RtcInv ==
    /\ RtcTypeOK /\ ClockKept
    /\ stopped => cut
    /\ "marker" \in written => "control" \in written

\* However a transaction fails and wherever the board restarts, the clock stands still
\* outside of a time_write only after one that was cut, and a chip that is marked as
\* configured has its control registers.
THEOREM RtcIsKept == RtcSpec => []ClockKept
<1>1. RtcInit => RtcInv
  BY DEF RtcInit, RtcInv, RtcTypeOK, ClockKept
<1>2. RtcInv /\ [RtcNext]_rtc_vars => RtcInv'
  <2> SUFFICES ASSUME RtcInv, [RtcNext]_rtc_vars PROVE RtcInv'
    OBVIOUS
  <2> USE DEF RtcInv, RtcTypeOK, ClockKept
  <2>1. CASE StopClock
    BY <2>1 DEF StopClock
  <2>7. CASE SetTime
    <3>1. chip_time' \in BOOLEAN /\ rtc_pc' \in {"idle", "set", "run"}
      BY <2>7 DEF SetTime
    <3> QED
      BY <2>7, <3>1 DEF SetTime
  <2>8. CASE RunClock
    <3>1. CASE UNCHANGED <<stopped, time_set, cut>>
      BY <2>8, <3>1 DEF RunClock
    <3>2. CASE stopped' = FALSE /\ time_set' = TRUE /\ cut' = FALSE
      BY <2>8, <3>2 DEF RunClock
    <3> QED
      BY <2>8, <3>1, <3>2 DEF RunClock
  <2>2. CASE rtc_pcf85363a_config
    <3>1. PICK n \in 0 .. Len(ConfigBlocks) : WriteBlocks(n)
      BY <2>2 DEF rtc_pcf85363a_config
    <3>2. Len(ConfigBlocks) = 3 /\ ConfigBlocks[1] = "control" /\ ConfigBlocks[2] = "marker"
            /\ ConfigBlocks[3] = "watchdog"
      BY DEF ConfigBlocks
    \* The control registers come first, so whatever got the marker through got them.
    <3>3. "marker" \in written' => "control" \in written'
      <4>1. CASE n = 0
        BY <3>1, <4>1 DEF WriteBlocks
      <4>2. CASE n # 0
        BY <3>1, <3>2, <4>2 DEF WriteBlocks
      <4> QED
        BY <4>1, <4>2
    <3>4. written' \subseteq {ConfigBlocks[i] : i \in 1 .. Len(ConfigBlocks)} /\ marker' \in BOOLEAN
      BY <3>1, <3>2 DEF WriteBlocks
    <3>5. marker' => "control" \in written'
      BY <2>2, <3>1, <3>3 DEF rtc_pcf85363a_config, WriteBlocks
    <3> QED
      BY <2>2, <3>3, <3>4, <3>5 DEF rtc_pcf85363a_config
  <2>3. CASE rtc_pcf85363a_is_up
    BY <2>3 DEF rtc_pcf85363a_is_up
  <2>4. CASE RtcBoardRestarts
    BY <2>4 DEF RtcBoardRestarts
  <2>6. CASE RtcChipRestarts
    BY <2>6 DEF RtcChipRestarts
  <2>5. CASE UNCHANGED rtc_vars
    BY <2>5 DEF rtc_vars
  <2> QED
    BY <2>1, <2>2, <2>3, <2>4, <2>5, <2>6, <2>7, <2>8 DEF RtcNext
<1> QED
  BY <1>1, <1>2, PTL DEF RtcSpec, RtcInv

----------------------------------------------------------------------------
(* Eeprom.  As long as the chip has its power, what is stored is the       *)
(* beginning of the buffer's place: up to the page in progress, or, while  *)
(* the chip is polled, with it.                                            *)

PlaceOf(place, n) == {(place + i) % MemSize : i \in 0 .. n - 1}
PlaceUpTo(n) == PlaceOf(ee_call.offset, n)

\* A write in progress.
WriteGoesOn ==
    ee_pc # "idle" => write_count < ee_call.count /\ ee_ret = "none"

StoredSoFar ==
    ~ee_cut =>
        /\ ee_pc = "page" => ee_mem = PlaceUpTo(write_count)
        /\ ee_pc = "poll" => ee_mem = PlaceUpTo(write_count + EepromSize)
        /\ ee_ret = "count" => ee_mem = PlaceUpTo(ee_call.count)

EepromInv ==
    /\ EepromTypeOK /\ WriteGoesOn /\ StoredSoFar
    /\ ee_mem \subseteq PlaceUpTo(ee_call.count)

\* Below the end of a page, the place in it counts with the address.
LEMMA BelowPageEnd ==
  ASSUME NEW offset \in Nat, NEW i \in Nat, (offset % PageSize) + i < PageSize
  PROVE  (offset + i) % PageSize = (offset % PageSize) + i
<1>1. offset \in Int /\ PageSize \in Nat \ {0}
  BY EepromSizes
<1>2. PICK q \in Int, r \in 0 .. PageSize - 1 : r = offset % PageSize /\ offset = PageSize * q + r
  BY <1>1, Division, Zenon
<1>3. r + i \in 0 .. PageSize - 1
  BY <1>1, <1>2
<1>4. (PageSize * q + (r + i)) % PageSize = r + i
  BY <1>1, <1>3, ModUnique
<1>5. offset + i = PageSize * q + (r + i)
  BY <1>1, <1>2, Distributes
<1> QED
  BY <1>2, <1>4, <1>5

\* A page that is cut at its end is stored where it was meant to be: the chip does not
\* wrap in it.
LEMMA StoredInPlace ==
  ASSUME NEW offset \in Nat, NEW rest \in Nat \ {0}
  PROVE  /\ PageWriteSize(offset, rest) \in 1 .. rest
         /\ \A n \in 0 .. PageWriteSize(offset, rest) : Stored(offset, n) = PlaceOf(offset, n)
<1>1. offset % PageSize \in 0 .. PageSize - 1 /\ PageSize \in Nat \ {0}
  <2>1. offset \in Int /\ PageSize \in Nat \ {0}
    BY EepromSizes
  <2> QED
    BY <2>1, DivMod
<1>2. /\ PageWriteSize(offset, rest) \in 1 .. rest
      /\ PageWriteSize(offset, rest) <= PageSize - (offset % PageSize)
  BY <1>1 DEF PageWriteSize
<1>3. ASSUME NEW n \in 0 .. PageWriteSize(offset, rest), NEW i \in 0 .. n - 1
      PROVE  (offset - (offset % PageSize)) + ((offset + i) % PageSize) = offset + i
  <2>1. i \in Nat /\ (offset % PageSize) + i < PageSize
    BY <1>1, <1>2
  <2>2. (offset + i) % PageSize = (offset % PageSize) + i
    BY <2>1, BelowPageEnd
  <2> QED
    BY <1>1, <2>1, <2>2
<1>4. ASSUME NEW n \in 0 .. PageWriteSize(offset, rest)
      PROVE  Stored(offset, n) = PlaceOf(offset, n)
  BY <1>3 DEF Stored, PlaceOf
<1> QED
  BY <1>2, <1>4

\* Two parts of a place that follow each other, and one in another.
LEMMA PlaceGrows ==
  ASSUME NEW place \in Nat, NEW m \in Nat, NEW n \in Nat
  PROVE  /\ PlaceOf(place, m) \cup PlaceOf(place + m, n) = PlaceOf(place, m + n)
         /\ PlaceOf(place, m) \subseteq PlaceOf(place, m + n)
         /\ PlaceOf(place, 0) = {}
         /\ PlaceOf(place, m) \subseteq 0 .. MemSize - 1
<1>1. PlaceOf(place, m + n) \subseteq PlaceOf(place, m) \cup PlaceOf(place + m, n)
  <2> SUFFICES ASSUME NEW i \in 0 .. (m + n) - 1
               PROVE  (place + i) % MemSize \in PlaceOf(place, m) \cup PlaceOf(place + m, n)
    BY DEF PlaceOf
  <2>1. CASE i < m
    BY <2>1 DEF PlaceOf
  <2>2. CASE i >= m
    <3>1. i - m \in 0 .. n - 1 /\ place + i = (place + m) + (i - m)
      BY <2>2
    <3> QED
      BY <3>1 DEF PlaceOf
  <2> QED
    BY <2>1, <2>2
<1>2. PlaceOf(place, m) \subseteq PlaceOf(place, m + n)
  BY DEF PlaceOf
<1>3. PlaceOf(place + m, n) \subseteq PlaceOf(place, m + n)
  <2> SUFFICES ASSUME NEW i \in 0 .. n - 1
               PROVE  ((place + m) + i) % MemSize \in PlaceOf(place, m + n)
    BY DEF PlaceOf
  <2>1. m + i \in 0 .. (m + n) - 1 /\ (place + m) + i = place + (m + i)
    OBVIOUS
  <2> QED
    BY <2>1 DEF PlaceOf
<1>4. PlaceOf(place, 0) = {}
  BY DEF PlaceOf
<1>5. PlaceOf(place, m) \subseteq 0 .. MemSize - 1
  <2> SUFFICES ASSUME NEW i \in 0 .. m - 1 PROVE (place + i) % MemSize \in 0 .. MemSize - 1
    BY DEF PlaceOf
  <2>1. place + i \in Int /\ MemSize \in Nat \ {0}
    BY EepromSizes
  <2> QED
    BY <2>1, DivMod
<1> QED
  BY <1>1, <1>2, <1>3, <1>4, <1>5

\* What a state of the invariant knows of its sizes.
LEMMA EepromSizesAre ==
  ASSUME EepromInv
  PROVE  /\ ee_call \in [offset: Nat, count: Nat] /\ write_count \in Nat
         /\ ee_pc # "idle" => /\ EepromSize \in 1 .. ee_call.count - write_count
                              /\ EepromOffset \in Nat
                              /\ \A n \in 0 .. EepromSize :
                                    Stored(EepromOffset, n) = PlaceOf(ee_call.offset + write_count, n)
<1>1. ee_call \in [offset: Nat, count: Nat] /\ write_count \in Nat
  BY EepromSizes DEF EepromInv, EepromTypeOK
<1>2. ee_call.offset \in Nat /\ ee_call.count \in Nat
  BY <1>1
<1>3. ASSUME ee_pc # "idle"
      PROVE  EepromOffset \in Nat /\ ee_call.count - write_count \in Nat \ {0}
  BY <1>1, <1>2, <1>3 DEF EepromInv, WriteGoesOn, EepromOffset
<1>4. ASSUME ee_pc # "idle"
      PROVE  /\ EepromSize \in 1 .. ee_call.count - write_count
             /\ \A n \in 0 .. EepromSize : Stored(EepromOffset, n) = PlaceOf(EepromOffset, n)
  <2>1. EepromOffset \in Nat /\ ee_call.count - write_count \in Nat \ {0}
    BY <1>3, <1>4
  <2>2. PICK offset \in Nat, rest \in Nat \ {0} :
           offset = EepromOffset /\ rest = ee_call.count - write_count
    BY <2>1
  <2>3. EepromSize = PageWriteSize(offset, rest)
    BY <2>2 DEF EepromSize
  <2>4. /\ PageWriteSize(offset, rest) \in 1 .. rest
        /\ \A n \in 0 .. PageWriteSize(offset, rest) : Stored(offset, n) = PlaceOf(offset, n)
    BY StoredInPlace
  <2> QED
    BY <2>2, <2>3, <2>4
<1> QED
  BY <1>1, <1>3, <1>4 DEF EepromOffset

\* Every step of the driver, the chip and the board keeps what is stored in its place.
LEMMA EepromStep == EepromInv /\ [EepromNext]_ee_vars => EepromInv'
<1> SUFFICES ASSUME EepromInv, [EepromNext]_ee_vars PROVE EepromInv'
  OBVIOUS
<1>1. /\ EepromTypeOK /\ WriteGoesOn /\ StoredSoFar
      /\ ee_mem \subseteq PlaceUpTo(ee_call.count)
  BY DEF EepromInv
<1>2. /\ ee_call \in [offset: Nat, count: Nat] /\ write_count \in Nat
      /\ ee_call.offset \in Nat /\ ee_call.count \in Nat
  BY EepromSizesAre
<1>3. CASE eeprom_write
  <2>1. /\ ee_call' \in WriteCalls /\ ee_mem' = {} /\ write_count' = 0
        /\ eeprom_type' \in Detections /\ ee_cut' \in BOOLEAN
        /\ UNCHANGED <<ee_here, ee_storing>>
    BY <1>1, <1>3 DEF eeprom_write, EepromTypeOK
  <2>2. ee_call' \in [offset: Nat, count: Nat] /\ ee_call'.offset \in Nat /\ ee_call'.count \in Nat
    BY <2>1, EepromSizes
  <2>3. PlaceOf(ee_call'.offset, 0) = {}
    BY <2>2, PlaceGrows
  <2>4. \/ ee_pc' = "page" /\ ee_ret' = "none" /\ ee_call'.count > 0
        \/ ee_pc' = "idle" /\ ee_ret' = "count" /\ ee_call'.count = 0
        \/ ee_pc' = "idle" /\ ee_ret' = "error"
    BY <1>3, <2>2 DEF eeprom_write
  <2>5. eeprom_type' \in {"unknown", "none", "found"}
    BY <1>1, <2>1 DEF Detections, EepromTypeOK
  <2>6. EepromTypeOK'
    BY <1>1, <2>1, <2>4, <2>5 DEF EepromTypeOK
  <2>7. WriteGoesOn'
    BY <2>1, <2>4 DEF WriteGoesOn
  <2>8. StoredSoFar'
    BY <2>1, <2>3, <2>4 DEF StoredSoFar, PlaceUpTo
  <2> QED
    BY <2>1, <2>6, <2>7, <2>8 DEF EepromInv
<1>4. CASE WritePage
  <2>1. PICK n \in 0 .. EepromSize :
          /\ ee_mem' = ee_mem \cup Stored(EepromOffset, n)
          /\ ee_storing' = (n > 0)
          /\ \/ n = EepromSize /\ ee_pc' = "poll" /\ UNCHANGED ee_ret
             \/ n < EepromSize /\ ee_pc' = "idle" /\ ee_ret' = "error"
    BY <1>4 DEF WritePage
  <2>2. ee_pc = "page" /\ UNCHANGED <<eeprom_type, ee_call, write_count, ee_here, ee_cut>>
    BY <1>4 DEF WritePage
  <2>3. /\ EepromSize \in 1 .. ee_call.count - write_count
        /\ Stored(EepromOffset, n) = PlaceOf(ee_call.offset + write_count, n)
    BY <2>2, EepromSizesAre
  <2>4. n \in Nat /\ n + (ee_call.count - write_count - n) = ee_call.count - write_count
        /\ ee_call.count - write_count - n \in Nat
        /\ write_count + n + (ee_call.count - write_count - n) = ee_call.count
        /\ write_count + n \in Nat
    BY <1>2, <2>3
  <2>5. /\ PlaceUpTo(write_count) \cup Stored(EepromOffset, n) = PlaceUpTo(write_count + n)
        /\ PlaceUpTo(write_count + n) \subseteq PlaceUpTo(ee_call.count)
    <3>1. PlaceOf(ee_call.offset, write_count) \cup PlaceOf(ee_call.offset + write_count, n)
             = PlaceOf(ee_call.offset, write_count + n)
      BY <1>2, <2>4, PlaceGrows
    <3>2. PlaceOf(ee_call.offset, write_count + n)
             \subseteq PlaceOf(ee_call.offset, write_count + n + (ee_call.count - write_count - n))
      BY <1>2, <2>4, PlaceGrows
    <3> QED
      BY <2>3, <2>4, <3>1, <3>2 DEF PlaceUpTo
  <2>6. ee_mem' \subseteq PlaceUpTo(ee_call.count)
    BY <1>1, <2>1, <2>5
  <2>7. PlaceUpTo(ee_call.count) \subseteq 0 .. MemSize - 1
    BY <1>2, PlaceGrows DEF PlaceUpTo
  <2>8. EepromTypeOK'
    BY <1>1, <2>1, <2>2, <2>6, <2>7 DEF EepromTypeOK
  <2>9. WriteGoesOn'
    BY <1>1, <2>1, <2>2 DEF WriteGoesOn
  <2>10. StoredSoFar'
    <3> SUFFICES ASSUME ~ee_cut, ee_pc' = "poll"
                 PROVE  ee_mem' = PlaceUpTo(write_count + EepromSize)'
      BY <1>1, <2>1, <2>2 DEF StoredSoFar, WriteGoesOn
    <3>1. n = EepromSize /\ ee_mem = PlaceUpTo(write_count)
      BY <1>1, <2>1, <2>2 DEF StoredSoFar
    <3>2. EepromSize' = EepromSize
      BY <2>2 DEF EepromSize, EepromOffset
    <3> QED
      BY <2>1, <2>2, <2>5, <3>1, <3>2 DEF PlaceUpTo
  <2> QED
    BY <2>2, <2>6, <2>8, <2>9, <2>10 DEF EepromInv, PlaceUpTo
<1>5. CASE PageRefused
  <2>1. /\ ee_pc' = "idle" /\ ee_ret' = "error"
        /\ UNCHANGED <<eeprom_type, ee_call, write_count, ee_here, ee_storing, ee_mem, ee_cut>>
    BY <1>5 DEF PageRefused
  <2> QED
    BY <1>1, <2>1 DEF EepromInv, EepromTypeOK, WriteGoesOn, StoredSoFar, PlaceUpTo
<1>6. CASE EepromPoll
  <2>1. /\ ee_pc = "poll" /\ write_count' = write_count + EepromSize
        /\ UNCHANGED <<eeprom_type, ee_call, ee_here, ee_storing, ee_mem, ee_cut>>
    BY <1>6 DEF EepromPoll
  <2>2. EepromSize \in 1 .. ee_call.count - write_count
    BY <2>1, EepromSizesAre
  <2>3. write_count' \in Nat /\ write_count' <= ee_call.count
    BY <1>2, <2>1, <2>2
  <2>4. \/ write_count' < ee_call.count /\ ee_pc' = "page" /\ ee_ret' = ee_ret
        \/ write_count' = ee_call.count /\ ee_pc' = "idle" /\ ee_ret' = "count"
    BY <1>2, <1>6, <2>3 DEF EepromPoll
  <2>5. ~ee_cut => ee_mem = PlaceUpTo(write_count + EepromSize)
    BY <1>1, <2>1 DEF StoredSoFar
  <2>6. EepromTypeOK'
    BY <1>1, <2>1, <2>3, <2>4 DEF EepromTypeOK
  <2>7. WriteGoesOn'
    BY <1>1, <2>1, <2>4 DEF WriteGoesOn
  <2>8. StoredSoFar'
    BY <1>1, <2>1, <2>4, <2>5 DEF StoredSoFar, WriteGoesOn, PlaceUpTo
  <2> QED
    BY <1>1, <2>1, <2>6, <2>7, <2>8 DEF EepromInv, PlaceUpTo
<1>7. CASE StoringEnds
  BY <1>1, <1>7
  DEF StoringEnds, EepromInv, EepromTypeOK, WriteGoesOn, StoredSoFar, PlaceUpTo, EepromSize, EepromOffset
<1>8. CASE ChipPower
  <2>1. /\ ee_here' = ~ee_here /\ ee_storing' = FALSE /\ ee_cut' = TRUE /\ ee_mem' \subseteq ee_mem
        /\ UNCHANGED <<ee_pc, eeprom_type, ee_call, write_count, ee_ret>>
    BY <1>8 DEF ChipPower
  <2>2. EepromTypeOK'
    BY <1>1, <2>1 DEF EepromTypeOK
  <2> QED
    BY <1>1, <2>1, <2>2 DEF EepromInv, WriteGoesOn, StoredSoFar, PlaceUpTo
<1>9. CASE EepromBoardRestarts
  <2>1. /\ ee_pc' = "idle" /\ eeprom_type' = "unknown" /\ ee_ret' = "none" /\ write_count' = 0
        /\ UNCHANGED <<ee_call, ee_here, ee_storing, ee_mem, ee_cut>>
    BY <1>9 DEF EepromBoardRestarts
  <2> QED
    BY <1>1, <2>1 DEF EepromInv, EepromTypeOK, WriteGoesOn, StoredSoFar, PlaceUpTo
<1>10. CASE UNCHANGED ee_vars
  BY <1>1, <1>10
  DEF ee_vars, EepromInv, EepromTypeOK, WriteGoesOn, StoredSoFar, PlaceUpTo, EepromSize, EepromOffset
<1> QED
  BY <1>3, <1>4, <1>5, <1>6, <1>7, <1>8, <1>9, <1>10 DEF EepromNext

\* For pages, chips and buffers of any size, however a write is refused, stopped or cut
\* by a restart, only the buffer's place is written, and all of it by one that returns
\* its count from a chip that kept its power.
THEOREM EepromCorrect == EepromSpec => []OnlyItsPlace
<1>1. EepromInit => EepromInv
  <2> SUFFICES ASSUME EepromInit PROVE EepromInv
    OBVIOUS
  <2>1. EepromTypeOK
    BY DEF EepromInit, EepromTypeOK
  <2> QED
    BY <2>1 DEF EepromInit, EepromInv, WriteGoesOn, StoredSoFar
<1>2. EepromInv => OnlyItsPlace
  BY DEF EepromInv, StoredSoFar, OnlyItsPlace, PlaceUpTo, PlaceOf
<1> QED
  BY <1>1, <1>2, EepromStep, PTL DEF EepromSpec

----------------------------------------------------------------------------
(* Ncn5120.  While the bus is silent, the answers to come, on the line and *)
(* in the buffer are those of the command in progress, and the driver      *)
(* counts them.                                                            *)

BusBytes == {"own", "any"}
AllOwn(s) == \A i \in 1 .. Len(s) : s[i] = "own"

\* What reads, three at most, fetch together.
Fetched(reads) ==
    (IF Len(reads) >= 1 THEN reads[1] ELSE 0) + (IF Len(reads) >= 2 THEN reads[2] ELSE 0)
        + (IF Len(reads) >= 3 THEN reads[3] ELSE 0)
Reads == {reads \in Seq(Nat \ {0}) : Len(reads) <= 3}

NothingPending ==
    ncn_asked = 0 /\ Len(ncn_line) = 0 /\ Len(rx_cmd_buff) = 0

\* Where the answers are, from the call of a command to its end.
AnswersCounted ==
    /\ ncn_pc \in {"idle", "drop", "load", "store"} => NothingPending /\ next_data_is_cmd_reply = 0
    /\ ncn_pc = "store" => ncn_loaded = 0
    /\ ncn_pc = "send" => NothingPending /\ next_data_is_cmd_reply = ncn_cmd.answer
    /\ ncn_pc = "wait" => /\ next_data_is_cmd_reply = ncn_asked + Len(ncn_line)
                          /\ Len(rx_cmd_buff) + next_data_is_cmd_reply = Fetched(ncn_reads)
    /\ AllOwn(ncn_line) /\ AllOwn(rx_cmd_buff)

ReadsAre ==
    /\ ncn_reads \in Reads
    /\ ncn_pc \in {"drop", "load", "store", "send"} => ncn_reads = ncn_cmd.reads
    /\ ncn_pc = "wait" => ncn_reads # << >>

NcnInv ==
    /\ NcnTypeOK /\ ReadsAre
    /\ ncn_clean => AnswersCounted /\ ~ncn_wrong

\* A command expects what its reads fetch.
LEMMA CommandsFetch ==
  ASSUME NEW c \in Commands
  PROVE  c.reads \in Reads /\ c.answer \in Nat /\ Fetched(c.reads) = c.answer
<1> DEFINE Right(d) == d.reads \in Reads /\ d.answer \in Nat /\ Fetched(d.reads) = d.answer
<1>1. ASSUME NEW drops, NEW refused, NEW n \in {1, 2}
      PROVE  Right(Asks(drops, refused, n))
  <2>1. <<n>> \in Seq(Nat \ {0}) /\ Len(<<n>>) = 1 /\ <<n>>[1] = n
    OBVIOUS
  <2> QED
    BY <2>1 DEF Asks, Command, Reads, Fetched
<1>2. Right(Tells)
  <2>1. << >> \in Seq(Nat \ {0}) /\ Len(<< >>) = 0
    OBVIOUS
  <2> QED
    BY <2>1 DEF Tells, Command, Reads, Fetched
<1>3. ASSUME NEW n \in FrameSizes
      PROVE  Right(Command(FALSE, TRUE, FALSE, n + 4, <<1, n + 1, 2>>))
  <2>1. n \in Nat
    BY NcnAssumption
  <2>2. /\ <<1, n + 1, 2>> \in Seq(Nat \ {0}) /\ Len(<<1, n + 1, 2>>) = 3
        /\ <<1, n + 1, 2>>[1] = 1 /\ <<1, n + 1, 2>>[2] = n + 1 /\ <<1, n + 1, 2>>[3] = 2
    BY <2>1
  <2> QED
    BY <2>1, <2>2 DEF Command, Reads, Fetched
<1>4. /\ get_analog_status.reads = get_internal_register.reads
      /\ get_analog_status.answer = get_internal_register.answer
      /\ ncn_reset.reads = get_internal_register.reads
      /\ ncn_reset.answer = get_internal_register.answer
  BY DEF get_analog_status, ncn_reset, get_internal_register, Asks, Command
<1>5. /\ Right(get_internal_register) /\ Right(set_comm_config) /\ Right(set_address)
      /\ Right(get_comm_status) /\ Right(get_system_status) /\ Right(set_stop_state)
  <2> HIDE DEF Right
  <2> QED
    BY <1>1 DEF get_internal_register, set_comm_config, set_address, get_comm_status,
                get_system_status, set_stop_state
<1>6. Right(get_analog_status) /\ Right(ncn_reset)
  BY <1>4, <1>5
<1>7. /\ Right(enter_sleep) /\ Right(set_busy_state) /\ Right(enter_monitor_mode)
      /\ Right(packet_acknowledge)
  <2> HIDE DEF Right
  <2> QED
    BY <1>2 DEF enter_sleep, set_busy_state, enter_monitor_mode, packet_acknowledge
<1>8. \A d \in send_packet : Right(d)
  <2> HIDE DEF Right
  <2> QED
    BY <1>3 DEF send_packet
<1>9. Right(c)
  <2> HIDE DEF Right
  <2> QED
    BY <1>5, <1>6, <1>7, <1>8 DEF Commands
<1> QED
  BY <1>9

\* The bytes of a line that holds nobody's own.
LEMMA AnyBytesAre ==
  ASSUME NEW n \in Nat
  PROVE  AnyBytes(n) \in Seq(BusBytes) /\ Len(AnyBytes(n)) = n
<1>1. AnyBytes(n) \in [1 .. n -> BusBytes]
  BY DEF AnyBytes, BusBytes
<1> QED
  BY <1>1, LenProperties

\* A read of the answer takes its bytes, and what it leaves is what the next ones fetch.
LEMMA ReadsGoOn ==
  ASSUME NEW reads \in Reads, reads # << >>
  PROVE  /\ Head(reads) = reads[1] /\ reads[1] \in Nat \ {0} /\ Len(reads) \in {1, 2, 3}
         /\ Tail(reads) \in Reads /\ (Len(reads) > 1 => Tail(reads) # << >>)
         /\ Fetched(Tail(reads)) = Fetched(reads) - reads[1]
         /\ Fetched(reads) \in Nat /\ (Len(reads) = 1 => Fetched(reads) = reads[1])
<1>1. reads \in Seq(Nat \ {0}) /\ Len(reads) \in Nat \ {0} /\ Len(reads) <= 3
  BY EmptySeq DEF Reads
<1>2. Len(reads) \in {1, 2, 3} /\ \A i \in 1 .. Len(reads) : reads[i] \in Nat \ {0}
  <2>1. \A i \in 1 .. Len(reads) : reads[i] \in Nat \ {0}
    BY <1>1, ElementOfSeq
  <2>2. \A l \in Nat \ {0} : l <= 3 => l \in {1, 2, 3}
    OBVIOUS
  <2> QED
    BY <1>1, <2>1, <2>2
<1>3. PICK rest : rest = Tail(reads)
  OBVIOUS
<1>4. /\ Head(reads) = reads[1] /\ rest \in Seq(Nat \ {0}) /\ Len(rest) = Len(reads) - 1
      /\ \A i \in 1 .. Len(rest) : rest[i] = reads[i + 1]
  BY <1>1, <1>3, HeadTailProperties
<1>5. rest \in Reads /\ (Len(reads) > 1 => rest # << >>)
  BY <1>1, <1>2, <1>4 DEF Reads
<1>6. CASE Len(reads) = 1
  <2>1. Len(rest) = 0
    BY <1>4, <1>6
  <2>2. Fetched(rest) = 0 /\ Fetched(reads) = reads[1]
    BY <1>2, <1>6, <2>1 DEF Fetched
  <2> QED
    BY <1>2, <1>3, <1>4, <1>5, <1>6, <2>2
<1>7. CASE Len(reads) = 2
  <2>1. Len(rest) = 1 /\ rest[1] = reads[2]
    BY <1>4, <1>7
  <2>2. Fetched(rest) = reads[2] /\ Fetched(reads) = reads[1] + reads[2]
    BY <1>2, <1>7, <2>1 DEF Fetched
  <2> QED
    BY <1>2, <1>3, <1>4, <1>5, <1>7, <2>2
<1>8. CASE Len(reads) = 3
  <2>1. Len(rest) = 2 /\ rest[1] = reads[2] /\ rest[2] = reads[3]
    BY <1>4, <1>8
  <2>2. Fetched(rest) = reads[2] + reads[3] /\ Fetched(reads) = reads[1] + reads[2] + reads[3]
    BY <1>2, <1>8, <2>1 DEF Fetched
  <2> QED
    BY <1>2, <1>3, <1>4, <1>5, <1>8, <2>2
<1> QED
  BY <1>2, <1>6, <1>7, <1>8

\* The reads of a step that changes neither them nor the command.
LEMMA ReadsStay ==
  ASSUME ReadsAre, UNCHANGED <<ncn_cmd, ncn_reads>>,
         ncn_pc' = ncn_pc \/ (ncn_pc \in {"drop", "load", "store"} /\ ncn_pc' # "wait")
  PROVE  ReadsAre'
BY DEF ReadsAre

\* Every step of the main loop, the interrupt and the chip keeps the count.
LEMMA NcnStep == NcnInv /\ [NcnNext]_ncn_vars => NcnInv'
<1> SUFFICES ASSUME NcnInv, [NcnNext]_ncn_vars PROVE NcnInv'
  OBVIOUS
<1>1. NcnTypeOK /\ ReadsAre /\ (ncn_clean => AnswersCounted /\ ~ncn_wrong)
  BY DEF NcnInv
<1>2. /\ rx_cmd_buff \in Seq(BusBytes) /\ ncn_line \in Seq(BusBytes) /\ ncn_cmd \in Commands
      /\ next_data_is_cmd_reply \in Nat /\ ncn_loaded \in Nat /\ ncn_asked \in Nat
      /\ {rx_data_running, ncn_clean, ncn_wrong} \subseteq BOOLEAN
      /\ Len(rx_cmd_buff) \in Nat /\ Len(ncn_line) \in Nat
  BY <1>1, LenProperties DEF NcnTypeOK, BusBytes
<1>3. ncn_cmd.answer \in Nat /\ Fetched(ncn_cmd.reads) = ncn_cmd.answer /\ ncn_cmd.reads \in Reads
  BY <1>2, CommandsFetch
<1>4. Tells \in Commands /\ << >> \in Reads
  BY DEF Commands, enter_sleep, Reads
<1>5. CASE CommandCall
  <2>1. /\ ncn_pc = "idle"
        /\ UNCHANGED <<rx_cmd_buff, next_data_is_cmd_reply, ncn_loaded, rx_data_running, ncn_asked,
                       ncn_line, ncn_clean, ncn_wrong>>
    BY <1>5 DEF CommandCall, ncn_chip
  <2>2. PICK c \in Commands : ncn_cmd' = c /\ ncn_reads' = c.reads
                              /\ ncn_pc' = IF c.drops THEN "drop" ELSE "load"
    BY <1>5 DEF CommandCall
  <2>3. ncn_pc' \in {"drop", "load"}
    BY <2>2
  <2>4. ReadsAre'
    BY <2>2, <2>3, CommandsFetch DEF ReadsAre
  <2>5. NcnTypeOK'
    BY <1>1, <2>1, <2>2, <2>3 DEF NcnTypeOK
  <2>6. ncn_clean' => AnswersCounted' /\ ~ncn_wrong'
    BY <1>1, <2>1, <2>3 DEF AnswersCounted, NothingPending
  <2> QED
    BY <2>4, <2>5, <2>6 DEF NcnInv
<1>6. CASE drop_cmd_data
  <2>1. /\ ncn_pc = "drop" /\ ncn_pc' = "load" /\ rx_cmd_buff' = << >>
        /\ UNCHANGED <<ncn_cmd, ncn_reads, next_data_is_cmd_reply, ncn_loaded, rx_data_running,
                       ncn_asked, ncn_line, ncn_clean, ncn_wrong>>
    BY <1>6 DEF drop_cmd_data, ncn_chip
  <2>2. rx_cmd_buff' \in Seq({"own", "any"}) /\ Len(rx_cmd_buff') = 0
    BY <2>1
  <2>3. NcnTypeOK'
    BY <1>1, <2>1, <2>2 DEF NcnTypeOK
  <2>4. ncn_clean' => AnswersCounted' /\ ~ncn_wrong'
    BY <1>1, <2>1, <2>2 DEF AnswersCounted, NothingPending, AllOwn
  <2> QED
    BY <1>1, <2>1, <2>3, <2>4, ReadsStay DEF NcnInv
<1>7. CASE set_nb_cmd_req_data
  <2>1. CASE ncn_pc = "load"
    <3>1. /\ ncn_pc' = "store" /\ ncn_loaded' = next_data_is_cmd_reply
          /\ UNCHANGED <<ncn_cmd, ncn_reads, rx_cmd_buff, next_data_is_cmd_reply, rx_data_running,
                         ncn_asked, ncn_line, ncn_clean, ncn_wrong>>
      BY <1>7, <2>1 DEF set_nb_cmd_req_data, ncn_chip
    <3>2. NcnTypeOK'
      BY <1>1, <3>1 DEF NcnTypeOK
    <3>3. ncn_clean' => AnswersCounted' /\ ~ncn_wrong'
      BY <1>1, <2>1, <3>1 DEF AnswersCounted, NothingPending
    <3> QED
      BY <1>1, <2>1, <3>1, <3>2, <3>3, ReadsStay DEF NcnInv
  <2>2. CASE ncn_pc = "store"
    <3>1. /\ ncn_pc' = "send" /\ ncn_loaded' = 0
          /\ next_data_is_cmd_reply' = ncn_loaded + ncn_cmd.answer
          /\ UNCHANGED <<ncn_cmd, ncn_reads, rx_cmd_buff, rx_data_running,
                         ncn_asked, ncn_line, ncn_clean, ncn_wrong>>
      BY <1>7, <2>2 DEF set_nb_cmd_req_data, ncn_chip
    <3>2. next_data_is_cmd_reply' \in Nat /\ (ncn_loaded = 0 => next_data_is_cmd_reply' = ncn_cmd'.answer)
      BY <1>2, <1>3, <3>1
    <3>3. NcnTypeOK'
      BY <1>1, <3>1, <3>2 DEF NcnTypeOK
    <3>4. ncn_clean' => AnswersCounted' /\ ~ncn_wrong'
      BY <1>1, <2>2, <3>1, <3>2 DEF AnswersCounted, NothingPending
    <3> QED
      BY <1>1, <2>2, <3>1, <3>3, <3>4, ReadsStay DEF NcnInv
  <2> QED
    BY <1>7, <2>1, <2>2 DEF set_nb_cmd_req_data
<1>8. CASE SendRequest
  <2>1. /\ ncn_pc = "send" /\ ncn_line' = AnyBytes(Len(ncn_line))
        /\ rx_cmd_buff' = AnyBytes(Len(rx_cmd_buff)) /\ ncn_asked' = ncn_asked + ncn_cmd.answer
        /\ rx_data_running' = (rx_data_running /\ ~ncn_cmd.forgets)
        /\ UNCHANGED <<next_data_is_cmd_reply, ncn_loaded, ncn_clean, ncn_wrong>>
    BY <1>8 DEF SendRequest
  <2>2. \/ /\ ncn_reads = << >> /\ ncn_pc' = "idle" /\ ncn_cmd' = Tells /\ ncn_reads' = << >>
        \/ /\ ncn_reads # << >> /\ ncn_pc' = "wait" /\ UNCHANGED <<ncn_cmd, ncn_reads>>
    BY <1>8 DEF SendRequest, CommandOver
  <2>3. /\ ncn_line' \in Seq({"own", "any"}) /\ Len(ncn_line') = Len(ncn_line)
        /\ rx_cmd_buff' \in Seq({"own", "any"}) /\ Len(rx_cmd_buff') = Len(rx_cmd_buff)
    BY <1>2, <2>1, AnyBytesAre DEF BusBytes
  <2>4. ncn_asked' \in Nat /\ rx_data_running' \in BOOLEAN
    BY <1>2, <1>3, <2>1
  <2>5. ncn_reads = ncn_cmd.reads /\ ncn_reads \in Reads
    BY <1>1, <2>1 DEF ReadsAre
  <2>6. ReadsAre'
    BY <1>4, <2>2, <2>5 DEF ReadsAre
  <2>7. NcnTypeOK'
    BY <1>1, <1>4, <2>1, <2>2, <2>3, <2>4 DEF NcnTypeOK
  <2>8. ASSUME ncn_clean'
        PROVE  AnswersCounted' /\ ~ncn_wrong'
    <3>1. /\ ncn_asked = 0 /\ Len(ncn_line) = 0 /\ Len(rx_cmd_buff) = 0
          /\ next_data_is_cmd_reply' = ncn_cmd.answer /\ ~ncn_wrong'
      BY <1>1, <2>1, <2>8 DEF AnswersCounted, NothingPending
    <3>2. ncn_asked' = ncn_cmd.answer
      BY <1>3, <2>1, <3>1
    <3>3. AllOwn(ncn_line)' /\ AllOwn(rx_cmd_buff)'
      BY <2>3, <3>1 DEF AllOwn
    <3>4. CASE ncn_reads = << >>
      <4>1. ncn_cmd.answer = 0
        BY <1>3, <2>5, <3>4 DEF Fetched
      <4> QED
        BY <2>2, <2>3, <3>1, <3>2, <3>3, <3>4, <4>1 DEF AnswersCounted, NothingPending
    <3>5. CASE ncn_reads # << >>
      <4>1. Fetched(ncn_reads') = ncn_cmd.answer /\ ncn_pc' = "wait"
        BY <1>3, <2>2, <2>5, <3>5
      <4> QED
        BY <1>3, <2>3, <3>1, <3>2, <3>3, <4>1 DEF AnswersCounted
    <3> QED
      BY <3>4, <3>5
  <2> QED
    BY <2>6, <2>7, <2>8 DEF NcnInv
<1>9. CASE get_req_reply_data
  <2>1. /\ ncn_pc = "wait" /\ Len(rx_cmd_buff) >= Head(ncn_reads)
        /\ ncn_wrong' = (ncn_wrong \/ {rx_cmd_buff[i] : i \in 1 .. Head(ncn_reads)} # {"own"})
        /\ UNCHANGED <<next_data_is_cmd_reply, ncn_loaded, rx_data_running, ncn_asked, ncn_line, ncn_clean>>
    BY <1>9 DEF get_req_reply_data, ncn_chip
  <2>2. PICK n : n = Head(ncn_reads)
    OBVIOUS
  <2>3. /\ n = ncn_reads[1] /\ n \in Nat \ {0} /\ Len(ncn_reads) \in {1, 2, 3}
        /\ Tail(ncn_reads) \in Reads /\ (Len(ncn_reads) > 1 => Tail(ncn_reads) # << >>)
        /\ Fetched(Tail(ncn_reads)) = Fetched(ncn_reads) - n
        /\ Fetched(ncn_reads) \in Nat /\ (Len(ncn_reads) = 1 => Fetched(ncn_reads) = n)
    BY <1>1, <2>1, <2>2, ReadsGoOn DEF ReadsAre
  <2>4. \/ /\ rx_cmd_buff' = SubSeq(rx_cmd_buff, n + 1, Len(rx_cmd_buff))
           /\ \/ Len(ncn_reads) = 1 /\ ncn_pc' = "idle" /\ ncn_cmd' = Tells /\ ncn_reads' = << >>
              \/ Len(ncn_reads) > 1 /\ ncn_reads' = Tail(ncn_reads) /\ UNCHANGED <<ncn_pc, ncn_cmd>>
        \/ /\ {rx_cmd_buff[i] : i \in 1 .. n} # {"own"} /\ rx_cmd_buff' = << >>
           /\ ncn_pc' = "idle" /\ ncn_cmd' = Tells /\ ncn_reads' = << >>
    BY <1>9, <2>2 DEF get_req_reply_data, ReadTakes, CommandOver
  <2>5. ReadsAre'
    BY <1>4, <2>1, <2>3, <2>4 DEF ReadsAre
  <2>6. PICK left : left = SubSeq(rx_cmd_buff, n + 1, Len(rx_cmd_buff))
    OBVIOUS
  <2>7. /\ left \in Seq({"own", "any"}) /\ Len(left) = Len(rx_cmd_buff) - n
        /\ \A i \in 1 .. Len(left) : left[i] = rx_cmd_buff[i + n] /\ i + n \in 1 .. Len(rx_cmd_buff)
    <3>1. \A i \in n + 1 .. Len(rx_cmd_buff) : rx_cmd_buff[i] \in {"own", "any"}
      <4>1. \A i \in 1 .. Len(rx_cmd_buff) : rx_cmd_buff[i] \in BusBytes
        BY <1>2, ElementOfSeq
      <4> QED
        BY <1>2, <2>3, <4>1 DEF BusBytes
    <3>2. n + 1 \in Int /\ Len(rx_cmd_buff) \in Int
      BY <1>2, <2>3
    <3>3. /\ left \in Seq({"own", "any"})
          /\ Len(left) = IF n + 1 <= Len(rx_cmd_buff) THEN Len(rx_cmd_buff) - (n + 1) + 1 ELSE 0
          /\ \A i \in 1 .. Len(rx_cmd_buff) - (n + 1) + 1 : left[i] = rx_cmd_buff[(n + 1) + i - 1]
      BY <2>6, <3>1, <3>2, SubSeqProperties
    <3>4. Len(left) = Len(rx_cmd_buff) - n
      BY <1>2, <2>1, <2>2, <2>3, <3>3
    <3>5. ASSUME NEW i \in 1 .. Len(left)
          PROVE  left[i] = rx_cmd_buff[i + n] /\ i + n \in 1 .. Len(rx_cmd_buff)
      <4>1. n \in Nat /\ Len(rx_cmd_buff) \in Nat
        BY <1>2, <2>3
      <4>2. (n + 1) + i - 1 = i + n /\ i \in 1 .. Len(rx_cmd_buff) - (n + 1) + 1
            /\ i + n \in 1 .. Len(rx_cmd_buff)
        BY <3>4, <4>1
      <4> QED
        BY <3>3, <4>2
    <3> QED
      BY <3>3, <3>4, <3>5
  <2>8. rx_cmd_buff' \in Seq({"own", "any"}) /\ ncn_wrong' \in BOOLEAN
    <3>1. ncn_wrong' \in BOOLEAN
      BY <2>1
    <3>2. rx_cmd_buff' = left \/ rx_cmd_buff' = << >>
      BY <2>4, <2>6
    <3>3. << >> \in Seq({"own", "any"})
      OBVIOUS
    <3> QED
      BY <2>7, <3>1, <3>2, <3>3
  <2>9. NcnTypeOK'
    BY <1>1, <1>4, <2>1, <2>4, <2>8 DEF NcnTypeOK
  <2>10. ASSUME ncn_clean'
         PROVE  AnswersCounted' /\ ~ncn_wrong'
    <3>1. /\ next_data_is_cmd_reply = ncn_asked + Len(ncn_line)
          /\ Len(rx_cmd_buff) + next_data_is_cmd_reply = Fetched(ncn_reads)
          /\ AllOwn(ncn_line) /\ AllOwn(rx_cmd_buff) /\ ~ncn_wrong
      BY <1>1, <2>1, <2>10 DEF AnswersCounted
    <3>2. {rx_cmd_buff[i] : i \in 1 .. n} = {"own"}
      <4>1. \A i \in 1 .. n : rx_cmd_buff[i] = "own"
        BY <1>2, <2>1, <2>2, <2>3, <3>1 DEF AllOwn
      <4> QED
        BY <2>3, <4>1
    <3>3. /\ ~ncn_wrong' /\ rx_cmd_buff' = left
          /\ \/ Len(ncn_reads) = 1 /\ ncn_pc' = "idle"
             \/ Len(ncn_reads) > 1 /\ ncn_reads' = Tail(ncn_reads) /\ ncn_pc' = "wait"
      BY <2>1, <2>2, <2>4, <2>6, <3>1, <3>2
    <3>4. AllOwn(ncn_line)' /\ AllOwn(rx_cmd_buff)'
      BY <2>1, <2>7, <3>1, <3>3 DEF AllOwn
    <3>5. CASE Len(ncn_reads) = 1
      <4>1. /\ ncn_asked' = 0 /\ Len(ncn_line') = 0 /\ Len(rx_cmd_buff') = 0
            /\ next_data_is_cmd_reply' = 0
        BY <1>2, <2>1, <2>2, <2>3, <2>7, <3>1, <3>3, <3>5
      <4> QED
        BY <3>3, <3>4, <3>5, <4>1 DEF AnswersCounted, NothingPending
    <3>6. CASE Len(ncn_reads) # 1
      <4>1. ncn_pc' = "wait" /\ ncn_reads' = Tail(ncn_reads)
        BY <3>3, <3>6
      <4>2. Len(rx_cmd_buff') + next_data_is_cmd_reply' = Fetched(ncn_reads')
        <5>1. Fetched(ncn_reads') = Fetched(ncn_reads) - n
          BY <2>3, <4>1
        <5>2. Len(rx_cmd_buff') = Len(rx_cmd_buff) - n
              /\ next_data_is_cmd_reply' = next_data_is_cmd_reply
          BY <2>1, <2>7, <3>3
        <5>3. Len(rx_cmd_buff) + next_data_is_cmd_reply = Fetched(ncn_reads)
              /\ n \in Nat /\ Fetched(ncn_reads) \in Nat
          BY <2>3, <3>1
        <5> QED
          BY <1>2, <5>1, <5>2, <5>3
      <4>3. next_data_is_cmd_reply' = ncn_asked' + Len(ncn_line')
        BY <2>1, <3>1
      <4> QED
        BY <3>3, <3>4, <4>1, <4>2, <4>3 DEF AnswersCounted
    <3> QED
      BY <3>3, <3>5, <3>6
  <2> QED
    BY <2>5, <2>9, <2>10 DEF NcnInv
<1>10. CASE handle_rx
  <2>1. /\ ncn_line # << >> /\ ncn_line' = Tail(ncn_line)
        /\ UNCHANGED <<ncn_pc, ncn_cmd, ncn_reads, ncn_loaded, ncn_asked, ncn_clean, ncn_wrong>>
    BY <1>10 DEF handle_rx
  <2>2. \/ /\ next_data_is_cmd_reply > 0 /\ rx_cmd_buff' = Append(rx_cmd_buff, Head(ncn_line))
           /\ next_data_is_cmd_reply' = next_data_is_cmd_reply - 1 /\ UNCHANGED rx_data_running
        \/ /\ ~(next_data_is_cmd_reply > 0) /\ rx_data_running' \in BOOLEAN
           /\ UNCHANGED <<rx_cmd_buff, next_data_is_cmd_reply>>
    BY <1>10 DEF handle_rx
  <2>3. /\ Head(ncn_line) = ncn_line[1] /\ Head(ncn_line) \in BusBytes /\ ncn_line' \in Seq(BusBytes)
        /\ Len(ncn_line') = Len(ncn_line) - 1 /\ Len(ncn_line) \in Nat \ {0}
        /\ \A i \in 1 .. Len(ncn_line') : ncn_line'[i] = ncn_line[i + 1]
    BY <1>2, <2>1, HeadTailProperties, EmptySeq
  <2>4. PICK more : more = Append(rx_cmd_buff, Head(ncn_line))
    OBVIOUS
  <2>5. /\ more \in Seq(BusBytes) /\ Len(more) = Len(rx_cmd_buff) + 1
        /\ \A i \in 1 .. Len(rx_cmd_buff) : more[i] = rx_cmd_buff[i]
        /\ more[Len(rx_cmd_buff) + 1] = ncn_line[1]
    BY <1>2, <2>3, <2>4, AppendProperties
  <2>6. /\ rx_cmd_buff' \in Seq(BusBytes) /\ next_data_is_cmd_reply' \in Nat
        /\ rx_data_running' \in BOOLEAN
    <3>1. rx_data_running' \in BOOLEAN
      BY <1>2, <2>2
    <3>2. next_data_is_cmd_reply' \in Nat
      BY <1>2, <2>2
    <3>3. rx_cmd_buff' \in Seq(BusBytes)
      BY <1>2, <2>2, <2>4, <2>5
    <3> QED
      BY <3>1, <3>2, <3>3
  <2>7. NcnTypeOK'
    BY <1>1, <2>1, <2>3, <2>6 DEF NcnTypeOK, BusBytes
  <2>8. ASSUME ncn_clean'
        PROVE  AnswersCounted' /\ ~ncn_wrong'
    <3>1. AnswersCounted /\ ~ncn_wrong'
      BY <1>1, <2>1, <2>8
    <3>2. ncn_pc = "wait"
      BY <1>1, <2>3, <3>1 DEF AnswersCounted, NothingPending, NcnTypeOK
    <3>3. /\ next_data_is_cmd_reply = ncn_asked + Len(ncn_line)
          /\ Len(rx_cmd_buff) + next_data_is_cmd_reply = Fetched(ncn_reads)
          /\ AllOwn(ncn_line) /\ AllOwn(rx_cmd_buff)
      BY <3>1, <3>2 DEF AnswersCounted
    <3>4. next_data_is_cmd_reply > 0
      BY <1>2, <2>3, <3>3
    <3>5. rx_cmd_buff' = more /\ next_data_is_cmd_reply' = next_data_is_cmd_reply - 1
      BY <2>2, <2>4, <3>4
    <3>6. AllOwn(ncn_line')
      BY <2>3, <3>3 DEF AllOwn
    <3>7. AllOwn(more)
      <4>1. \A i \in 1 .. Len(more) : i \in 1 .. Len(rx_cmd_buff) \/ i = Len(rx_cmd_buff) + 1
        BY <1>2, <2>5
      <4>2. ncn_line[1] = "own"
        BY <2>3, <3>3 DEF AllOwn
      <4> QED
        BY <2>5, <3>3, <4>1, <4>2 DEF AllOwn
    <3>8. /\ next_data_is_cmd_reply' = ncn_asked' + Len(ncn_line')
          /\ Len(rx_cmd_buff') + next_data_is_cmd_reply' = Fetched(ncn_reads')
      <4>1. Fetched(ncn_reads') = Fetched(ncn_reads) /\ ncn_asked' = ncn_asked
        BY <2>1
      <4>2. Len(rx_cmd_buff') = Len(rx_cmd_buff) + 1
        BY <2>5, <3>5
      <4>3. Len(rx_cmd_buff') + next_data_is_cmd_reply' = Len(rx_cmd_buff) + next_data_is_cmd_reply
        BY <1>2, <3>5, <4>2
      <4>4. next_data_is_cmd_reply' = ncn_asked + Len(ncn_line')
        BY <1>2, <2>3, <3>3, <3>5
      <4> QED
        BY <3>3, <4>1, <4>3, <4>4
    <3> QED
      BY <2>1, <3>1, <3>2, <3>5, <3>6, <3>7, <3>8 DEF AnswersCounted
  <2> QED
    BY <1>1, <2>1, <2>7, <2>8, ReadsStay DEF NcnInv
<1>11. ASSUME OtherByte, UNCHANGED <<ncn_pc, ncn_cmd, ncn_reads, next_data_is_cmd_reply, ncn_loaded,
                                     rx_data_running, ncn_wrong>>, ncn_asked' \in Nat
       PROVE  NcnInv'
  <2>1. /\ ncn_line' \in Seq({"own", "any"}) /\ rx_cmd_buff' \in Seq({"own", "any"})
        /\ ncn_clean' = FALSE
    BY <1>2, <1>11, AnyBytesAre DEF OtherByte, BusBytes
  <2>2. NcnTypeOK'
    BY <1>1, <1>11, <2>1 DEF NcnTypeOK
  <2> QED
    BY <1>1, <1>11, <2>1, <2>2, ReadsStay DEF NcnInv
<1>12. CASE ChipAnswers
  <2>1. /\ ncn_asked > 0 /\ ncn_asked' = 0
        /\ UNCHANGED <<ncn_pc, ncn_cmd, ncn_reads, next_data_is_cmd_reply, ncn_loaded,
                       rx_data_running, ncn_wrong>>
    BY <1>12 DEF ChipAnswers
  <2>2. CASE OtherByte
    BY <1>11, <2>1, <2>2
  <2>3. CASE /\ ncn_line' = ncn_line \o [i \in 1 .. ncn_asked |-> IF ncn_clean THEN "own" ELSE "any"]
             /\ UNCHANGED <<ncn_clean, rx_cmd_buff>>
    <3>1. PICK answer : answer = [i \in 1 .. ncn_asked |-> IF ncn_clean THEN "own" ELSE "any"]
      OBVIOUS
    <3>2. /\ answer \in Seq(BusBytes) /\ Len(answer) = ncn_asked
          /\ \A i \in 1 .. ncn_asked : answer[i] = IF ncn_clean THEN "own" ELSE "any"
      <4>1. answer \in [1 .. ncn_asked -> BusBytes]
        BY <3>1 DEF BusBytes
      <4> QED
        BY <1>2, <3>1, <4>1, LenProperties
    <3>3. /\ ncn_line' \in Seq(BusBytes) /\ Len(ncn_line') = Len(ncn_line) + ncn_asked
          /\ \A i \in 1 .. Len(ncn_line) + ncn_asked :
                ncn_line'[i] = IF i <= Len(ncn_line) THEN ncn_line[i] ELSE answer[i - Len(ncn_line)]
      BY <1>2, <2>3, <3>1, <3>2, ConcatProperties
    <3>4. NcnTypeOK'
      BY <1>1, <2>1, <2>3, <3>3 DEF NcnTypeOK, BusBytes
    <3>5. ASSUME ncn_clean'
          PROVE  AnswersCounted' /\ ~ncn_wrong'
      <4>1. ncn_clean /\ AnswersCounted /\ ~ncn_wrong'
        BY <1>1, <2>1, <2>3, <3>5
      <4>2. ncn_pc = "wait"
        BY <1>1, <2>1, <4>1 DEF AnswersCounted, NothingPending, NcnTypeOK
      <4>3. /\ next_data_is_cmd_reply = ncn_asked + Len(ncn_line)
            /\ Len(rx_cmd_buff) + next_data_is_cmd_reply = Fetched(ncn_reads)
            /\ AllOwn(ncn_line) /\ AllOwn(rx_cmd_buff)
        BY <4>1, <4>2 DEF AnswersCounted
      <4>4. AllOwn(ncn_line')
        <5> SUFFICES ASSUME NEW i \in 1 .. Len(ncn_line') PROVE ncn_line'[i] = "own"
          BY DEF AllOwn
        <5>1. CASE i <= Len(ncn_line)
          BY <1>2, <3>3, <4>3, <5>1 DEF AllOwn
        <5>2. CASE i > Len(ncn_line)
          <6>1. i - Len(ncn_line) \in 1 .. ncn_asked /\ i \in 1 .. Len(ncn_line) + ncn_asked
            BY <1>2, <3>3, <5>2
          <6> QED
            BY <1>2, <3>2, <3>3, <4>1, <5>2, <6>1
        <5> QED
          BY <1>2, <3>3, <5>1, <5>2
      <4>5. next_data_is_cmd_reply' = ncn_asked' + Len(ncn_line')
        BY <1>2, <2>1, <3>3, <4>3
      <4> QED
        BY <2>1, <2>3, <4>1, <4>2, <4>3, <4>4, <4>5 DEF AnswersCounted
    <3> QED
      BY <1>1, <2>1, <3>4, <3>5, ReadsStay DEF NcnInv
  <2> QED
    BY <1>12, <2>2, <2>3 DEF ChipAnswers
<1>13. CASE KnxByte
  BY <1>2, <1>11, <1>13 DEF KnxByte
<1>14. CASE UNCHANGED ncn_vars
  BY <1>1, <1>14
  DEF ncn_vars, NcnInv, NcnTypeOK, ReadsAre, AnswersCounted, NothingPending
<1> QED
  BY <1>5, <1>6, <1>7, <1>8, <1>9, <1>10, <1>12, <1>13, <1>14 DEF NcnNext, NcnMain

\* For packets of any size and any number of commands, as long as the bus is silent and
\* the chip reports no error, a command reads its own answer and nothing else, although
\* the interrupt comes between the load and the store of the count.
THEOREM OwnAnswersCorrect == NcnSpec => []OwnAnswers
<1>1. NcnInit => NcnInv
  <2> SUFFICES ASSUME NcnInit PROVE NcnInv
    OBVIOUS
  <2>1. /\ ncn_pc = "idle" /\ ncn_cmd = Tells /\ ncn_reads = << >>
        /\ rx_cmd_buff = << >> /\ next_data_is_cmd_reply = 0 /\ ncn_loaded = 0
        /\ rx_data_running = FALSE
        /\ ncn_asked = 0 /\ ncn_line = << >> /\ ncn_clean = TRUE /\ ncn_wrong = FALSE
    BY DEF NcnInit
  <2>2. Len(rx_cmd_buff) = 0 /\ Len(ncn_line) = 0
    BY <2>1
  <2>3. /\ Tells \in Commands /\ << >> \in Reads
        /\ rx_cmd_buff \in Seq({"own", "any"}) /\ ncn_line \in Seq({"own", "any"})
    BY <2>1 DEF Commands, enter_sleep, Reads
  <2>4. NcnTypeOK /\ ReadsAre
    BY <2>1, <2>3 DEF NcnTypeOK, ReadsAre
  <2>5. AnswersCounted
    BY <2>1, <2>2 DEF AnswersCounted, NothingPending, AllOwn
  <2> QED
    BY <2>1, <2>4, <2>5 DEF NcnInv
<1>2. NcnInv => OwnAnswers
  BY DEF NcnInv, OwnAnswers
<1> QED
  BY <1>1, <1>2, NcnStep, PTL DEF NcnSpec

-----------------------------------------------------------------------------
(***************************************************************************)
(* The memory card.                                                        *)
(***************************************************************************)

\* Where a block is in the card: whole sectors in a large card, blocks of the
\* driver's length in an old one.
BlockPlace(block) ==
    IF card = "HC" THEN (block * SectorSize) .. (block * SectorSize + block_size - 1)
    ELSE (block * block_size) .. (block * block_size + block_size - 1)

\* Who has the bus: nobody, the card's operation until its release, or the
\* interrupt that reads the thermocouple.
HolderOfTheBus ==
    /\ sd_pc \in {"idle", "held", "deselect", "unlock"} /\ th_pc \in {"idle", "reading"}
    /\ sd_pc = "idle" => /\ spi_mutex = (th_pc = "reading")
                         /\ selected = IF th_pc = "reading" THEN {"thermocouple"} ELSE {}
    /\ sd_pc # "idle" => /\ spi_mutex = TRUE /\ th_pc = "idle"
                         /\ selected = IF sd_pc = "unlock" THEN {} ELSE {"card"}

\* The driver's type is the card's own from sdmmc_init_end on, or the card is off.
TypeIsKnown ==
    /\ block_size \in BlockSizes
    /\ sd_initialized \in BOOLEAN /\ sd_ready \in BOOLEAN
    /\ sd_ready => card_state \in {"off", "ready"}
    /\ sd_initialized => sd_ready
    /\ sd_initialized /\ card_type # "unknown" /\ card_state # "off" =>
         card_state = "ready" /\ card_type = card /\ card_blocklen = block_size

\* What the operation in progress has checked before it took the bus.
OperationHasItsTurn ==
    sd_pc = "held" =>
        /\ sd_read = NothingRead
        /\ sd_op.name = "init" => ~sd_ready
        /\ sd_op.name = "end" => sd_ready
        /\ sd_op.name \in {"read", "write"} =>
             sd_initialized /\ card_type # "unknown" /\ sd_op.block \in Blocks

\* A block whose value is certain is whole in its place.
BlocksArePlaced ==
    \A b \in Blocks : sd_written[b] # "unsure" =>
        \A u \in BlockPlace(b) : u \in Units /\ card_mem[u] = sd_written[b]

\* What was read last is in the place of its block.
ReadIsInPlace ==
    \/ sd_read = NothingRead
    \/ /\ sd_read.block \in Blocks
       /\ sd_written[sd_read.block] # "unsure" => sd_read.values = {sd_written[sd_read.block]}

SdInv ==
    /\ HolderOfTheBus
    /\ TypeIsKnown
    /\ OperationHasItsTurn
    /\ BlocksArePlaced
    /\ ReadIsInPlace

\* It holds before the first call.
LEMMA SdInitially == SdInit => SdInv
<1> SUFFICES ASSUME SdInit PROVE SdInv
  OBVIOUS
<1>1. HolderOfTheBus
  BY DEF SdInit, HolderOfTheBus
<1>2. TypeIsKnown
  BY DEF SdInit, TypeIsKnown
<1>3. OperationHasItsTurn
  BY DEF SdInit, OperationHasItsTurn
<1>4. BlocksArePlaced
  BY DEF SdInit, BlocksArePlaced
<1>5. ReadIsInPlace
  BY DEF SdInit, ReadIsInPlace
<1> QED BY <1>1, <1>2, <1>3, <1>4, <1>5 DEF SdInv

\* An operation is on the units of its block, and on no unit of another block.
LEMMA OperationIsOnItsBlock ==
    ASSUME TypeIsKnown, sd_initialized, card_type # "unknown", card_state = "ready",
           NEW b \in Blocks
    PROVE  /\ DriverUnits(BlockAddress(b)) = BlockPlace(b)
           /\ BlockPlace(b) \subseteq CardUnits(BlockAddress(b))
           /\ BlockPlace(b) # {}
           /\ \A c \in Blocks : \A u \in BlockPlace(c) : u \in CardUnits(BlockAddress(b)) => c = b
<1>1. card_type = card /\ card_blocklen = block_size /\ block_size \in BlockSizes
  BY DEF TypeIsKnown
<1>2. /\ block_size \in Nat /\ block_size >= 1 /\ block_size <= SectorSize
      /\ SectorSize \in Nat /\ b \in Nat
  BY <1>1, SdAssumption
<1>3. b * SectorSize \in Nat /\ b * block_size \in Nat
  BY <1>2
<1>4. CASE card = "HC"
  <2>1. PICK a \in Nat : a = b * SectorSize
    BY <1>3
  <2>2. /\ BlockAddress(b) = b
        /\ DriverUnits(b) = a .. (a + block_size - 1)
        /\ BlockPlace(b) = a .. (a + block_size - 1)
        /\ CardUnits(b) = a .. (a + SectorSize - 1)
    BY <1>1, <1>4, <2>1 DEF BlockAddress, DriverUnits, BlockPlace, CardUnits
  <2>3. ASSUME NEW c \in Blocks, NEW u \in BlockPlace(c), u \in CardUnits(BlockAddress(b)), c # b
        PROVE  FALSE
    <3>1. c \in Nat /\ (c < b \/ b < c)
      BY <2>3, <1>2, SdAssumption
    <3>2. PICK e \in Nat : e = c * SectorSize
      BY <3>1, <1>2
    <3>3. u \in e .. (e + block_size - 1) /\ u \in a .. (a + SectorSize - 1)
      BY <2>3, <2>2, <3>2, <1>4 DEF BlockPlace
    <3>4. e + SectorSize <= a \/ a + SectorSize <= e
      BY <3>1, <3>2, <2>1, <1>2, MultiplesApart
    <3> QED BY <3>3, <3>4, <1>2
  <2>4. a \in BlockPlace(b)
    BY <2>2, <1>2
  <2>5. BlockPlace(b) \subseteq CardUnits(b)
    BY <2>2, <1>2
  <2> QED BY <2>2, <2>3, <2>4, <2>5
<1>5. CASE card # "HC"
  <2>1. PICK a \in Nat : a = b * block_size
    BY <1>3
  <2>2. /\ BlockAddress(b) = a
        /\ DriverUnits(a) = a .. (a + block_size - 1)
        /\ BlockPlace(b) = a .. (a + block_size - 1)
        /\ CardUnits(a) = a .. (a + block_size - 1)
    BY <1>1, <1>5, <2>1 DEF BlockAddress, DriverUnits, BlockPlace, CardUnits
  <2>3. ASSUME NEW c \in Blocks, NEW u \in BlockPlace(c), u \in CardUnits(BlockAddress(b)), c # b
        PROVE  FALSE
    <3>1. c \in Nat /\ (c < b \/ b < c)
      BY <2>3, <1>2, SdAssumption
    <3>2. PICK e \in Nat : e = c * block_size
      BY <3>1, <1>2
    <3>3. u \in e .. (e + block_size - 1) /\ u \in a .. (a + block_size - 1)
      BY <2>3, <2>2, <3>2, <1>5 DEF BlockPlace
    <3>4. e + block_size <= a \/ a + block_size <= e
      BY <3>1, <3>2, <2>1, <1>2, MultiplesApart
    <3> QED BY <3>3, <3>4, <1>2
  <2>4. a \in BlockPlace(b)
    BY <2>2, <1>2
  <2> QED BY <2>2, <2>3, <2>4
<1> QED BY <1>4, <1>5

\* Every step keeps the invariant.
LEMMA SdStep == SdInv /\ [SdNext]_sd_vars => SdInv'
<1> SUFFICES ASSUME SdInv, [SdNext]_sd_vars PROVE SdInv'
  OBVIOUS
<1> USE DEF SdInv
<1>1. CASE SdCall
  <2>1. PICK op \in SdOperations : sd_op' = op
    BY <1>1 DEF SdCall
  <2>2. /\ op.name \in {"read", "write"} => sd_initialized /\ card_type # "unknown" /\ op.block \in Blocks
        /\ op.name = "end" => sd_ready
    BY <2>1 DEF SdOperations, SdOp
  <2>3. HolderOfTheBus'
    BY <1>1 DEF SdCall, HolderOfTheBus
  <2>4. TypeIsKnown'
    BY <1>1 DEF SdCall, TypeIsKnown, sd_card
  <2>5. OperationHasItsTurn'
    BY <1>1, <2>1, <2>2 DEF SdCall, OperationHasItsTurn, TypeIsKnown
  <2>6. BlocksArePlaced'
    BY <1>1 DEF SdCall, BlocksArePlaced, BlockPlace, Units, sd_card
  <2>7. ReadIsInPlace'
    BY <1>1 DEF SdCall, ReadIsInPlace
  <2> QED BY <2>3, <2>4, <2>5, <2>6, <2>7
<1>2. CASE SdFails
  <2>1. HolderOfTheBus'
    BY <1>2 DEF SdFails, SdGoto, HolderOfTheBus
  <2>2. TypeIsKnown'
    <3>1. PICK done \in BOOLEAN :
            /\ card_state' = (IF done /\ card # "none" THEN CardAfter(sd_op.name)
                             ELSE <<card_state, card_blocklen>>)[1]
            /\ card_blocklen' = (IF done /\ card # "none" THEN CardAfter(sd_op.name)
                             ELSE <<card_state, card_blocklen>>)[2]
      BY <1>2 DEF SdFails
    <3>2. \/ card_state' = card_state /\ card_blocklen' = card_blocklen
          \/ sd_op.name = "init" /\ card_state' = "idle"
          \/ sd_op.name = "wait" /\ card_state' = "ready" /\ card_state # "off" /\ card_blocklen' = card_blocklen
          \/ sd_op.name = "end" /\ card_state' = card_state /\ card_blocklen' = block_size
      BY <3>1 DEF CardAfter
    <3> QED BY <1>2, <3>2 DEF SdFails, SdGoto, TypeIsKnown, OperationHasItsTurn
  <2>3. OperationHasItsTurn'
    BY <1>2 DEF SdFails, SdGoto, OperationHasItsTurn
  <2>4. BlocksArePlaced'
    BY <1>2 DEF SdFails, BlocksArePlaced, BlockPlace, Units
  <2>5. ReadIsInPlace'
    BY <1>2 DEF SdFails, ReadIsInPlace, OperationHasItsTurn
  <2> QED BY <2>1, <2>2, <2>3, <2>4, <2>5
<1>3. CASE sdmmc_init
  <2>1. HolderOfTheBus'
    BY <1>3 DEF sdmmc_init, SdGoto, HolderOfTheBus
  <2>2. TypeIsKnown'
    BY <1>3 DEF sdmmc_init, TypeIsKnown, OperationHasItsTurn
  <2>3. OperationHasItsTurn'
    BY <1>3 DEF sdmmc_init, SdGoto, OperationHasItsTurn
  <2>4. BlocksArePlaced'
    BY <1>3 DEF sdmmc_init, BlocksArePlaced, BlockPlace, Units
  <2>5. ReadIsInPlace'
    BY <1>3 DEF sdmmc_init, ReadIsInPlace
  <2> QED BY <2>1, <2>2, <2>3, <2>4, <2>5
<1>4. CASE sdmmc_init_wait_card_ready
  <2>1. HolderOfTheBus'
    BY <1>4 DEF sdmmc_init_wait_card_ready, SdGoto, HolderOfTheBus
  <2>2. TypeIsKnown'
    BY <1>4 DEF sdmmc_init_wait_card_ready, TypeIsKnown
  <2>3. OperationHasItsTurn'
    BY <1>4 DEF sdmmc_init_wait_card_ready, SdGoto, OperationHasItsTurn
  <2>4. BlocksArePlaced'
    BY <1>4 DEF sdmmc_init_wait_card_ready, BlocksArePlaced, BlockPlace, Units
  <2>5. ReadIsInPlace'
    BY <1>4 DEF sdmmc_init_wait_card_ready, ReadIsInPlace
  <2> QED BY <2>1, <2>2, <2>3, <2>4, <2>5
<1>5. CASE sdmmc_init_end
  <2>1. HolderOfTheBus'
    BY <1>5 DEF sdmmc_init_end, SdGoto, HolderOfTheBus
  <2>2. TypeIsKnown'
    BY <1>5 DEF sdmmc_init_end, TypeIsKnown, OperationHasItsTurn
  <2>3. OperationHasItsTurn'
    BY <1>5 DEF sdmmc_init_end, SdGoto, OperationHasItsTurn
  <2>4. BlocksArePlaced'
    BY <1>5 DEF sdmmc_init_end, BlocksArePlaced, BlockPlace, Units
  <2>5. ReadIsInPlace'
    BY <1>5 DEF sdmmc_init_end, ReadIsInPlace
  <2> QED BY <2>1, <2>2, <2>3, <2>4, <2>5
<1>6. CASE sdmmc_read_block
  <2>1. PICK b \in Blocks : b = sd_op.block
    BY <1>6 DEF sdmmc_read_block, OperationHasItsTurn
  <2>2. sd_initialized /\ card_type # "unknown" /\ card_state = "ready"
    BY <1>6 DEF sdmmc_read_block, OperationHasItsTurn
  <2>3. DriverUnits(BlockAddress(b)) = BlockPlace(b) /\ BlockPlace(b) # {}
    BY <2>2, OperationIsOnItsBlock
  <2>4. HolderOfTheBus'
    BY <1>6 DEF sdmmc_read_block, SdGoto, HolderOfTheBus
  <2>5. TypeIsKnown'
    BY <1>6 DEF sdmmc_read_block, TypeIsKnown, sd_card, sd_driver
  <2>6. OperationHasItsTurn'
    BY <1>6 DEF sdmmc_read_block, SdGoto, OperationHasItsTurn
  <2>7. BlocksArePlaced'
    BY <1>6 DEF sdmmc_read_block, BlocksArePlaced, BlockPlace, Units, sd_card, sd_driver
  <2>8. sd_read' = [block |-> b, values |-> {card_mem[u] : u \in BlockPlace(b)}] /\ sd_written' = sd_written
    BY <1>6, <2>1, <2>3 DEF sdmmc_read_block
  <2>9. sd_written[b] # "unsure" => {card_mem[u] : u \in BlockPlace(b)} = {sd_written[b]}
    BY <2>3 DEF BlocksArePlaced
  <2>10. ReadIsInPlace'
    BY <2>8, <2>9 DEF ReadIsInPlace
  <2> QED BY <2>4, <2>5, <2>6, <2>7, <2>10
<1>7. CASE sdmmc_write_block
  <2>1. PICK b \in Blocks : b = sd_op.block
    BY <1>7 DEF sdmmc_write_block, OperationHasItsTurn
  <2>2. sd_initialized /\ card_type # "unknown" /\ card_state = "ready"
    BY <1>7 DEF sdmmc_write_block, OperationHasItsTurn
  <2>3. /\ BlockPlace(b) \subseteq CardUnits(BlockAddress(b))
        /\ \A c \in Blocks : \A u \in BlockPlace(c) : u \in CardUnits(BlockAddress(b)) => c = b
    BY <2>2, OperationIsOnItsBlock
  <2>4. HolderOfTheBus'
    BY <1>7 DEF sdmmc_write_block, SdGoto, HolderOfTheBus
  <2>5. TypeIsKnown'
    BY <1>7 DEF sdmmc_write_block, TypeIsKnown, sd_driver
  <2>6. OperationHasItsTurn'
    BY <1>7 DEF sdmmc_write_block, SdGoto, OperationHasItsTurn
  <2>7. PICK block_units : block_units = CardUnits(BlockAddress(b))
    OBVIOUS
  <2>8. /\ block_units \subseteq Units
        /\ card_mem' = [u \in Units |-> IF u \in block_units THEN sd_op.value ELSE card_mem[u]]
        /\ \/ sd_written' = [c \in Blocks |-> IF c = b THEN sd_op.value ELSE sd_written[c]]
           \/ sd_written' = [c \in Blocks |-> IF c = b THEN "unsure" ELSE sd_written[c]]
        /\ card' = card /\ block_size' = block_size
    BY <1>7, <2>1, <2>7 DEF sdmmc_write_block, sd_driver
  <2>9. ASSUME NEW c \in Blocks, sd_written'[c] # "unsure", NEW u \in BlockPlace(c)
        PROVE  u \in Units /\ card_mem'[u] = sd_written'[c]
    <3>1. CASE c = b
      <4>1. sd_written'[c] = sd_op.value /\ u \in block_units
        BY <2>3, <2>7, <2>8, <2>9, <3>1
      <4> QED BY <4>1, <2>8
    <3>2. CASE c # b
      <4>1. sd_written'[c] = sd_written[c] /\ u \notin block_units
        BY <2>3, <2>7, <2>8, <2>9, <3>2
      <4>2. u \in Units /\ card_mem[u] = sd_written[c]
        BY <4>1, <2>9 DEF BlocksArePlaced
      <4> QED BY <4>1, <4>2, <2>8
    <3> QED BY <3>1, <3>2
  <2>10. BlocksArePlaced'
    BY <2>8, <2>9 DEF BlocksArePlaced, BlockPlace, Units
  <2>11. ReadIsInPlace'
    BY <1>7 DEF sdmmc_write_block, ReadIsInPlace, OperationHasItsTurn
  <2> QED BY <2>4, <2>5, <2>6, <2>10, <2>11
<1>8. CASE SdRelease
  <2>1. HolderOfTheBus'
    BY <1>8 DEF SdRelease, HolderOfTheBus
  <2>2. TypeIsKnown'
    BY <1>8 DEF SdRelease, TypeIsKnown, sd_card, sd_driver
  <2>3. OperationHasItsTurn'
    BY <1>8 DEF SdRelease, OperationHasItsTurn
  <2>4. BlocksArePlaced'
    BY <1>8 DEF SdRelease, BlocksArePlaced, BlockPlace, Units, sd_card, sd_driver
  <2>5. ReadIsInPlace'
    BY <1>8 DEF SdRelease, ReadIsInPlace
  <2> QED BY <2>1, <2>2, <2>3, <2>4, <2>5
<1>9. CASE max31855_sensor_read
  <2>1. HolderOfTheBus'
    BY <1>9 DEF max31855_sensor_read, HolderOfTheBus
  <2>2. TypeIsKnown'
    BY <1>9 DEF max31855_sensor_read, TypeIsKnown, sd_card, sd_driver
  <2>3. OperationHasItsTurn'
    BY <1>9 DEF max31855_sensor_read, OperationHasItsTurn, sd_driver
  <2>4. BlocksArePlaced'
    BY <1>9 DEF max31855_sensor_read, BlocksArePlaced, BlockPlace, Units, sd_card, sd_driver
  <2>5. ReadIsInPlace'
    BY <1>9 DEF max31855_sensor_read, ReadIsInPlace
  <2> QED BY <2>1, <2>2, <2>3, <2>4, <2>5
<1>10. CASE CardSwapped
  <2>1. HolderOfTheBus'
    BY <1>10 DEF CardSwapped, HolderOfTheBus
  <2>2. TypeIsKnown'
    BY <1>10 DEF CardSwapped, TypeIsKnown, sd_driver
  <2>3. OperationHasItsTurn'
    BY <1>10 DEF CardSwapped, OperationHasItsTurn, sd_driver
  <2>4. BlocksArePlaced'
    BY <1>10 DEF CardSwapped, BlocksArePlaced
  <2>5. ReadIsInPlace'
    BY <1>10 DEF CardSwapped, ReadIsInPlace
  <2> QED BY <2>1, <2>2, <2>3, <2>4, <2>5
<1>11. CASE UNCHANGED sd_vars
  BY <1>11 DEF sd_vars, sd_card, sd_driver, HolderOfTheBus, TypeIsKnown, OperationHasItsTurn,
     BlocksArePlaced, BlockPlace, Units, ReadIsInPlace
<1> QED BY <1>1, <1>2, <1>3, <1>4, <1>5, <1>6, <1>7, <1>8, <1>9, <1>10, <1>11 DEF SdNext

\* The invariant, always.
LEMMA SdAlways == SdSpec => []SdInv
<1> QED BY SdInitially, SdStep, PTL DEF SdSpec

\* Whatever the kind of card, the length of the blocks, the failures and the
\* cards swapped, a block is read with the value last written at its number.
THEOREM BlocksCorrect == SdSpec => []ReadsWhatWasWritten
<1>1. SdInv => ReadsWhatWasWritten
  BY DEF SdInv, ReadIsInPlace, ReadsWhatWasWritten, NothingRead
<1> QED BY <1>1, SdAlways, PTL

\* One chip at a time is selected on the bus, by the holder of its mutex, and
\* every operation leaves the bus free whatever has failed in it.
THEOREM BusCorrect == SdSpec => []BusIsShared
<1>1. SdInv => BusIsShared
  BY DEF SdInv, HolderOfTheBus, BusIsShared
<1> QED BY <1>1, SdAlways, PTL

----------------------------------------------------------------------------
(* LcdChar.  Four transfers of lcdc_init bring the chip, wherever it was,  *)
(* to nibbles and to the first of two; from then on the board and the chip *)
(* count alike, and no byte it executes sets it back to eight bits.        *)

\* The last n transfers of q: no instruction begins with a 3, which would set the
\* width to eight.
NoThree(q, n) ==
    \A i \in 1 .. Len(q) : (Len(q) - i < n /\ (Len(q) - i) % 2 = 1) =>
        (q[i].value = 3 => q[i + 1].kind # "instruction")

\* Where the chip may be when n transfers are left: in the first four of
\* lcdc_init, and later.
ChipInStep(n, eight, half) ==
    /\ n = 21 => eight \/ half \in {-1, 3}
    /\ n = 20 => eight \/ half = 3
    /\ n = 19 => eight
    /\ n <= 18 => /\ ~eight
                  /\ n % 2 = 0 <=> half = -1

\* A 3 that the chip holds is half of a byte of data.
HeldThree(q, half) == (Len(q) <= 18 /\ half = 3) => q[1].kind # "instruction"

LcdInv ==
    /\ LcdTypeOK
    /\ lcd_eight => lcd_half = -1
    /\ Len(lcd_steps) <= 22 /\ (lcd_ready => Len(lcd_steps) <= 18)
    /\ \A i \in 1 .. Len(lcd_steps) - 18 :
          lcd_steps[i] = Nibble("instruction", IF i = Len(lcd_steps) - 18 THEN 2 ELSE 3)
    /\ NoThree(lcd_steps, 18)
    /\ ChipInStep(Len(lcd_steps), lcd_eight, lcd_half)
    /\ HeldThree(lcd_steps, lcd_half)

\* The transfers of a byte.
LEMMA WriteIs ==
  ASSUME NEW byte \in 0 .. 255
  PROVE  /\ perform_write(byte, "instruction") =
              <<Nibble("instruction", byte \div 16), Nibble("instruction", byte % 16),
                Nibble("read", 0), Nibble("read", 0)>>
         /\ perform_write(byte, "data") =
              <<Nibble("data", byte \div 16), Nibble("data", byte % 16)>>
         /\ \A kind \in {"instruction", "data", "read"} :
               {Nibble(kind, byte \div 16), Nibble(kind, byte % 16), Nibble(kind, 0)} \subseteq Transfers
<1>1. byte \div 16 \in 0 .. 15 /\ byte % 16 \in 0 .. 15
  OBVIOUS
<1>2. \A kind \in {"instruction", "data", "read"} :
         {Nibble(kind, byte \div 16), Nibble(kind, byte % 16), Nibble(kind, 0)} \subseteq Transfers
  BY <1>1 DEF Nibble, Transfers
<1>3. \A a, b, c, d \in Transfers :
         <<a, b>> \o <<c, d>> = <<a, b, c, d>> /\ <<a, b>> \o << >> = <<a, b>>
  <2> TAKE a, b, c, d \in Transfers
  <2>1. /\ <<a, b>> \in Seq(Transfers) /\ <<c, d>> \in Seq(Transfers)
        /\ Len(<<a, b>>) = 2 /\ Len(<<c, d>>) = 2
    OBVIOUS
  <2>2. <<a, b>> \o << >> = <<a, b>>
    BY <2>1, ConcatEmptySeq
  <2>3. PICK q : q = <<a, b>> \o <<c, d>>
    OBVIOUS
  <2>4. q \in Seq(Transfers) /\ Len(q) = 4 /\ q[1] = a /\ q[2] = b /\ q[3] = c /\ q[4] = d
    BY <2>1, <2>3, ConcatProperties
  <2>5. q = <<a, b, c, d>>
    BY <2>4
  <2> QED BY <2>2, <2>3, <2>5
<1>4. Nibble("read", 0) \in Transfers
  BY <1>2
<1> QED BY <1>2, <1>3, <1>4 DEF perform_write

\* lcdc_init goes on with bytes that leave the width alone.
LEMMA InitGoesOn ==
  ASSUME NEW q \in Seq(Transfers), NEW n \in Nat, NoThree(q, n),
         NEW byte \in 0 .. 255, byte \div 16 # 3
  PROVE  LET longer == q \o perform_write(byte, "instruction")
         IN /\ longer \in Seq(Transfers) /\ Len(longer) = Len(q) + 4
            /\ \A i \in 1 .. Len(q) : longer[i] = q[i]
            /\ NoThree(longer, n + 4)
<1>1. PICK w : w = perform_write(byte, "instruction")
  OBVIOUS
<1>2. /\ w \in Seq(Transfers) /\ Len(w) = 4
      /\ w[1].value # 3 /\ w[3].value # 3
  <2>1. w = <<Nibble("instruction", byte \div 16), Nibble("instruction", byte % 16),
              Nibble("read", 0), Nibble("read", 0)>>
    BY <1>1, WriteIs
  <2>2. /\ Nibble("instruction", byte \div 16) \in Transfers
        /\ Nibble("instruction", byte % 16) \in Transfers /\ Nibble("read", 0) \in Transfers
    BY WriteIs
  <2>3. Nibble("instruction", byte \div 16).value # 3 /\ Nibble("read", 0).value # 3
    BY DEF Nibble
  <2> QED BY <2>1, <2>2, <2>3
<1>3. PICK longer : longer = q \o w
  OBVIOUS
<1>4. /\ longer \in Seq(Transfers) /\ Len(longer) = Len(q) + 4 /\ Len(q) \in Nat
      /\ \A i \in 1 .. Len(q) + 4 : longer[i] = IF i <= Len(q) THEN q[i] ELSE w[i - Len(q)]
  <2>1. /\ longer \in Seq(Transfers) /\ Len(longer) = Len(q) + Len(w)
        /\ \A i \in 1 .. Len(q) + Len(w) : longer[i] = IF i <= Len(q) THEN q[i] ELSE w[i - Len(q)]
    BY <1>2, <1>3, ConcatProperties
  <2>2. Len(q) \in Nat
    BY LenProperties
  <2> QED BY <1>2, <2>1, <2>2
<1>5. ASSUME NEW i \in 1 .. Len(longer), Len(longer) - i < n + 4, (Len(longer) - i) % 2 = 1
      PROVE  longer[i].value = 3 => longer[i + 1].kind # "instruction"
  <2>1. CASE i <= Len(q)
    <3>1. (Len(q) - i) % 2 = 1 /\ Len(q) - i < n
      BY <1>4, <1>5, <2>1
    <3>2. i \in 1 .. Len(q) /\ i + 1 \in 1 .. Len(q)
      BY <1>4, <2>1, <3>1
    <3>3. longer[i] = q[i] /\ longer[i + 1] = q[i + 1]
      BY <1>4, <3>2
    <3> QED BY <3>1, <3>2, <3>3 DEF NoThree
  <2>2. CASE i > Len(q)
    <3>1. PICK k : k = i - Len(q)
      OBVIOUS
    <3>2. k \in 1 .. 4 /\ Len(longer) - i = 4 - k
      BY <1>4, <2>2, <3>1
    <3>3. (4 - k) % 2 = 1
      BY <1>5, <3>2
    <3>4. i - Len(q) \in {1, 3}
      BY <3>1, <3>2, <3>3
    <3> QED BY <1>2, <1>4, <2>2, <3>4
  <2> QED BY <1>4, <2>1, <2>2
<1>6. NoThree(longer, n + 4)
  BY <1>5 DEF NoThree
<1>7. \A i \in 1 .. Len(q) : longer[i] = q[i]
  BY <1>4
<1>8. longer \in Seq(Transfers) /\ Len(longer) = Len(q) + 4
  BY <1>4
<1>9. longer = q \o perform_write(byte, "instruction")
  BY <1>1, <1>3
<1> QED BY <1>6, <1>7, <1>8, <1>9

\* Four transfers, then nine pairs that leave the width alone.
LEMMA InitSteps ==
  /\ lcdc_init \in Seq(Transfers) /\ Len(lcdc_init) = 22
  /\ \A i \in 1 .. 4 : lcdc_init[i] = Nibble("instruction", IF i = 4 THEN 2 ELSE 3)
  /\ NoThree(lcdc_init, 18)
<1>1. InitSequence = <<Nibble("instruction", 3), Nibble("instruction", 3), Nibble("instruction", 3),
                       Nibble("instruction", 2), Nibble("read", 0), Nibble("read", 0)>>
  <2>1. perform_write(50, "instruction") =
          <<Nibble("instruction", 3), Nibble("instruction", 2), Nibble("read", 0), Nibble("read", 0)>>
    BY WriteIs
  <2>2. PICK a, b, c : a = Nibble("instruction", 3) /\ b = Nibble("instruction", 2) /\ c = Nibble("read", 0)
    OBVIOUS
  <2>3. a \in Transfers /\ b \in Transfers /\ c \in Transfers
    BY <2>2 DEF Nibble, Transfers
  <2>4. /\ <<a, a>> \in Seq(Transfers) /\ <<a, b, c, c>> \in Seq(Transfers)
        /\ Len(<<a, a>>) = 2 /\ Len(<<a, b, c, c>>) = 4
    BY <2>3
  <2>5. PICK q : q = <<a, a>> \o <<a, b, c, c>>
    OBVIOUS
  <2>6. /\ q \in Seq(Transfers) /\ Len(q) = 6
        /\ \A i \in 1 .. 6 : q[i] = IF i <= 2 THEN <<a, a>>[i] ELSE <<a, b, c, c>>[i - 2]
    BY <2>4, <2>5, ConcatProperties
  <2>7. q[1] = a /\ q[2] = a /\ q[3] = a /\ q[4] = b /\ q[5] = c /\ q[6] = c
    BY <2>6
  <2>8. q = <<a, a, a, b, c, c>>
    BY <2>6, <2>7
  <2> QED BY <2>1, <2>2, <2>5, <2>8 DEF InitSequence
<1>2. PICK q0 : q0 = InitSequence
  OBVIOUS
<1>3. /\ q0 \in Seq(Transfers) /\ Len(q0) = 6
      /\ \A i \in 1 .. 4 : q0[i] = Nibble("instruction", IF i = 4 THEN 2 ELSE 3)
      /\ NoThree(q0, 2)
  BY <1>1, <1>2 DEF Nibble, Transfers, NoThree
<1>4. PICK q1 : q1 = q0 \o perform_write(40, "instruction")
  OBVIOUS
<1>5. q1 \in Seq(Transfers) /\ Len(q1) = 10 /\ NoThree(q1, 6) /\ \A i \in 1 .. 6 : q1[i] = q0[i]
  <2>1. 40 \in 0 .. 255 /\ 40 \div 16 # 3 /\ 2 \in Nat
    OBVIOUS
  <2>2. /\ q1 \in Seq(Transfers) /\ Len(q1) = Len(q0) + 4 /\ NoThree(q1, 2 + 4)
        /\ \A i \in 1 .. Len(q0) : q1[i] = q0[i]
    BY <1>3, <1>4, <2>1, InitGoesOn
  <2> QED BY <1>3, <2>2
<1>6. PICK q2 : q2 = q1 \o perform_write(8, "instruction")
  OBVIOUS
<1>7. q2 \in Seq(Transfers) /\ Len(q2) = 14 /\ NoThree(q2, 10) /\ \A i \in 1 .. 10 : q2[i] = q1[i]
  <2>1. 8 \in 0 .. 255 /\ 8 \div 16 # 3 /\ 6 \in Nat
    OBVIOUS
  <2>2. /\ q2 \in Seq(Transfers) /\ Len(q2) = Len(q1) + 4 /\ NoThree(q2, 6 + 4)
        /\ \A i \in 1 .. Len(q1) : q2[i] = q1[i]
    BY <1>5, <1>6, <2>1, InitGoesOn
  <2> QED BY <1>5, <2>2
<1>8. PICK q3 : q3 = q2 \o perform_write(1, "instruction")
  OBVIOUS
<1>9. q3 \in Seq(Transfers) /\ Len(q3) = 18 /\ NoThree(q3, 14) /\ \A i \in 1 .. 14 : q3[i] = q2[i]
  <2>1. 1 \in 0 .. 255 /\ 1 \div 16 # 3 /\ 10 \in Nat
    OBVIOUS
  <2>2. /\ q3 \in Seq(Transfers) /\ Len(q3) = Len(q2) + 4 /\ NoThree(q3, 10 + 4)
        /\ \A i \in 1 .. Len(q2) : q3[i] = q2[i]
    BY <1>7, <1>8, <2>1, InitGoesOn
  <2> QED BY <1>7, <2>2
<1>10. PICK q4 : q4 = q3 \o perform_write(6, "instruction")
  OBVIOUS
<1>11. q4 \in Seq(Transfers) /\ Len(q4) = 22 /\ NoThree(q4, 18) /\ \A i \in 1 .. 18 : q4[i] = q3[i]
  <2>1. 6 \in 0 .. 255 /\ 6 \div 16 # 3 /\ 14 \in Nat
    OBVIOUS
  <2>2. /\ q4 \in Seq(Transfers) /\ Len(q4) = Len(q3) + 4 /\ NoThree(q4, 14 + 4)
        /\ \A i \in 1 .. Len(q3) : q4[i] = q3[i]
    BY <1>9, <1>10, <2>1, InitGoesOn
  <2> QED BY <1>9, <2>2
<1>12. q4 = lcdc_init
  BY <1>2, <1>4, <1>6, <1>8, <1>10 DEF lcdc_init
<1>13. \A i \in 1 .. 4 : q4[i] = q0[i]
  BY <1>5, <1>7, <1>9, <1>11
<1> QED BY <1>3, <1>11, <1>12, <1>13

\* Every step keeps the invariant.
LEMMA LcdStep == LcdInv /\ [LcdNext]_lcd_vars => LcdInv'
<1> SUFFICES ASSUME LcdInv, [LcdNext]_lcd_vars PROVE LcdInv'
  OBVIOUS
<1>1. /\ lcd_steps \in Seq(Transfers) /\ Len(lcd_steps) \in Nat
      /\ lcd_ready \in BOOLEAN /\ lcd_eight \in BOOLEAN
      /\ lcd_half \in -1 .. 15 /\ lcd_commands \in -1 .. 255
  BY LenProperties DEF LcdInv, LcdTypeOK
<1>2. CASE LcdTransfer
  <2>1. PICK t, q, n : t = Head(lcd_steps) /\ q = lcd_steps /\ n = Len(q)
    OBVIOUS
  <2>2. /\ q \in Seq(Transfers) /\ n \in Nat /\ n >= 1 /\ n <= 22
        /\ t = q[1] /\ t \in Transfers /\ t.value \in 0 .. 15
        /\ lcd_steps' = Tail(q) /\ lcd_steps' \in Seq(Transfers) /\ Len(lcd_steps') = n - 1
        /\ \A i \in 1 .. n - 1 : lcd_steps'[i] = q[i + 1]
    <3>1. q # << >> /\ q \in Seq(Transfers) /\ lcd_steps' = Tail(q)
      BY <1>1, <1>2, <2>1 DEF LcdTransfer
    <3>2. /\ Head(q) \in Transfers /\ Tail(q) \in Seq(Transfers) /\ Len(Tail(q)) = Len(q) - 1
          /\ \A i \in 1 .. Len(Tail(q)) : Tail(q)[i] = q[i + 1]
      BY <3>1, HeadTailProperties
    <3>3. Head(q) = q[1]
      BY <3>1
    <3>4. Len(q) >= 1
      BY <3>1, <3>2, <1>1, <2>1, EmptySeq
    <3> QED BY <1>1, <2>1, <3>1, <3>2, <3>3, <3>4 DEF LcdInv, Transfers
  <2>12. /\ NoThree(q, 18) /\ ChipInStep(n, lcd_eight, lcd_half) /\ HeldThree(q, lcd_half)
         /\ \A i \in 1 .. n - 18 : q[i] = Nibble("instruction", IF i = n - 18 THEN 2 ELSE 3)
    BY <2>1 DEF LcdInv
  <2>3. NoThree(lcd_steps', 18)
    <3> SUFFICES ASSUME NEW i \in 1 .. n - 1, n - 1 - i < 18, (n - 1 - i) % 2 = 1
                 PROVE  lcd_steps'[i].value = 3 => lcd_steps'[i + 1].kind # "instruction"
      BY <2>2 DEF NoThree
    <3>1. /\ i + 1 \in 1 .. n - 1 /\ i + 1 \in 1 .. n /\ (i + 1) + 1 = i + 2
          /\ n - (i + 1) < 18 /\ (n - (i + 1)) % 2 = 1
      BY <2>2
    <3>2. q[i + 1].value = 3 => q[i + 2].kind # "instruction"
      BY <2>1, <2>12, <3>1 DEF NoThree
    <3> QED BY <2>2, <3>1, <3>2
  <2>4. \A i \in 1 .. n - 1 - 18 : lcd_steps'[i] = Nibble("instruction", IF i = n - 1 - 18 THEN 2 ELSE 3)
    BY <2>2, <2>12
  <2>5. n > 18 => t.kind = "instruction" /\ t.value = IF n = 19 THEN 2 ELSE 3
    <3> SUFFICES ASSUME n > 18 PROVE t.kind = "instruction" /\ t.value = IF n = 19 THEN 2 ELSE 3
      OBVIOUS
    <3>1. 1 \in 1 .. n - 18 /\ (1 = n - 18 <=> n = 19)
      BY <2>2
    <3>2. t = Nibble("instruction", IF n = 19 THEN 2 ELSE 3)
      BY <2>2, <2>12, <3>1
    <3> QED BY <3>2 DEF Nibble
  <2>6. (n <= 18 /\ n % 2 = 0) => (t.value = 3 => lcd_steps'[1].kind # "instruction")
    <3> SUFFICES ASSUME n <= 18, n % 2 = 0
                 PROVE  t.value = 3 => lcd_steps'[1].kind # "instruction"
      OBVIOUS
    <3>1. 1 \in 1 .. n /\ 1 \in 1 .. n - 1 /\ n - 1 < 18 /\ (n - 1) % 2 = 1 /\ 1 + 1 = 2
      BY <2>2
    <3>2. q[1].value = 3 => q[2].kind # "instruction"
      BY <2>1, <2>12, <3>1 DEF NoThree
    <3> QED BY <2>2, <3>1, <3>2
  <2>7. /\ lcd_ready' \in BOOLEAN
        /\ lcd_ready' => n - 1 <= 18
    <3>1. lcd_steps' = << >> => n - 1 = 0
      BY <2>2
    <3> QED BY <1>1, <1>2, <2>1, <2>2, <3>1 DEF LcdTransfer, LcdInv
  <2>8. ASSUME NEW h \in 0 .. 15, NEW v \in 0 .. 15, NEW byte, byte = h * 16 + v, Executed(byte)
        PROVE  /\ lcd_commands' \in -1 .. 255 /\ lcd_eight' \in BOOLEAN
               /\ h = 3 => lcd_eight' = TRUE
               /\ h = 2 => lcd_eight' = FALSE
               /\ (h # 2 /\ h # 3) => lcd_eight' = lcd_eight
    <3>1. byte \div 16 = h /\ byte \in 0 .. 255
      BY <2>8
    <3>2. /\ lcd_commands' = byte
          /\ lcd_eight' = IF h = 3 THEN TRUE ELSE IF h = 2 THEN FALSE ELSE lcd_eight
      BY <2>8, <3>1 DEF Executed
    <3>3. CASE h = 3
      BY <3>1, <3>2, <3>3
    <3>4. CASE h = 2
      BY <3>1, <3>2, <3>4
    <3>5. CASE h # 2 /\ h # 3
      BY <1>1, <3>1, <3>2, <3>5
    <3> QED BY <3>3, <3>4, <3>5
  <2>9. CASE lcd_eight
    <3>1. lcd_half' = -1
      BY <1>2, <2>1, <2>9 DEF LcdTransfer
    <3>2. n > 18
      BY <2>2, <2>9, <2>12 DEF ChipInStep
    <3>3. PICK low \in {0, 15} : Executed(t.value * 16 + low)
      BY <1>2, <2>1, <2>5, <2>9, <3>2 DEF LcdTransfer
    <3>6. PICK byte : byte = t.value * 16 + low
      OBVIOUS
    <3>7. Executed(byte) /\ low \in 0 .. 15 /\ t.value \in 0 .. 15
      BY <2>2, <3>3, <3>6
    <3>8. /\ lcd_commands' \in -1 .. 255 /\ lcd_eight' \in BOOLEAN
          /\ t.value = 3 => lcd_eight' = TRUE
          /\ t.value = 2 => lcd_eight' = FALSE
      BY <2>8, <3>6, <3>7
    <3>4. /\ lcd_commands' \in -1 .. 255 /\ lcd_eight' \in BOOLEAN
          /\ lcd_eight' <=> n # 19
      BY <2>5, <3>2, <3>8
    <3>5. ChipInStep(n - 1, lcd_eight', lcd_half')
      BY <2>2, <3>1, <3>2, <3>4 DEF ChipInStep
    <3> QED BY <2>2, <2>3, <2>4, <2>7, <3>1, <3>4, <3>5 DEF LcdInv, LcdTypeOK, HeldThree
  <2>10. CASE ~lcd_eight /\ lcd_half = -1
    <3>1. lcd_half' = t.value /\ lcd_eight' = lcd_eight /\ lcd_commands' = lcd_commands
      BY <1>2, <2>1, <2>10 DEF LcdTransfer
    <3>2. n # 20 /\ n # 19 /\ (n <= 18 => n % 2 = 0)
      BY <2>2, <2>10, <2>12 DEF ChipInStep
    <3>3. n > 18 => t.value = 3
      BY <2>5, <3>2
    <3>4. (n - 1) % 2 = 0 <=> n % 2 = 1
      BY <2>2, ParityAlternates
    <3>5. ChipInStep(n - 1, lcd_eight', lcd_half')
      <4>1. lcd_half' = t.value /\ t.value \in 0 .. 15 /\ ~lcd_eight'
        BY <2>2, <2>10, <3>1
      <4>2. CASE n > 18
        <5>1. n = 21 \/ n = 22
          BY <2>2, <3>2, <4>2
        <5> QED BY <3>3, <4>1, <5>1 DEF ChipInStep
      <4>3. CASE n <= 18
        BY <2>2, <3>2, <3>4, <4>1, <4>3 DEF ChipInStep
      <4> QED BY <2>2, <4>2, <4>3
    <3>6. HeldThree(lcd_steps', lcd_half')
      <4>1. n - 1 <= 18 => n <= 18 /\ n % 2 = 0
        BY <2>2, <3>2
      <4> QED BY <2>2, <2>6, <3>1, <4>1 DEF HeldThree
    <3> QED BY <1>1, <2>2, <2>3, <2>4, <2>7, <2>10, <3>1, <3>5, <3>6 DEF LcdInv, LcdTypeOK
  <2>11. CASE ~lcd_eight /\ lcd_half # -1
    <3>1. /\ lcd_half' = -1
          /\ IF t.kind = "instruction" THEN Executed(lcd_half * 16 + t.value)
             ELSE UNCHANGED <<lcd_eight, lcd_commands>>
      BY <1>2, <2>1, <2>11 DEF LcdTransfer
    <3>2. lcd_half \in 0 .. 15
      BY <1>1, <2>11
    <3>3. /\ lcd_commands' \in -1 .. 255 /\ lcd_eight' \in BOOLEAN
          /\ lcd_eight' => lcd_half = 3 /\ t.kind = "instruction"
          /\ (t.kind = "instruction" /\ lcd_half = 3) => lcd_eight'
      BY <1>1, <2>2, <2>8, <2>11, <3>1, <3>2
    <3>4. /\ n # 19
          /\ n <= 18 => n % 2 = 1 /\ (lcd_half = 3 => t.kind # "instruction")
          /\ n \in {20, 21} => lcd_half = 3
      <4>1. n # 19 /\ (n <= 18 => n % 2 = 1) /\ (n \in {20, 21} => lcd_half = 3)
        <5>1. ChipInStep(n, lcd_eight, lcd_half) /\ n \in Nat
          BY <2>2, <2>12
        <5> QED BY <2>11, <5>1 DEF ChipInStep
      <4>2. (Len(q) <= 18 /\ lcd_half = 3) => q[1].kind # "instruction"
        BY <2>12 DEF HeldThree
      <4>3. Len(q) = n /\ q[1] = t
        BY <2>1, <2>2
      <4> QED BY <4>1, <4>2, <4>3
    <3>5. (n - 1) % 2 = 0 <=> n % 2 = 1
      BY <2>2, ParityAlternates
    <3>6. ChipInStep(n - 1, lcd_eight', lcd_half')
      BY <2>2, <2>5, <3>1, <3>3, <3>4, <3>5 DEF ChipInStep
    <3> QED BY <2>2, <2>3, <2>4, <2>7, <3>1, <3>3, <3>6 DEF LcdInv, LcdTypeOK, HeldThree
  <2> QED BY <1>1, <2>9, <2>10, <2>11
<1>3. ASSUME lcd_steps = << >>, UNCHANGED <<lcd_ready, lcd_eight, lcd_half, lcd_commands>>,
             NEW q \in Seq(Transfers), lcd_steps' = q, Len(q) \in {2, 4}, NoThree(q, 18)
      PROVE  LcdInv'
  <2>1. Len(lcd_steps) = 0
    BY <1>3
  <2>2. ~lcd_eight /\ lcd_half = -1
    BY <2>1 DEF LcdInv, ChipInStep
  <2>3. \A n \in {2, 4} : ChipInStep(n, lcd_eight, lcd_half) /\ n <= 18 /\ n <= 22 /\ 1 .. n - 18 = {}
    BY <2>2 DEF ChipInStep
  <2>4. ChipInStep(Len(q), lcd_eight, lcd_half)
    BY <1>3, <2>3
  <2>5. Len(q) <= 18 /\ Len(q) <= 22 /\ 1 .. Len(q) - 18 = {}
    BY <1>3, <2>3
  <2>6. LcdTypeOK'
    BY <1>1, <1>3 DEF LcdTypeOK
  <2>7. HeldThree(q, lcd_half)
    BY <2>2 DEF HeldThree
  <2> QED BY <1>3, <2>2, <2>4, <2>5, <2>6, <2>7 DEF LcdInv
<1>4. CASE lcdc_write
  <2>1. PICK b \in CharBytes : lcd_steps' = perform_write(b, "data")
    BY <1>4 DEF lcdc_write
  <2>2. PICK q : q = perform_write(b, "data")
    OBVIOUS
  <2>3. b \in 0 .. 255
    BY CharsAreBytes
  <2>4. q = <<Nibble("data", b \div 16), Nibble("data", b % 16)>>
    BY <2>2, <2>3, WriteIs
  <2>5. Nibble("data", b \div 16) \in Transfers /\ Nibble("data", b % 16) \in Transfers
    BY <2>3, WriteIs
  <2>6. Nibble("data", b % 16).kind # "instruction"
    BY DEF Nibble
  <2>7. q \in Seq(Transfers) /\ Len(q) = 2 /\ q[2].kind # "instruction"
    BY <2>4, <2>5, <2>6
  <2>8. NoThree(q, 18)
    BY <2>7 DEF NoThree
  <2> QED BY <1>3, <1>4, <2>1, <2>2, <2>7, <2>8 DEF lcdc_write
<1>5. CASE lcdc_instruction
  <2>1. PICK b \in {1, 2, 12, 20, 64, 128, 192} : lcd_steps' = perform_write(b, "instruction")
    BY <1>5 DEF lcdc_instruction
  <2>2. PICK q : q = perform_write(b, "instruction")
    OBVIOUS
  <2>6. b \in 0 .. 255 /\ b \div 16 # 3
    <3>1. b = 1 \/ b = 2 \/ b = 12 \/ b = 20 \/ b = 64 \/ b = 128 \/ b = 192
      OBVIOUS
    <3> QED BY <3>1
  <2>3. q = <<Nibble("instruction", b \div 16), Nibble("instruction", b % 16),
              Nibble("read", 0), Nibble("read", 0)>>
    <3>1. b \in 0 .. 255
      BY <2>6
    <3> QED BY <2>2, <3>1, WriteIs
  <2>5. /\ Nibble("instruction", b \div 16) \in Transfers /\ Nibble("instruction", b % 16) \in Transfers
        /\ Nibble("read", 0) \in Transfers
    <3>1. b \in 0 .. 255
      BY <2>6
    <3> QED BY <3>1, WriteIs
  <2>8. Nibble("instruction", b \div 16).value # 3 /\ Nibble("read", 0).value # 3
    BY <2>6 DEF Nibble
  <2>4. q \in Seq(Transfers) /\ Len(q) = 4 /\ NoThree(q, 18)
    BY <2>3, <2>5, <2>8 DEF NoThree
  <2> QED BY <1>3, <1>5, <2>1, <2>2, <2>4 DEF lcdc_instruction
<1>6. CASE lcdc_read
  <2>1. PICK q : q = <<Nibble("read", 0), Nibble("read", 0)>>
    OBVIOUS
  <2>2. q \in Seq(Transfers) /\ Len(q) = 2 /\ NoThree(q, 18)
    BY <2>1 DEF NoThree, Nibble, Transfers
  <2> QED BY <1>3, <1>6, <2>1, <2>2 DEF lcdc_read
<1>7. CASE LcdBoardRestarts
  <2>1. PICK q : q = lcdc_init
    OBVIOUS
  <2>2. /\ q \in Seq(Transfers) /\ Len(q) = 22 /\ NoThree(q, 18)
        /\ \A i \in 1 .. Len(q) - 18 : q[i] = Nibble("instruction", IF i = Len(q) - 18 THEN 2 ELSE 3)
    BY <2>1, InitSteps
  <2>3. ChipInStep(Len(q), lcd_eight', lcd_half')
    BY <2>2 DEF ChipInStep
  <2>4. /\ lcd_steps' = q /\ lcd_ready' = FALSE /\ lcd_eight' = lcd_eight
        /\ lcd_half' = lcd_half /\ lcd_commands' = lcd_commands
    BY <1>7, <2>1 DEF LcdBoardRestarts
  <2>5. LcdTypeOK'
    BY <1>1, <2>2, <2>4 DEF LcdTypeOK
  <2>6. lcd_eight' => lcd_half' = -1
    BY <2>4 DEF LcdInv
  <2>7. Len(q) <= 22 /\ ~lcd_ready' /\ HeldThree(q, lcd_half')
    BY <2>2, <2>4 DEF HeldThree
  <2> QED BY <2>2, <2>3, <2>4, <2>5, <2>6, <2>7 DEF LcdInv
<1>8. CASE UNCHANGED lcd_vars
  BY <1>8 DEF lcd_vars, LcdInv, LcdTypeOK, ChipInStep, NoThree, HeldThree
<1> QED BY <1>2, <1>4, <1>5, <1>6, <1>7, <1>8 DEF LcdNext

\* Wherever the board restarted and whatever the chip held then, once lcdc_init has
\* returned the chip takes nibbles and is at the first one whenever the driver is.
THEOREM NibblesCorrect == LcdSpec => []NibblesInStep
<1>1. LcdInit => LcdInv
  <2>1. PICK q : q = lcdc_init
    OBVIOUS
  <2>2. /\ q \in Seq(Transfers) /\ Len(q) = 22 /\ NoThree(q, 18)
        /\ \A i \in 1 .. Len(q) - 18 : q[i] = Nibble("instruction", IF i = Len(q) - 18 THEN 2 ELSE 3)
    BY <2>1, InitSteps
  <2> SUFFICES ASSUME LcdInit PROVE LcdInv
    OBVIOUS
  <2>3. /\ lcd_steps = q /\ lcd_ready = FALSE /\ lcd_eight = TRUE /\ lcd_half = -1 /\ lcd_commands = -1
    BY <2>1 DEF LcdInit
  <2>4. ChipInStep(Len(q), lcd_eight, lcd_half)
    BY <2>2 DEF ChipInStep
  <2>5. LcdTypeOK
    <3>1. {lcd_ready, lcd_eight} \subseteq BOOLEAN
      BY <2>3
    <3>2. lcd_half \in -1 .. 15 /\ lcd_commands \in -1 .. 255
      BY <2>3
    <3> QED BY <2>2, <2>3, <3>1, <3>2 DEF LcdTypeOK
  <2>6. Len(q) <= 22 /\ ~lcd_ready /\ HeldThree(q, lcd_half)
    <3>1. Len(q) <= 22 /\ HeldThree(q, lcd_half)
      BY <2>2 DEF HeldThree
    <3> QED BY <2>3, <3>1
  <2> QED BY <2>2, <2>3, <2>4, <2>5, <2>6 DEF LcdInv
<1>2. LcdInv => NibblesInStep
  <2> SUFFICES ASSUME LcdInv, lcd_ready
               PROVE  ~lcd_eight /\ ((lcd_steps = << >> \/ Len(lcd_steps) % 2 = 0) <=> lcd_half = -1)
    BY DEF NibblesInStep
  <2>1. lcd_steps = << >> => Len(lcd_steps) % 2 = 0
    OBVIOUS
  <2> QED BY <2>1 DEF LcdInv, ChipInStep
<1> QED BY <1>1, <1>2, LcdStep, PTL DEF LcdSpec

----------------------------------------------------------------------------
(* Ssd130x.  While the driver believes the window to be the whole screen   *)
(* and no picture was cut, it is, and between two transfers the pointer is *)
(* at its start: the next picture, sent without a window, falls on its own *)
(* cells.  During a transfer the pointer is at the cell whose byte is the  *)
(* next one of the source.                                                 *)

Sources == {Whole} \cup {TileWindow(t) : t \in Tiles}

\* What the screen's memory, the picture and the transfer always are.
SsdTypes ==
    /\ fullscreen \in BOOLEAN /\ ssd_torn \in BOOLEAN
    /\ ssd_astray \in BOOLEAN /\ ssd_clean \in BOOLEAN
    /\ gddram \in [Cells -> {0, 1}] /\ ram \in [Cells -> {0, 1}] /\ ssd_shown \subseteq Cells
    /\ ssd_source \in Sources /\ ssd_left \in 0 .. Size(ssd_source)

\* The chip is where the driver thinks it is.
InPlace ==
    /\ ssd_left > 0 /\ ~ssd_torn /\ ~ssd_astray =>
          window = ssd_source /\ pointer = SourceCell(BytesSent)
    /\ ssd_left = 0 /\ fullscreen /\ ~ssd_torn /\ ~ssd_astray =>
          window = Whole /\ pointer = <<0, 0>>
    /\ ssd_left > 0 /\ fullscreen => ssd_source = Whole
    /\ ssd_clean => ~ssd_torn /\ ~ssd_astray
SsdInv == SsdTypes /\ InPlace /\ ShownIsDrawn

\* In a window the n-th byte falls on column n modulo its width, page by page; the
\* next one follows it, and after the last one the pointer is back in the corner.
LEMMA WindowGoesRound ==
  ASSUME NEW w, w.c0 \in Int, w.p0 \in Int, Width(w) \in Nat \ {0}, Height(w) \in Nat \ {0}
  PROVE  /\ Size(w) \in Nat \ {0}
         /\ \A n \in 0 .. Size(w) :
               /\ n % Width(w) \in 0 .. Width(w) - 1
               /\ (n \div Width(w)) % Height(w) \in 0 .. Height(w) - 1
               /\ After(w, Corner(w), n) =
                     <<w.c0 + (n % Width(w)), w.p0 + ((n \div Width(w)) % Height(w))>>
         /\ \A n \in 0 .. Size(w) - 1 :
               After(w, After(w, Corner(w), n), 1) = After(w, Corner(w), n + 1)
         /\ After(w, Corner(w), 0) = Corner(w)
         /\ After(w, Corner(w), Size(w)) = Corner(w)
<1>1. PICK W \in Nat \ {0}, H \in Nat \ {0} : W = Width(w) /\ H = Height(w)
  OBVIOUS
<1>2. PICK N \in Nat \ {0} : N = Size(w) /\ N = W * H
  <2>1. \A x \in Nat \ {0}, y \in Nat \ {0} : x * y \in Nat \ {0}
    OBVIOUS
  <2> QED BY <1>1, <2>1 DEF Size
<1>3. ASSUME NEW n \in 0 .. N
      PROVE  /\ n % W \in 0 .. W - 1 /\ n \div W \in Nat /\ n = W * (n \div W) + (n % W)
             /\ (n \div W) % H \in 0 .. H - 1
             /\ After(w, Corner(w), n) = <<w.c0 + (n % W), w.p0 + ((n \div W) % H)>>
  <2>1. n \in Int /\ n >= 0
    OBVIOUS
  <2>2. PICK q, r : q = n \div W /\ r = n % W
    OBVIOUS
  <2>3. q \in Int /\ r \in 0 .. W - 1 /\ n = W * q + r
    BY <2>1, <2>2, DivMod
  <2>4. q \in Nat
    <3>1. SUFFICES ASSUME q <= -1 PROVE FALSE
      BY <2>3
    <3>2. W * (-(-q)) <= -W
      <4>1. -q \in Int /\ -q >= 1
        BY <2>3, <3>1
      <4> QED BY <4>1, MulGrows
    <3>3. -(-q) = q
      BY <2>3
    <3>4. W * q <= -W
      BY <3>2, <3>3
    <3> QED BY <2>1, <2>3, <3>4
  <2>5. q % H \in 0 .. H - 1
    BY <2>4, DivMod
  <2>6. Corner(w)[1] = w.c0 /\ Corner(w)[2] = w.p0
    BY DEF Corner
  <2>7. (w.p0 - w.p0) * W + (w.c0 - w.c0) + n = n
    <3>1. w.p0 - w.p0 = 0 /\ w.c0 - w.c0 = 0 /\ 0 * W = 0
      OBVIOUS
    <3> QED BY <2>1, <3>1
  <2>8. After(w, Corner(w), n) = <<w.c0 + (n % W), w.p0 + ((n \div W) % H)>>
    BY <1>1, <2>6, <2>7 DEF After
  <2> QED BY <2>2, <2>3, <2>4, <2>5, <2>8
<1>4. ASSUME NEW n \in 0 .. N - 1
      PROVE  After(w, After(w, Corner(w), n), 1) = After(w, Corner(w), n + 1)
  <2>1. n \in 0 .. N /\ n + 1 \in 0 .. N
    OBVIOUS
  <2>2. PICK q, r : q = n \div W /\ r = n % W
    OBVIOUS
  <2>3. q \in Nat /\ r \in 0 .. W - 1 /\ n = W * q + r
        /\ After(w, Corner(w), n) = <<w.c0 + r, w.p0 + (q % H)>>
    BY <1>3, <2>1, <2>2
  <2>4. q % H = q
    <3>1. q < H
      <4>1. SUFFICES ASSUME H <= q PROVE FALSE
        BY <2>3
      <4>2. CASE H = q
        <5>1. W * q = N
          BY <1>2, <4>2
        <5> QED BY <2>3, <5>1
      <4>3. CASE H < q
        <5>1. H * W + W <= q * W /\ H * W \in Nat /\ q * W \in Nat
          BY <2>3, <4>3, MultiplesApart
        <5>2. H * W = N /\ q * W = W * q
          BY <1>2, <2>3
        <5> QED BY <2>3, <5>1, <5>2
      <4> QED BY <2>3, <4>1, <4>2, <4>3
    <3>2. (H * 0 + q) % H = q /\ H * 0 + q = q
      BY <2>3, <3>1, ModUnique
    <3> QED BY <3>2
  <2>5. q * W + r + 1 = n + 1
    <3>1. q * W = W * q /\ W * q \in Int
      BY <2>3
    <3> QED BY <2>3, <3>1
  <2>6. After(w, <<w.c0 + r, w.p0 + q>>, 1)
          = <<w.c0 + ((n + 1) % W), w.p0 + (((n + 1) \div W) % H)>>
    <3>1. PICK at : at = <<w.c0 + r, w.p0 + q>>
      OBVIOUS
    <3>2. at[1] = w.c0 + r /\ at[2] = w.p0 + q
      BY <3>1
    <3>3. at[2] - w.p0 = q /\ at[1] - w.c0 = r
      BY <2>3, <3>2
    <3>4. After(w, at, 1) = <<w.c0 + ((n + 1) % W), w.p0 + (((n + 1) \div W) % H)>>
      BY <1>1, <2>5, <3>3 DEF After
    <3> QED BY <3>1, <3>4
  <2> QED BY <1>3, <2>1, <2>3, <2>4, <2>6
<1>5. After(w, Corner(w), 0) = Corner(w)
  <2>1. 0 \in 0 .. N /\ W * 0 + 0 = 0 /\ 0 \in 0 .. W - 1 /\ 0 \in 0 .. H - 1 /\ H * 0 + 0 = 0
    OBVIOUS
  <2>2. 0 % W = 0 /\ 0 \div W = 0 /\ 0 % H = 0
    BY <2>1, ModUnique, DivUnique
  <2>3. w.c0 + 0 = w.c0 /\ w.p0 + 0 = w.p0
    OBVIOUS
  <2> QED BY <1>3, <2>1, <2>2, <2>3 DEF Corner
<1>6. After(w, Corner(w), N) = Corner(w)
  <2>1. N \in 0 .. N /\ W * H + 0 = N /\ 0 \in 0 .. W - 1 /\ 0 \in 0 .. H - 1 /\ H * 1 + 0 = H
    BY <1>2
  <2>2. N % W = 0 /\ N \div W = H /\ H % H = 0
    BY <2>1, ModUnique, DivUnique
  <2>3. w.c0 + 0 = w.c0 /\ w.p0 + 0 = w.p0
    OBVIOUS
  <2> QED BY <1>3, <2>1, <2>2, <2>3 DEF Corner
<1> QED BY <1>1, <1>2, <1>3, <1>4, <1>5, <1>6

\* The cells of a tile are cells of the screen.
LEMMA TilesFit == \A t \in Tiles : TileCells(t) \subseteq Cells
<1>1. TileWidth \in Nat \ {0} /\ Columns \in Nat \ {0} /\ Pages \in Nat \ {0}
  BY ScreenAssumption
<1> SUFFICES ASSUME NEW t \in Tiles PROVE TileCells(t) \subseteq Cells
  OBVIOUS
<1>2. PICK k : k = Columns \div TileWidth
  OBVIOUS
<1>3. /\ k \in Int /\ Columns % TileWidth \in 0 .. TileWidth - 1
      /\ Columns = TileWidth * k + (Columns % TileWidth)
  BY <1>1, <1>2, DivMod
<1>4. PICK x, y : x = t[1] /\ y = t[2]
  OBVIOUS
<1>5. x \in 0 .. k - 1 /\ y \in 0 .. Pages - 1
  BY <1>2, <1>3, <1>4 DEF Tiles
<1>6. x * TileWidth + TileWidth <= k * TileWidth /\ x * TileWidth \in Nat
  BY <1>1, <1>3, <1>5, MultiplesApart
<1>7. x * TileWidth + TileWidth <= Columns
  BY <1>1, <1>3, <1>6
<1>8. TileCells(t) = (x * TileWidth .. x * TileWidth + TileWidth - 1) \X {y}
  BY <1>4 DEF TileCells
<1> QED BY <1>1, <1>5, <1>6, <1>7, <1>8 DEF Cells

\* The whole screen and the tiles are windows, whose cells are cells of the screen.
LEMMA SourcesAreWindows ==
  ASSUME NEW w \in Sources
  PROVE  /\ w.c0 \in Int /\ w.p0 \in Int /\ Width(w) \in Nat \ {0} /\ Height(w) \in Nat \ {0}
         /\ \A x \in 0 .. Width(w) - 1, y \in 0 .. Height(w) - 1 :
               <<w.c0 + x, w.p0 + y>> \in Cells
<1>1. TileWidth \in Nat \ {0} /\ Columns \in Nat \ {0} /\ Pages \in Nat \ {0}
  BY ScreenAssumption
<1>2. CASE w = Whole
  <2>1. w.c0 = 0 /\ w.p0 = 0 /\ Width(w) = Columns /\ Height(w) = Pages
    BY <1>1, <1>2 DEF Whole, Window, Width, Height
  <2> QED BY <1>1, <2>1 DEF Cells
<1>3. ASSUME NEW t \in Tiles, w = TileWindow(t)
      PROVE  /\ w.c0 \in Int /\ w.p0 \in Int
             /\ Width(w) \in Nat \ {0} /\ Height(w) \in Nat \ {0}
             /\ \A x \in 0 .. Width(w) - 1, y \in 0 .. Height(w) - 1 :
                   <<w.c0 + x, w.p0 + y>> \in Cells
  <2>1. PICK x0, y0 : x0 = t[1] /\ y0 = t[2]
    OBVIOUS
  <2>2. x0 \in Int /\ y0 \in Int
    BY <1>1, <2>1 DEF Tiles
  <2>3. PICK p : p = x0 * TileWidth /\ p \in Int
    BY <1>1, <2>2
  <2>4. (x0 + 1) * TileWidth - 1 = p + TileWidth - 1
    BY <1>1, <2>2, <2>3
  <2>5. w.c0 = p /\ w.c1 = p + TileWidth - 1 /\ w.p0 = y0 /\ w.p1 = y0
    BY <1>3, <2>1, <2>3, <2>4 DEF TileWindow, Window
  <2>6. Width(w) = TileWidth /\ Height(w) = 1
    BY <1>1, <2>2, <2>3, <2>5 DEF Width, Height
  <2>7. TileCells(t) = (p .. p + TileWidth - 1) \X {y0}
    BY <2>1, <2>3 DEF TileCells
  <2>8. ASSUME NEW x \in 0 .. TileWidth - 1, NEW y \in 0 .. 0
        PROVE  <<p + x, y0 + y>> \in Cells
    <3>1. p + x \in p .. p + TileWidth - 1 /\ y0 + y = y0
      BY <1>1, <2>2, <2>3
    <3>2. <<p + x, y0 + y>> \in TileCells(t)
      BY <2>7, <3>1
    <3> QED BY <3>2, TilesFit
  <2> QED BY <1>1, <2>2, <2>3, <2>5, <2>6, <2>8
<1> QED BY <1>2, <1>3 DEF Sources

\* Each byte of a source is a cell of the screen.
LEMMA SourceInScreen ==
  ASSUME SsdTypes, NEW n \in 0 .. Size(ssd_source)
  PROVE  SourceCell(n) \in Cells
<1>1. ssd_source \in Sources
  BY DEF SsdTypes
<1>2. /\ n % Width(ssd_source) \in 0 .. Width(ssd_source) - 1
      /\ (n \div Width(ssd_source)) % Height(ssd_source) \in 0 .. Height(ssd_source) - 1
      /\ SourceCell(n) = <<ssd_source.c0 + (n % Width(ssd_source)),
                ssd_source.p0 + ((n \div Width(ssd_source)) % Height(ssd_source))>>
  BY <1>1, SourcesAreWindows, WindowGoesRound DEF SourceCell
<1> QED BY <1>1, <1>2, SourcesAreWindows

\* The next byte falls where it belongs.
LEMMA ByteKeeps == SsdInv /\ ssd_send_byte => SsdInv'
<1> SUFFICES ASSUME SsdInv, ssd_send_byte PROVE SsdInv'
  OBVIOUS
<1> USE DEF SsdInv
<1>1. PICK N \in Nat \ {0} : N = Size(ssd_source)
  BY SourcesAreWindows, WindowGoesRound DEF SsdTypes
<1>2. PICK k : k = BytesSent /\ k = N - ssd_left /\ k \in 0 .. N - 1
  BY <1>1 DEF BytesSent, ssd_send_byte, SsdTypes
<1>3. SourceCell(k) \in Cells
  BY <1>1, <1>2, SourceInScreen
<1>4. SsdTypes'
  <2>1. ram' \in [Cells -> {0, 1}]
    <3>1. gddram[SourceCell(k)] \in {0, 1}
      BY <1>3 DEF SsdTypes
    <3> QED BY <1>2, <3>1 DEF ssd_send_byte, SsdTypes
  <2>2. ssd_shown' \subseteq Cells
    BY <1>2, <1>3 DEF ssd_send_byte, SsdTypes
  <2>3. ssd_left' \in 0 .. Size(ssd_source)
    BY <1>1 DEF ssd_send_byte, SsdTypes
  <2>4. UNCHANGED <<fullscreen, ssd_torn, ssd_astray, ssd_clean, gddram, ssd_source>>
    BY DEF ssd_send_byte, ssd_memory
  <2> QED BY <2>1, <2>2, <2>3, <2>4 DEF SsdTypes, Size, Width, Height
<1>5. BytesSent' = k + 1 /\ (\A n : SourceCell(n)' = SourceCell(n))
  <2>1. ssd_source' = ssd_source /\ ssd_left' = ssd_left - 1
    BY DEF ssd_send_byte
  <2>2. BytesSent' = N - (ssd_left - 1)
    BY <1>1, <2>1 DEF BytesSent
  <2>3. \A n : SourceCell(n)' = SourceCell(n)
    BY <2>1 DEF SourceCell
  <2> QED BY <1>1, <1>2, <2>2, <2>3 DEF SsdTypes
<1>6. CASE ~ssd_torn /\ ~ssd_astray
  <2>1. window = ssd_source /\ pointer = SourceCell(k)
    BY <1>2, <1>6 DEF InPlace, ssd_send_byte
  <2>2. pointer' = SourceCell(k + 1) /\ SourceCell(N) = Corner(ssd_source)
    <3>1. /\ After(ssd_source, SourceCell(k), 1) = SourceCell(k + 1)
          /\ SourceCell(N) = Corner(ssd_source)
      BY <1>1, <1>2, SourcesAreWindows, WindowGoesRound DEF SsdTypes, SourceCell
    <3> QED BY <2>1, <3>1 DEF ssd_send_byte
  <2>3. InPlace'
    <3>1. fullscreen => ssd_source = Whole /\ Corner(ssd_source) = <<0, 0>>
      BY DEF InPlace, ssd_send_byte, Corner, Whole, Window
    <3>2. ssd_left' = 0 => k + 1 = N
      BY <1>1, <1>2 DEF ssd_send_byte, SsdTypes
    <3>3. UNCHANGED <<fullscreen, ssd_source, window, ssd_torn, ssd_astray, ssd_clean>>
      BY DEF ssd_send_byte, ssd_memory
    <3>4. pointer' = SourceCell(BytesSent)'
      BY <1>5, <2>2
    <3>5. fullscreen /\ ssd_left' = 0 => pointer' = <<0, 0>>
      BY <2>2, <3>1, <3>2
    <3>6. ssd_clean => ~ssd_torn /\ ~ssd_astray
      BY DEF InPlace
    <3> QED BY <2>1, <3>1, <3>3, <3>4, <3>5, <3>6 DEF InPlace
  <2>4. ShownIsDrawn'
    <3>1. ssd_shown' = ssd_shown \cup {SourceCell(k)} /\ gddram' = gddram
          /\ ram' = [ram EXCEPT ![SourceCell(k)] = gddram[SourceCell(k)]]
          /\ ssd_clean' = ssd_clean
      BY <1>2, <1>6, <2>1 DEF ssd_send_byte, ssd_memory
    <3>2. \A c \in ssd_shown' : ram'[c] = gddram'[c]
      BY <1>3, <3>1 DEF ShownIsDrawn, SsdTypes
    <3>3. ASSUME ssd_clean, NEW n \in 0 .. k PROVE SourceCell(n) \in ssd_shown'
      BY <1>2, <3>1, <3>3 DEF ShownIsDrawn
    <3> QED BY <1>2, <1>5, <3>1, <3>2, <3>3 DEF ShownIsDrawn
  <2> QED BY <1>4, <2>3, <2>4
<1>7. CASE ssd_torn \/ ssd_astray
  <2>1. UNCHANGED <<gddram, fullscreen, ssd_source, ssd_torn, ssd_astray, ssd_clean>>
    BY DEF ssd_send_byte, ssd_memory
  <2>2. ~ssd_clean
    BY <1>7 DEF InPlace
  <2>3. InPlace'
    BY <1>7, <2>1, <2>2 DEF InPlace, ssd_send_byte
  <2>4. ssd_shown' = ssd_shown \ {pointer} /\ \A c \in ssd_shown' : ram'[c] = ram[c]
    BY <1>7 DEF ssd_send_byte, SsdTypes
  <2>5. ShownIsDrawn'
    BY <2>1, <2>2, <2>4 DEF ShownIsDrawn
  <2> QED BY <1>4, <2>3, <2>5
<1> QED BY <1>6, <1>7

\* A transfer that starts in its window starts in its place.
LEMMA StartKeeps ==
  ASSUME SsdInv, NEW w \in Sources, SendsFrom(w), window' = w, pointer' = Corner(w),
         fullscreen' \in BOOLEAN, fullscreen' => w = Whole,
         ssd_torn' = FALSE
  PROVE  SsdInv'
<1> USE DEF SsdInv
<1>1. Size(w) \in Nat \ {0} /\ After(w, Corner(w), 0) = Corner(w)
  BY SourcesAreWindows, WindowGoesRound
<1>2. /\ ssd_source' = w /\ ssd_left' = Size(w) /\ ssd_clean' = ~ssd_astray
      /\ UNCHANGED <<gddram, ram, ssd_astray, ssd_shown>>
  BY DEF SendsFrom
<1>3. SsdTypes'
  <2>1. Size(ssd_source)' = Size(w)
    BY <1>2 DEF Size, Width, Height
  <2>2. ssd_clean' \in BOOLEAN
    BY <1>2 DEF SsdTypes
  <2>3. ssd_left' \in 0 .. Size(ssd_source)'
    BY <1>1, <1>2, <2>1
  <2> QED BY <1>2, <2>2, <2>3 DEF SsdTypes
<1>4. BytesSent' = 0
  BY <1>1, <1>2 DEF BytesSent
<1>5. SourceCell(BytesSent)' = Corner(w)
  BY <1>1, <1>2, <1>4 DEF SourceCell
<1>6. InPlace'
  BY <1>1, <1>2, <1>5 DEF InPlace, SsdTypes
<1>7. ShownIsDrawn'
  BY <1>2, <1>4 DEF ShownIsDrawn
<1> QED BY <1>3, <1>6, <1>7

\* Every step keeps the invariant.
LEMMA SsdStep == SsdInv /\ [SsdNext]_ssd_vars => SsdInv'
<1> SUFFICES ASSUME SsdInv, [SsdNext]_ssd_vars PROVE SsdInv'
  OBVIOUS
<1> USE DEF SsdInv
<1>1. Size(ssd_source) \in Nat \ {0} /\ SourceCell(0) = Corner(ssd_source)
  BY SourcesAreWindows, WindowGoesRound DEF SsdTypes, SourceCell
\* A step that only loses what was known.
<1>2. ASSUME ssd_clean' = FALSE, ssd_shown' \subseteq ssd_shown, SsdTypes', InPlace',
             \A c \in ssd_shown' : ram'[c] = gddram'[c]
      PROVE  SsdInv'
  BY <1>2 DEF ShownIsDrawn
<1>3. ASSUME NEW w \in Sources, WindowRefused(w), fullscreen' \in BOOLEAN,
             ssd_left = 0, ~fullscreen'
      PROVE  SsdInv'
  <2>1. SsdTypes'
    BY <1>3 DEF WindowRefused, SsdTypes, ssd_transfer
  <2>2. InPlace'
    BY <1>3 DEF WindowRefused, InPlace, SsdTypes, ssd_transfer
  <2> QED BY <1>2, <1>3, <2>1, <2>2 DEF WindowRefused, ShownIsDrawn
<1>4. CASE ssd_cut
  <2>1. SsdTypes'
    <3>1. Size(ssd_source)' = Size(ssd_source)
      BY <1>4 DEF ssd_cut, Size, Width, Height
    <3>2. ssd_left' \in 0 .. Size(ssd_source)'
      BY <1>1, <1>4, <3>1 DEF ssd_cut
    <3>3. ssd_torn' \in BOOLEAN
      BY <1>4 DEF ssd_cut, SsdTypes
    <3> QED BY <1>4, <3>2, <3>3 DEF ssd_cut, SsdTypes, ssd_memory, ssd_chip
  <2>2. InPlace'
    <3>1. ASSUME fullscreen, ~ssd_torn, ~ssd_astray, BytesSent = 0
          PROVE  window = Whole /\ pointer = <<0, 0>>
      <4>1. window = Whole /\ pointer = SourceCell(0) /\ ssd_source = Whole
        BY <1>4, <3>1 DEF InPlace, ssd_cut
      <4> QED BY <1>1, <4>1 DEF Corner, Whole, Window
    <3>2. /\ ssd_left' = 0 /\ ssd_clean' = FALSE
          /\ UNCHANGED <<fullscreen, ssd_astray, window, pointer>>
          /\ ~ssd_torn' => ~ssd_torn /\ (fullscreen => BytesSent = 0)
      BY <1>4 DEF ssd_cut, ssd_memory, ssd_chip
    <3>3. ssd_left' = 0 /\ fullscreen' /\ ~ssd_torn' /\ ~ssd_astray' =>
             window' = Whole /\ pointer' = <<0, 0>>
      BY <3>1, <3>2
    <3>4. ~(ssd_left' > 0)
      BY <3>2
    <3> QED BY <3>2, <3>3, <3>4 DEF InPlace
  <2> QED BY <1>2, <1>4, <2>1, <2>2 DEF ssd_cut, ShownIsDrawn, ssd_memory, ssd_chip
<1>5. CASE buffer_set
  <2>1. PICK c \in Cells, v \in {0, 1} :
           gddram' = [gddram EXCEPT ![c] = v] /\ ssd_shown' = ssd_shown \ {c}
    BY <1>5 DEF buffer_set
  <2>2. UNCHANGED <<fullscreen, ssd_source, ssd_left, ram, window, pointer, ssd_torn, ssd_astray>>
        /\ ssd_clean' = FALSE
    BY <1>5 DEF buffer_set, ssd_transfer, ssd_chip
  <2>3. SsdTypes'
    BY <2>1, <2>2 DEF SsdTypes, Size, Width, Height
  <2>4. InPlace'
    BY <2>2 DEF InPlace, SourceCell, BytesSent
  <2> QED BY <1>2, <2>1, <2>2, <2>3, <2>4 DEF ShownIsDrawn, SsdTypes
<1>6. CASE display_on
  <2>1. SsdTypes'
    <3>1. Size(ssd_source)' = Size(ssd_source)
      BY <1>6 DEF display_on, Size, Width, Height
    <3>2. ssd_left' \in 0 .. Size(ssd_source)'
      BY <1>1, <1>6, <3>1 DEF display_on
    <3> QED BY <1>6, <3>2 DEF display_on, SsdTypes
  <2>2. InPlace'
    BY <1>6 DEF display_on, InPlace
  <2> QED BY <1>2, <1>6, <2>1, <2>2 DEF display_on, ShownIsDrawn
<1>7. CASE update_tile
  <2>1. ssd_left = 0 /\ fullscreen' = FALSE
    BY <1>7 DEF update_tile, TileNoted
  <2>2. PICK w \in Sources :
           \/ WindowRefused(w)
           \/ window' = w /\ pointer' = Corner(w) /\ ssd_torn' = FALSE /\ SendsFrom(w)
           \/ TileOvertaken(w)
    BY <1>7 DEF update_tile, Sources
  <2>3. CASE TileOvertaken(w)
    <3>1. SsdTypes'
      BY <2>1, <2>3 DEF TileOvertaken, SsdTypes, ssd_transfer
    <3>2. InPlace'
      BY <2>1, <2>3 DEF TileOvertaken, InPlace, ssd_transfer
    <3> QED BY <1>2, <2>3, <3>1, <3>2 DEF TileOvertaken, ShownIsDrawn
  <2> QED BY <1>3, <2>1, <2>2, <2>3, StartKeeps
<1>8. CASE display_full_screen
  <2>1. ssd_left = 0 /\ Whole \in Sources /\ Corner(Whole) = <<0, 0>>
    BY <1>8 DEF display_full_screen, Sources, Corner, Whole, Window
  <2>2. CASE ~fullscreen /\ WindowRefused(Whole) /\ UNCHANGED fullscreen
    BY <1>3, <2>1, <2>2 DEF SsdTypes
  <2>3. CASE fullscreen' = TRUE /\ SendsFrom(Whole)
    <3>1. CASE window' = Whole /\ pointer' = <<0, 0>> /\ ssd_torn' = FALSE
      BY <2>1, <2>3, <3>1, StartKeeps
    <3>2. CASE fullscreen /\ UNCHANGED <<window, pointer, ssd_torn>>
      <4>1. CASE ~ssd_torn /\ ~ssd_astray
        <5>1. window' = Whole /\ pointer' = Corner(Whole) /\ ssd_torn' = FALSE
          BY <2>1, <3>2, <4>1 DEF InPlace, SsdTypes
        <5> QED BY <2>1, <2>3, <5>1, StartKeeps
      <4>2. CASE ssd_torn \/ ssd_astray
        <5>1. /\ ssd_source' = Whole /\ ssd_left' = Size(Whole)
              /\ ssd_clean' = FALSE /\ UNCHANGED <<gddram, ram, ssd_astray, ssd_shown>>
          BY <2>3, <3>2, <4>2 DEF SendsFrom
        <5>2. Size(Whole) \in Nat \ {0}
          BY <2>1, SourcesAreWindows, WindowGoesRound
        <5>3. SsdTypes'
          <6>1. Size(ssd_source)' = Size(Whole)
            BY <5>1 DEF Size, Width, Height
          <6>2. ssd_left' \in 0 .. Size(ssd_source)'
            BY <5>1, <5>2, <6>1
          <6> QED BY <2>1, <2>3, <3>2, <5>1, <6>2 DEF SsdTypes
        <5>4. InPlace'
          BY <2>3, <3>2, <4>2, <5>1, <5>2 DEF InPlace
        <5> QED BY <1>2, <5>1, <5>3, <5>4 DEF ShownIsDrawn
      <4> QED BY <4>1, <4>2
    <3> QED BY <1>8, <2>3, <3>1, <3>2 DEF display_full_screen, WindowRefused, SendsFrom
  <2> QED BY <1>8, <2>2, <2>3 DEF display_full_screen
<1>9. CASE UNCHANGED ssd_vars
  BY <1>9 DEF ssd_vars, ssd_memory, ssd_transfer, ssd_chip, SsdTypes, InPlace, ShownIsDrawn,
              SourceCell, BytesSent, Size, Width, Height
<1> QED BY <1>4, <1>5, <1>6, <1>7, <1>8, <1>9, ByteKeeps DEF SsdNext

\* What was sent, of a tile or of everything, is on the screen at its place until it is
\* drawn over, for screens and tiles of any size, transfers cut anywhere and pictures
\* drawn while they are sent: all but what follows a whole picture that was cut and the
\* tiles of the asynchronous mode whose address was taken back too early.
THEOREM ScreenCorrect == SsdSpec => []ShownIsDrawn
<1>1. SsdInit => SsdInv
  <2>1. Whole \in Sources /\ Size(Whole) \in Nat \ {0}
    BY SourcesAreWindows, WindowGoesRound DEF Sources
  <2>2. ASSUME SsdInit PROVE SsdTypes
    <3>1. Size(ssd_source) = Size(Whole) /\ ssd_left = 0
      BY <2>2 DEF SsdInit
    <3>2. ram \in [Cells -> {0, 1}] /\ gddram \in [Cells -> {0, 1}]
      BY <2>2 DEF SsdInit
    <3>3. ssd_left \in 0 .. Size(ssd_source) /\ ssd_source \in Sources
      BY <2>1, <2>2, <3>1 DEF SsdInit
    <3>4. /\ fullscreen \in BOOLEAN /\ ssd_torn \in BOOLEAN
          /\ ssd_astray \in BOOLEAN /\ ssd_clean \in BOOLEAN /\ ssd_shown \subseteq Cells
      BY <2>2 DEF SsdInit
    <3> QED BY <3>2, <3>3, <3>4 DEF SsdTypes
  <2>3. SsdInit => InPlace /\ ShownIsDrawn
    BY DEF SsdInit, InPlace, ShownIsDrawn
  <2> QED BY <2>2, <2>3 DEF SsdInv
<1>2. SsdInv => ShownIsDrawn
  BY DEF SsdInv
<1> QED BY <1>1, <1>2, SsdStep, PTL DEF SsdSpec

----------------------------------------------------------------------------
(* Cc1101.  From the moment a whole frame is first in the FIFO, each       *)
(* transaction of the call reads the next of its places, and what arrives  *)
(* meanwhile comes behind them.                                            *)

RfBytes == [frame : Nat \ {0}, len : RfLengths, place : Nat]

\* The FIFO begins with the places of a frame from one of them to the last.
BeginsAt(frame, len, place) ==
    /\ Len(rf_rx_fifo) >= len + 3 - place
    /\ \A i \in 1 .. len + 3 - place : rf_rx_fifo[i] = Byte(frame, len, place + i - 1)

LengthAndData(frame, len) == [i \in 1 .. len + 1 |-> Byte(frame, len, i - 1)]

\* How far the call is with a frame that was whole.
ReadSoFar(frame, len) ==
    /\ rf_pc = "length" => /\ BeginsAt(frame, len, 0) /\ rx_status.bytes >= len + 3
    /\ rf_pc = "data" => /\ BeginsAt(frame, len, 1)
                         /\ read_size = len + 1 /\ rf_buffer = <<Byte(frame, len, 0)>>
    /\ rf_pc = "quality" => BeginsAt(frame, len, len + 1) /\ rf_buffer = LengthAndData(frame, len)
    /\ rf_pc \in {"data", "quality"} => rf_ret = "packet"
    /\ rf_pc \in {"idle", "tx_state", "send"} =>
          IF rx_status.overflow THEN rf_ret = "overflow"
          ELSE /\ rf_ret = "packet" /\ rf_buffer = LengthAndData(frame, len)
               /\ link_quality = Byte(frame, len, len + 2)

RfInv ==
    /\ rf_rx_fifo \in Seq(RfBytes) /\ arriving \in RfBytes \cup {NoByte} /\ rf_frames \in Nat
    /\ rx_status.bytes \in Nat /\ read_size \in Nat
    /\ rf_pc \in {"idle", "tx_state", "send", "length", "data", "quality"}
    /\ rf_whole => \E frame \in Nat \ {0}, len \in RfLengths : ReadSoFar(frame, len)

\* What leaves the call, its frame and what it has read as they are, and adds at
\* most to the end of the FIFO while the call goes on.
LEMMA CallStays ==
  ASSUME RfInv, rf_rx_fifo' \in Seq(RfBytes), arriving' \in RfBytes \cup {NoByte}, rf_frames' \in Nat,
         rf_whole' => rf_whole, UNCHANGED <<rx_status, read_size, rf_ret, rf_buffer, link_quality>>,
         rf_pc' = rf_pc \/ {rf_pc, rf_pc'} \subseteq {"idle", "tx_state", "send"},
         \/ {rf_pc, rf_pc'} \subseteq {"idle", "tx_state", "send"}
         \/ ~rf_whole'
         \/ /\ Len(rf_rx_fifo') >= Len(rf_rx_fifo)
            /\ \A i \in 1 .. Len(rf_rx_fifo) : rf_rx_fifo'[i] = rf_rx_fifo[i]
  PROVE  RfInv'
<1>1. rf_pc' \in {"idle", "tx_state", "send", "length", "data", "quality"}
  BY DEF RfInv
<1>2. ASSUME rf_whole'
      PROVE  (\E frame \in Nat \ {0}, len \in RfLengths : ReadSoFar(frame, len))'
  <2>1. PICK frame \in Nat \ {0}, len \in RfLengths : ReadSoFar(frame, len)
    BY <1>2 DEF RfInv
  <2>2. CASE {rf_pc, rf_pc'} \subseteq {"idle", "tx_state", "send"}
    <3>1. ReadSoFar(frame, len)'
      BY <2>1, <2>2 DEF ReadSoFar
    <3> QED BY <3>1
  <2>3. CASE ~({rf_pc, rf_pc'} \subseteq {"idle", "tx_state", "send"})
    <3>1. /\ rf_pc' = rf_pc /\ Len(rf_rx_fifo') >= Len(rf_rx_fifo)
          /\ \A i \in 1 .. Len(rf_rx_fifo) : rf_rx_fifo'[i] = rf_rx_fifo[i]
      BY <1>2, <2>3
    <3>2. Len(rf_rx_fifo) \in Nat /\ Len(rf_rx_fifo') \in Nat /\ len \in Nat
      BY LenProperties, RfSizes DEF RfInv
    <3>3. \A place \in Nat : BeginsAt(frame, len, place) => BeginsAt(frame, len, place)'
      <4> SUFFICES ASSUME NEW place \in Nat, BeginsAt(frame, len, place)
                   PROVE  BeginsAt(frame, len, place)'
        OBVIOUS
      <4>1. Len(rf_rx_fifo) >= len + 3 - place
        BY DEF BeginsAt
      <4>2. \A i \in 1 .. len + 3 - place : i \in 1 .. Len(rf_rx_fifo)
        BY <3>2, <4>1
      <4>3. Len(rf_rx_fifo') >= len + 3 - place
        BY <3>1, <3>2, <4>1
      <4> QED BY <3>1, <4>2, <4>3 DEF BeginsAt
    <3>4. 0 \in Nat /\ 1 \in Nat /\ len + 1 \in Nat
      BY <3>2
    <3>5. ReadSoFar(frame, len)'
      BY <2>1, <3>1, <3>3, <3>4 DEF ReadSoFar
    <3> QED BY <3>5
  <2> QED BY <2>2, <2>3
<1> QED BY <1>1, <1>2 DEF RfInv

\* Reading n bytes from a place of the frame on gives them and leaves the next ones.
ReadsOn(frame, len, place, n) ==
    /\ Len(Without(n)) >= len + 3 - (place + n)
    /\ \A i \in 1 .. len + 3 - (place + n) : Without(n)[i] = Byte(frame, len, place + n + i - 1)
    /\ FirstBytes(n) = [i \in 1 .. n |-> Byte(frame, len, place + i - 1)]

\* What a reading takes and what it leaves.
LEMMA WithoutIs ==
  ASSUME RfInv, NEW n \in Nat
  PROVE  /\ Without(n) \in Seq(RfBytes)
         /\ \A frame, len, place \in Nat :
               (BeginsAt(frame, len, place) /\ place + n <= len + 3) => ReadsOn(frame, len, place, n)
<1>1. PICK m \in Nat : m = Len(rf_rx_fifo) /\ rf_rx_fifo \in Seq(RfBytes)
  BY LenProperties DEF RfInv
<1>2. \A i \in n + 1 .. m : rf_rx_fifo[i] \in RfBytes
  <2> TAKE i \in n + 1 .. m
  <2>1. i \in 1 .. m
    OBVIOUS
  <2> QED BY <1>1, <2>1, ElementOfSeq
<1>3. n + 1 \in Int /\ m \in Int
  BY <1>1
<1>4. /\ Without(n) \in Seq(RfBytes)
      /\ Len(Without(n)) = IF n + 1 <= m THEN m - (n + 1) + 1 ELSE 0
      /\ \A i \in 1 .. m - (n + 1) + 1 : Without(n)[i] = rf_rx_fifo[n + 1 + i - 1]
  BY <1>1, <1>2, <1>3, SubSeqProperties DEF Without
<1>5. ASSUME NEW frame \in Nat, NEW len \in Nat, NEW place \in Nat,
             BeginsAt(frame, len, place), place + n <= len + 3
      PROVE  ReadsOn(frame, len, place, n)
  <2>1. /\ m >= len + 3 - place
        /\ \A i \in 1 .. len + 3 - place : rf_rx_fifo[i] = Byte(frame, len, place + i - 1)
    BY <1>1, <1>5 DEF BeginsAt
  <2>2. Len(Without(n)) >= len + 3 - (place + n)
    BY <1>1, <1>4, <1>5, <2>1
  <2>3. ASSUME NEW i \in 1 .. len + 3 - (place + n)
        PROVE  Without(n)[i] = Byte(frame, len, place + n + i - 1)
    <3>1. /\ n + i \in 1 .. len + 3 - place /\ i \in 1 .. m - (n + 1) + 1
          /\ n + 1 + i - 1 = n + i /\ place + (n + i) - 1 = place + n + i - 1
      BY <1>1, <1>5, <2>1
    <3> QED BY <1>4, <2>1, <3>1
  <2>4. \A i \in 1 .. n : i \in 1 .. len + 3 - place /\ i <= m
    BY <1>1, <1>5, <2>1
  <2>5. FirstBytes(n) = [i \in 1 .. n |-> Byte(frame, len, place + i - 1)]
    BY <1>1, <2>1, <2>4 DEF FirstBytes
  <2> QED BY <2>2, <2>3, <2>5 DEF ReadsOn
<1> QED BY <1>4, <1>5

\* Every step keeps the invariant.
LEMMA RfStep == RfInv /\ [Cc1101Next]_cc1101_vars => RfInv'
<1> SUFFICES ASSUME RfInv, [Cc1101Next]_cc1101_vars PROVE RfInv'
  OBVIOUS
<1>1. /\ rf_rx_fifo \in Seq(RfBytes) /\ arriving \in RfBytes \cup {NoByte} /\ rf_frames \in Nat
      /\ rx_status.bytes \in Nat /\ read_size \in Nat
      /\ <<>> \in Seq(RfBytes) /\ NoByte \in RfBytes \cup {NoByte}
      /\ Len(rf_rx_fifo) \in Nat /\ RfFifoSize \in Nat
      /\ \A len \in RfLengths : len \in 1 .. 255 /\ len + 1 <= RfFifoSize
  BY LenProperties, RfSizes DEF RfInv
<1>2. CASE Calls /\ UNCHANGED <<rf_frames, call_vars>> /\ rf_pc' \in {"idle", "tx_state", "send"}
           /\ rf_rx_fifo' \in {rf_rx_fifo, <<>>} /\ arriving' \in {arriving, NoByte}
  <2>1. rf_pc = "idle" /\ rf_rx_fifo' \in Seq(RfBytes) /\ arriving' \in RfBytes \cup {NoByte}
    BY <1>1, <1>2 DEF Calls
  <2> QED BY <1>1, <1>2, <2>1, CallStays DEF call_vars
<1>3. CASE cc1101_reset \/ cc1101_flush_tx_fifo \/ cc1101_flush_rx_fifo \/ cc1101_config
           \/ cc1101_power_down \/ cc1101_enter_rx_mode \/ cc1101_enter_fstxon_state
           \/ cc1101_rx_fifo_state \/ enter_tx_mode
  <2>1. \A to : Goes(to) => arriving' \in {arriving, NoByte}
    BY DEF Goes
  <2>2. EnterRx => arriving' \in {arriving, NoByte}
    BY <2>1 DEF EnterRx
  <2> USE DEF Calls, FlushRx, FlushTx
  <2>3. CASE cc1101_reset \/ cc1101_flush_tx_fifo \/ cc1101_flush_rx_fifo \/ cc1101_config
    BY <1>2, <2>3 DEF cc1101_reset, cc1101_flush_tx_fifo, cc1101_flush_rx_fifo, cc1101_config
  <2>4. CASE cc1101_power_down \/ cc1101_enter_rx_mode \/ cc1101_enter_fstxon_state
    BY <1>2, <2>1, <2>2, <2>4 DEF cc1101_power_down, cc1101_enter_rx_mode, cc1101_enter_fstxon_state
  <2>5. CASE cc1101_rx_fifo_state
    BY <1>2, <2>2, <2>5 DEF cc1101_rx_fifo_state
  <2>6. CASE enter_tx_mode
    <3>1. /\ rf_pc = "idle" /\ rf_pc' \in {"idle", "tx_state", "send"}
          /\ UNCHANGED <<rf_frames, call_vars, rf_rx_fifo>>
      BY <2>6 DEF enter_tx_mode
    <3>2. arriving' \in {arriving, NoByte}
      BY <2>1, <2>6 DEF enter_tx_mode
    <3> QED BY <1>2, <3>1, <3>2
  <2> QED BY <1>3, <2>3, <2>4, <2>5, <2>6
<1>4. CASE EnterTxFails \/ EnterTxEnds
  <2>1. /\ rf_pc \in {"tx_state", "send"} /\ rf_pc' = "idle" /\ UNCHANGED <<rf_frames, call_vars>>
        /\ rf_rx_fifo' \in {rf_rx_fifo, <<>>} /\ arriving' \in {arriving, NoByte}
    BY <1>4 DEF EnterTxFails, EnterTxEnds, FlushRx, FlushTx, receiving
  <2>2. rf_rx_fifo' \in Seq(RfBytes) /\ arriving' \in RfBytes \cup {NoByte}
    BY <1>1, <2>1
  <2> QED BY <1>1, <2>1, <2>2, CallStays DEF call_vars
<1>5. CASE ReadStatus
  <2>1. /\ rf_pc = "idle" /\ rf_whole' = WholeFrameFirst
        /\ rx_status' = [bytes |-> Len(rf_rx_fifo), overflow |-> rf_state = "overflow"]
        /\ rf_pc' = IF rf_rx_fifo = << >> /\ rf_state # "overflow" THEN "idle" ELSE "length"
        /\ UNCHANGED <<rf_rx_fifo, arriving, rf_frames, read_size, rf_buffer, link_quality>>
    BY <1>5 DEF ReadStatus, Calls
  <2>2. ASSUME rf_whole'
        PROVE  (\E frame \in Nat \ {0}, len \in RfLengths : ReadSoFar(frame, len))'
    <3>1. rf_rx_fifo # << >> /\ rf_pc' = "length"
      BY <2>1, <2>2 DEF WholeFrameFirst
    <3>2. PICK head \in RfBytes : head = Head(rf_rx_fifo)
      BY <1>1, <3>1, HeadTailProperties
    <3>3. head.frame \in Nat \ {0} /\ head.len \in RfLengths
      BY DEF RfBytes
    <3>4. PICK frame \in Nat \ {0}, len \in RfLengths : frame = head.frame /\ len = head.len
      BY <3>3
    <3>5. FirstBytes(len + 3) = [i \in 1 .. len + 3 |-> Byte(frame, len, i - 1)]
      BY <2>1, <2>2, <3>2, <3>4 DEF WholeFrameFirst
    <3>6. ASSUME NEW i \in 1 .. len + 3
          PROVE  i <= Len(rf_rx_fifo) /\ rf_rx_fifo[i] = Byte(frame, len, i - 1)
      <4>1. FirstBytes(len + 3)[i] = Byte(frame, len, i - 1)
        BY <3>5
      <4>2. FirstBytes(len + 3)[i] = IF i <= Len(rf_rx_fifo) THEN rf_rx_fifo[i] ELSE NoByte
        BY DEF FirstBytes
      <4>3. Byte(frame, len, i - 1).frame # 0 /\ NoByte.frame = 0
        BY DEF Byte, NoByte
      <4> QED BY <4>1, <4>2, <4>3
    <3>7. len \in Nat /\ len + 3 \in 1 .. len + 3 /\ len + 3 - 0 = len + 3
      BY RfSizes
    <3>8. \A i \in 1 .. len + 3 : 0 + i - 1 = i - 1
      OBVIOUS
    <3>9. BeginsAt(frame, len, 0)
      BY <3>6, <3>7, <3>8 DEF BeginsAt
    <3>10. BeginsAt(frame, len, 0)' /\ rx_status.bytes' >= len + 3
      BY <1>1, <2>1, <3>6, <3>7, <3>9 DEF BeginsAt
    <3>11. ReadSoFar(frame, len)'
      BY <3>1, <3>10 DEF ReadSoFar
    <3> QED BY <3>11
  <2>3. rf_pc' \in {"idle", "length"} /\ rx_status.bytes' \in Nat
    BY <1>1, <2>1
  <2> QED BY <1>1, <2>1, <2>2, <2>3 DEF RfInv
<1>6. CASE ReadLength
  <2>1. /\ rf_pc = "length" /\ rf_pc' = "data" /\ rf_rx_fifo' = Without(1)
        /\ UNCHANGED <<arriving, rf_frames, rx_status, rf_whole>>
    BY <1>6 DEF ReadLength
  <2>2. rf_rx_fifo' \in Seq(RfBytes)
    BY <2>1, WithoutIs
  <2>3. ASSUME rf_whole
        PROVE  (\E frame \in Nat \ {0}, len \in RfLengths : ReadSoFar(frame, len))'
    <3>1. PICK frame \in Nat \ {0}, len \in RfLengths :
             BeginsAt(frame, len, 0) /\ rx_status.bytes >= len + 3
      BY <2>1, <2>3 DEF RfInv, ReadSoFar
    <3>2. frame \in Nat /\ len \in 1 .. 255 /\ len \in Nat /\ len + 1 <= RfFifoSize
      BY RfSizes
    <3>3. /\ Len(Without(1)) >= len + 3 - 1
          /\ \A i \in 1 .. len + 3 - 1 : Without(1)[i] = Byte(frame, len, 1 + i - 1)
          /\ FirstBytes(1) = [i \in 1 .. 1 |-> Byte(frame, len, 0 + i - 1)]
      <4>1. PICK p \in Nat, n \in Nat, q \in Nat : p = 0 /\ n = 1 /\ q = p + n /\ q <= len + 3
        BY <3>2
      <4>2. BeginsAt(frame, len, p)
        BY <3>1, <4>1
      <4>3. ReadsOn(frame, len, p, n)
        BY <3>2, <4>1, <4>2, WithoutIs
      <4>4. p + n = 1
        BY <4>1
      <4> QED BY <4>1, <4>3, <4>4 DEF ReadsOn
    <3>4. BeginsAt(frame, len, 1)'
      BY <2>1, <3>3 DEF BeginsAt
    <3>5. /\ FirstBytes(1)[1] = Byte(frame, len, 0) /\ Byte(frame, len, 0) # NoByte
          /\ Byte(frame, len, 0).place = 0 /\ Byte(frame, len, 0).len = len
      <4>1. FirstBytes(1)[1] = Byte(frame, len, 0 + 1 - 1)
        BY <3>3
      <4>2. 0 + 1 - 1 = 0
        OBVIOUS
      <4> QED BY <4>1, <4>2 DEF Byte, NoByte
    <3>6. /\ rf_buffer' = <<Byte(frame, len, 0)>>
          /\ rf_ret' = IF len > RfFifoSize - 1 THEN "too big"
                       ELSE IF len + 1 > RfBufferSize THEN "too small"
                       ELSE IF len > rx_status.bytes THEN "incomplete" ELSE "packet"
          /\ rf_ret' = "packet" => read_size' = len + 1
      BY <1>6, <3>5 DEF ReadLength
    <3>7. /\ ~(len > RfFifoSize - 1) /\ ~(len + 1 > RfBufferSize) /\ ~(len > rx_status.bytes)
      BY <1>1, <3>1, <3>2, RfSizes
    <3>8. rf_ret' = "packet" /\ read_size' = len + 1
      BY <3>6, <3>7
    <3>9. ReadSoFar(frame, len)'
      BY <2>1, <3>4, <3>6, <3>8 DEF ReadSoFar
    <3> QED BY <3>9
  <2>4. read_size' \in Nat
    <3>1. PICK head : head = FirstBytes(1)[1]
      OBVIOUS
    <3>2. head = NoByte \/ head \in RfBytes
      <4>1. 1 \in 1 .. 1 /\ (1 <= Len(rf_rx_fifo) => rf_rx_fifo[1] \in RfBytes)
        BY <1>1, ElementOfSeq
      <4> QED BY <3>1, <4>1 DEF FirstBytes
    <3>3. head # NoByte => head.len \in Nat
      <4>1. head # NoByte => head.len \in RfLengths
        BY <3>2 DEF RfBytes
      <4>2. RfLengths \subseteq Nat
        BY RfSizes
      <4> QED BY <4>1, <4>2
    <3>4. PICK pkt_length \in (IF head # NoByte /\ head.place = 0 THEN {head.len} ELSE 0 .. RfFifoSize) :
             read_size' = CASE rf_ret' = "too big" -> Fewer(RfBufferSize, rx_status.bytes)
                            [] rf_ret' = "too small" -> RfBufferSize
                            [] rf_ret' = "incomplete" -> rx_status.bytes
                            [] OTHER -> pkt_length + 1
      BY <1>6, <3>1 DEF ReadLength
    <3>5. pkt_length \in Nat
      <4>1. CASE head # NoByte /\ head.place = 0
        BY <3>3, <4>1
      <4>2. CASE ~(head # NoByte /\ head.place = 0)
        BY <4>2, RfSizes
      <4> QED BY <4>1, <4>2
    <3>6. Fewer(RfBufferSize, rx_status.bytes) \in Nat /\ RfBufferSize \in Nat /\ pkt_length + 1 \in Nat
          /\ rx_status.bytes \in Nat
      BY <1>1, <3>5, RfSizes DEF Fewer
    <3> QED BY <3>4, <3>6
  <2> QED BY <1>1, <2>1, <2>2, <2>3, <2>4 DEF RfInv
<1>7. CASE ReadData
  <2>1. PICK n \in Nat : n = Fewer(AfterLength, RfFifoSize)
    <3>1. AfterLength \in 0 .. 255
      BY <1>1 DEF AfterLength
    <3> QED BY <1>1, <3>1 DEF Fewer
  <2>2. /\ rf_pc = "data" /\ rf_pc' = "quality"
        /\ rf_buffer' = rf_buffer \o FirstBytes(n) /\ rf_rx_fifo' = Without(n)
        /\ UNCHANGED <<arriving, rf_frames, rx_status, read_size, rf_ret, rf_whole>>
    BY <1>7, <2>1 DEF ReadData
  <2>3. rf_rx_fifo' \in Seq(RfBytes)
    BY <2>2, WithoutIs
  <2>4. ASSUME rf_whole
        PROVE  (\E frame \in Nat \ {0}, len \in RfLengths : ReadSoFar(frame, len))'
    <3>1. PICK frame \in Nat \ {0}, len \in RfLengths :
             /\ BeginsAt(frame, len, 1)
             /\ read_size = len + 1 /\ rf_buffer = <<Byte(frame, len, 0)>> /\ rf_ret = "packet"
      BY <2>2, <2>4 DEF RfInv, ReadSoFar
    <3>2. frame \in Nat /\ len \in 1 .. 255 /\ len \in Nat /\ len + 1 <= RfFifoSize
      BY RfSizes
    <3>3. n = len
      <4>1. (read_size - 1) % 256 = len
        BY <3>1, <3>2
      <4> QED BY <1>1, <2>1, <3>2, <4>1 DEF Fewer, AfterLength
    <3>4. /\ Len(Without(n)) >= len + 3 - (len + 1)
          /\ \A i \in 1 .. len + 3 - (len + 1) : Without(n)[i] = Byte(frame, len, len + 1 + i - 1)
          /\ FirstBytes(n) = [i \in 1 .. len |-> Byte(frame, len, i)]
      <4>1. PICK p \in Nat : p = 1 /\ p + n = len + 1 /\ p + n <= len + 3
        BY <3>2, <3>3
      <4>2. BeginsAt(frame, len, p)
        BY <3>1, <4>1
      <4>3. ReadsOn(frame, len, p, n)
        BY <3>2, <4>1, <4>2, WithoutIs
      <4>4. \A i \in 1 .. len : p + i - 1 = i
        BY <4>1
      <4>5. FirstBytes(n) = [i \in 1 .. len |-> Byte(frame, len, i)]
        BY <3>3, <4>3, <4>4 DEF ReadsOn
      <4> QED BY <4>1, <4>3, <4>5 DEF ReadsOn
    <3>5. BeginsAt(frame, len, len + 1)'
      BY <2>2, <3>4 DEF BeginsAt
    <3>6. rf_buffer' = LengthAndData(frame, len)
      <4>1. PICK data : data = [i \in 1 .. len |-> Byte(frame, len, i)]
        OBVIOUS
      <4>2. PICK bytes : bytes = {Byte(frame, len, i) : i \in 0 .. len}
        OBVIOUS
      <4>3. /\ data \in Seq(bytes) /\ Len(data) = len
            /\ \A i \in 1 .. len : data[i] = Byte(frame, len, i)
        <5>1. \A i \in 1 .. len : i \in 0 .. len
          BY <3>2
        <5>2. data \in [1 .. len -> bytes]
          BY <4>1, <4>2, <5>1
        <5> QED BY <3>2, <4>1, <5>2
      <4>4. PICK one : one = <<Byte(frame, len, 0)>>
        OBVIOUS
      <4>5. one \in Seq(bytes) /\ Len(one) = 1 /\ one[1] = Byte(frame, len, 0)
        <5>1. 0 \in 0 .. len
          BY <3>2
        <5>2. Byte(frame, len, 0) \in bytes
          BY <4>2, <5>1
        <5> QED BY <4>4, <5>2
      <4>6. PICK all : all = one \o data
        OBVIOUS
      <4>7. /\ all \in Seq(bytes) /\ Len(all) = 1 + len
             /\ \A i \in 1 .. 1 + len : all[i] = IF i <= 1 THEN one[i] ELSE data[i - 1]
        <5>1. /\ all \in Seq(bytes) /\ Len(all) = Len(one) + Len(data)
              /\ \A i \in 1 .. Len(one) + Len(data) :
                    all[i] = IF i <= Len(one) THEN one[i] ELSE data[i - Len(one)]
          BY <4>3, <4>5, <4>6, ConcatProperties
        <5> QED BY <4>3, <4>5, <5>1
      <4>8. ASSUME NEW i \in 1 .. len + 1
            PROVE  all[i] = Byte(frame, len, i - 1)
        <5>1. CASE i = 1
          <6>1. 1 \in 1 .. 1 + len /\ 1 - 1 = 0
            BY <3>2
          <6> QED BY <4>5, <4>7, <5>1, <6>1
        <5>2. CASE i # 1
          <6>1. i \in 1 .. 1 + len /\ ~(i <= 1) /\ i - 1 \in 1 .. len
            BY <3>2, <5>2
          <6> QED BY <4>3, <4>7, <6>1
        <5> QED BY <5>1, <5>2
      <4>9. all = [i \in 1 .. len + 1 |-> all[i]]
        <5>1. DOMAIN all = 1 .. len + 1
          BY <3>2, <4>7, LenProperties
        <5>2. all \in [1 .. len + 1 -> bytes]
          <6>1. all \in [1 .. Len(all) -> bytes]
            BY <4>7, LenProperties
          <6>2. Len(all) = len + 1
            BY <3>2, <4>7
          <6> QED BY <6>1, <6>2
        <5> QED BY <5>1, <5>2
      <4>10. rf_buffer' = all
        BY <2>2, <3>1, <3>4, <4>1, <4>4, <4>6
      <4> QED BY <4>8, <4>9, <4>10 DEF LengthAndData
    <3>7. ReadSoFar(frame, len)'
      BY <2>2, <3>1, <3>5, <3>6 DEF ReadSoFar
    <3> QED BY <3>7
  <2> QED BY <1>1, <2>2, <2>3, <2>4 DEF RfInv
<1>8. CASE ReadQuality
  <2>1. /\ rf_pc = "quality" /\ rf_pc' = "idle"
        /\ UNCHANGED <<rf_frames, rx_status, read_size, rf_buffer, rf_whole>>
    BY <1>8 DEF ReadQuality
  <2>2. rf_rx_fifo' \in {Without(2), <<>>} /\ arriving' \in {arriving, NoByte}
    BY <1>8 DEF ReadQuality, FlushRx
  <2>3. rf_rx_fifo' \in Seq(RfBytes) /\ arriving' \in RfBytes \cup {NoByte}
    BY <1>1, <2>2, WithoutIs
  <2>4. ASSUME rf_whole
        PROVE  (\E frame \in Nat \ {0}, len \in RfLengths : ReadSoFar(frame, len))'
    <3>1. PICK frame \in Nat \ {0}, len \in RfLengths :
             BeginsAt(frame, len, len + 1) /\ rf_buffer = LengthAndData(frame, len) /\ rf_ret = "packet"
      BY <2>1, <2>4 DEF RfInv, ReadSoFar
    <3>2. FirstBytes(2)[2] = Byte(frame, len, len + 2)
      <4>1. PICK p \in Nat, n \in Nat : p = len + 1 /\ n = 2 /\ p + n <= len + 3
        BY RfSizes
      <4>2. frame \in Nat /\ len \in Nat /\ BeginsAt(frame, len, p)
        BY <3>1, <4>1, RfSizes
      <4>3. ReadsOn(frame, len, p, n)
        BY <4>1, <4>2, WithoutIs
      <4>4. 2 \in 1 .. 2 /\ p + 2 - 1 = len + 2
        BY <4>1, <4>2
      <4> QED BY <4>1, <4>3, <4>4 DEF ReadsOn
    <3>3. /\ Byte(frame, len, len + 2) # NoByte
          /\ Byte(frame, len, len + 2).place = Byte(frame, len, len + 2).len + 2
      BY DEF Byte, NoByte
    <3>4. /\ link_quality' = Byte(frame, len, len + 2)
          /\ IF ~rx_status.overflow THEN UNCHANGED rf_ret ELSE rf_ret' = "overflow"
      BY <1>8, <3>2, <3>3 DEF ReadQuality
    <3>5. ReadSoFar(frame, len)'
      BY <2>1, <3>1, <3>4 DEF ReadSoFar
    <3> QED BY <3>5
  <2> QED BY <1>1, <2>1, <2>3, <2>4 DEF RfInv
<1>9. CASE RfFrameStarts
  <2>1. /\ rf_frames' = rf_frames + 1 /\ UNCHANGED <<rf_rx_fifo, rf_pc, call_vars>>
        /\ \E len \in RfLengths : arriving' = Byte(rf_frames + 1, len, 0)
    BY <1>9 DEF RfFrameStarts
  <2>2. arriving' \in RfBytes
    <3>1. rf_frames + 1 \in Nat \ {0} /\ 0 \in Nat
      BY <1>1
    <3> QED BY <2>1, <3>1 DEF RfBytes, Byte
  <2> QED BY <1>1, <2>1, <2>2, CallStays DEF call_vars
<1>10. CASE ByteArrives
  <2>1. arriving \in RfBytes /\ UNCHANGED <<rf_frames, rf_pc, call_vars>>
    BY <1>1, <1>10 DEF ByteArrives
  <2>2. arriving' \in RfBytes \cup {NoByte}
    <3>1. [arriving EXCEPT !.place = @ + 1] \in RfBytes
      BY <2>1 DEF RfBytes
    <3> QED BY <1>1, <1>10, <3>1 DEF ByteArrives, Goes
  <2>3. rf_rx_fifo' = rf_rx_fifo \/ rf_rx_fifo' = Append(rf_rx_fifo, arriving)
    BY <1>10 DEF ByteArrives
  <2>4. /\ rf_rx_fifo' \in Seq(RfBytes) /\ Len(rf_rx_fifo') >= Len(rf_rx_fifo)
        /\ \A i \in 1 .. Len(rf_rx_fifo) : rf_rx_fifo'[i] = rf_rx_fifo[i]
    BY <1>1, <2>1, <2>3, AppendProperties
  <2> QED BY <1>1, <2>1, <2>2, <2>4, CallStays DEF call_vars
<1>11. CASE CrcFlushes
  <2>1. /\ rf_rx_fifo' = <<>> /\ arriving' = NoByte /\ rf_whole' = (rf_whole /\ rf_pc = "idle")
        /\ UNCHANGED <<rf_frames, rf_pc, rx_status, read_size, rf_ret, rf_buffer, link_quality>>
    BY <1>11 DEF CrcFlushes, Calls
  <2>2. ~rf_whole' \/ {rf_pc, rf_pc'} \subseteq {"idle", "tx_state", "send"}
    BY <2>1
  <2> QED BY <1>1, <2>1, <2>2, CallStays
<1>12. CASE TransmissionEnds
  <2>1. /\ UNCHANGED <<rf_rx_fifo, rf_frames, rf_pc, call_vars>> /\ arriving' \in {arriving, NoByte}
    BY <1>12 DEF TransmissionEnds, Goes
  <2> QED BY <1>1, <2>1, CallStays DEF call_vars
<1>13. CASE UNCHANGED cc1101_vars
  BY <1>1, <1>13, CallStays DEF cc1101_vars, receiving, call_vars
<1> QED BY <1>3, <1>4, <1>5, <1>6, <1>7, <1>8, <1>9, <1>10, <1>11, <1>12, <1>13 DEF Cc1101Next

\* A whole frame at the head of the FIFO is what cc1101_receive_packet returns,
\* with its own link quality, for FIFOs, buffers and frames of any size and whatever
\* arrives while it is read.
THEOREM ReceiveCorrect == Cc1101Spec => []ReceivedIsWhole
<1>1. Cc1101Init => RfInv
  <2> SUFFICES ASSUME Cc1101Init PROVE RfInv
    OBVIOUS
  <2>1. <<>> \in Seq(RfBytes)
    OBVIOUS
  <2> QED BY <2>1 DEF Cc1101Init, RfInv
<1>2. RfInv /\ [Cc1101Next]_cc1101_vars => RfInv'
  BY RfStep
<1>3. RfInv => ReceivedIsWhole
  <2> SUFFICES ASSUME RfInv, rf_pc = "idle", rf_whole
               PROVE  IF rx_status.overflow THEN rf_ret = "overflow"
                      ELSE /\ rf_ret = "packet"
                           /\ rf_buffer = [i \in 1 .. rf_buffer[1].len + 1 |->
                                             Byte(rf_buffer[1].frame, rf_buffer[1].len, i - 1)]
                           /\ link_quality = Byte(rf_buffer[1].frame, rf_buffer[1].len,
                                                  rf_buffer[1].len + 2)
    BY DEF ReceivedIsWhole, Calls
  <2>1. PICK frame \in Nat \ {0}, len \in RfLengths : ReadSoFar(frame, len)
    BY DEF RfInv
  <2>2. CASE rx_status.overflow
    BY <2>1, <2>2 DEF ReadSoFar
  <2>3. CASE ~rx_status.overflow
    <3>1. /\ rf_ret = "packet" /\ rf_buffer = LengthAndData(frame, len)
          /\ link_quality = Byte(frame, len, len + 2)
      BY <2>1, <2>3 DEF ReadSoFar
    <3>2. 1 \in 1 .. len + 1 /\ 1 - 1 = 0
      BY RfSizes
    <3>3. rf_buffer[1] = Byte(frame, len, 0)
      BY <3>1, <3>2 DEF LengthAndData
    <3>4. rf_buffer[1].len = len /\ rf_buffer[1].frame = frame
      BY <3>3 DEF Byte
    <3> QED BY <2>3, <3>1, <3>4 DEF LengthAndData
  <2> QED BY <2>2, <2>3
<1> QED BY <1>1, <1>2, <1>3, PTL DEF Cc1101Spec

----------------------------------------------------------------------------
(* The e-paper display: where each step of the two power sequences leaves  *)
(* pins and pumps, and what a frame has drawn by each of its lines.        *)

Powered == "power" \in pins /\ "discharge" \notin pins

WhileOn ==
    /\ ep_pc \in 1 .. 12
    /\ ep_pc <= 3 => pins = {}
    /\ ep_pc > 3 => Powered
    /\ ep_pc <= 8 => pumps = 0
    /\ ep_pc \in {9, 10} => pumps = 1
    /\ pwm => ep_pc <= 9

WhileOff ==
    /\ ep_pc \in 1 .. 9
    /\ ep_pc <= 7 => Powered
    /\ ep_pc >= 7 => pumps = 0
    /\ ep_pc = 8 => pins = {}
    /\ ep_pc = 9 => pins = {"discharge"}
    /\ ~pwm

\* Without power the busy pin is high, so that no line is sent; with it, the output is on.
BetweenPower ==
    /\ "discharge" \notin pins /\ ~pwm
    /\ "power" \in pins => output # "off"

PanelIsSafe ==
    /\ pumps # 0 => "power" \in pins
    /\ pwm => pumps <= 1
    /\ "discharge" \in pins => pumps = 0 /\ "power" \notin pins

PowerInv ==
    /\ ep_op \in {"none", "on", "frame", "nothing", "off"}
    /\ pumps \in Nat
    /\ PanelIsSafe
    /\ "power" \notin pins => ep_busy
    /\ ep_op = "on" => WhileOn
    /\ ep_op = "off" => WhileOff
    /\ ep_op \in {"none", "frame", "nothing"} => BetweenPower
    /\ ep_op = "nothing" =>
          last = EpLines /\ ep_line \in Nat /\ (ep_line > 0 => "power" \in pins)

\* Every step of the two sequences, from the state the one before it leaves.
LEMMA OnStepIsSafe ==
  ASSUME PowerInv, ep_op = "on", PowerStep
  PROVE  PowerInv'
<1>0. WhileOn /\ PanelIsSafe /\ pumps \in Nat
  BY DEF PowerInv
<1>1. Steps = OnSteps /\ Len(Steps) = 12 /\ ep_pc \in 1 .. 12
  BY <1>0 DEF Steps, OnSteps, WhileOn
<1>2. /\ pins' = PinsAfter(Steps[ep_pc]) /\ pumps' = PumpsAfter(Steps[ep_pc])
      /\ pwm' = IF Steps[ep_pc] = "start pwm" THEN TRUE ELSE IF Steps[ep_pc] = "stop pwm" THEN FALSE ELSE pwm
      /\ output' = IF Steps[ep_pc] = "enable" THEN "on"
                   ELSE IF Steps[ep_pc] \in {"disable", "clear pins", "reset"} THEN "off" ELSE output
      /\ "power" \notin pins' => ep_busy'
  BY DEF PowerStep, Does
<1>3. IF ep_pc = 12 THEN ep_op' = "none" ELSE ep_pc' = ep_pc + 1 /\ ep_op' = "on"
  BY <1>1 DEF PowerStep
<1>4. CASE ep_pc = 1
  <2>1. Steps[ep_pc] = "clear pins"
    BY <1>1, <1>4 DEF OnSteps
  <2>2. pins' = {} /\ pumps' = 0
    BY <1>2, <2>1 DEF PinsAfter, PumpsAfter
  <2>3. pwm' = pwm /\ output' = "off"
    BY <1>2, <2>1
  <2>4. ep_pc' = 2 /\ ep_op' = "on"
    BY <1>3, <1>4
  <2>5. WhileOn' /\ PanelIsSafe' /\ pumps' \in Nat
    BY <1>0, <1>4, <2>2, <2>3, <2>4 DEF WhileOn, PanelIsSafe, Powered
  <2> QED BY <1>0, <1>2, <2>4, <2>5 DEF PowerInv
<1>5. CASE ep_pc = 2
  <2>1. Steps[ep_pc] = "start pwm"
    BY <1>1, <1>5 DEF OnSteps
  <2>2. pins' = pins /\ pumps' = pumps
    BY <1>2, <2>1 DEF PinsAfter, PumpsAfter
  <2>3. pwm' = TRUE /\ output' = output
    BY <1>2, <2>1
  <2>4. ep_pc' = 3 /\ ep_op' = "on"
    BY <1>3, <1>5
  <2>5. WhileOn' /\ PanelIsSafe' /\ pumps' \in Nat
    BY <1>0, <1>5, <2>2, <2>3, <2>4 DEF WhileOn, PanelIsSafe, Powered
  <2> QED BY <1>0, <1>2, <2>4, <2>5 DEF PowerInv
<1>6. CASE ep_pc = 3
  <2>1. Steps[ep_pc] = "power"
    BY <1>1, <1>6 DEF OnSteps
  <2>2. pins' = {"power"} /\ pumps' = pumps
    BY <1>2, <2>1 DEF PinsAfter, PumpsAfter
  <2>3. pwm' = pwm /\ output' = output
    BY <1>2, <2>1
  <2>4. ep_pc' = 4 /\ ep_op' = "on"
    BY <1>3, <1>6
  <2>5. WhileOn' /\ PanelIsSafe' /\ pumps' \in Nat
    BY <1>0, <1>6, <2>2, <2>3, <2>4 DEF WhileOn, PanelIsSafe, Powered
  <2> QED BY <1>0, <1>2, <2>4, <2>5 DEF PowerInv
<1>7. CASE ep_pc = 4
  <2>1. Steps[ep_pc] = "release"
    BY <1>1, <1>7 DEF OnSteps
  <2>2. pins' = {"power", "reset", "border"} /\ pumps' = pumps
    BY <1>2, <2>1 DEF PinsAfter, PumpsAfter
  <2>3. pwm' = pwm /\ output' = output
    BY <1>2, <2>1
  <2>4. ep_pc' = 5 /\ ep_op' = "on"
    BY <1>3, <1>7
  <2>5. WhileOn' /\ PanelIsSafe' /\ pumps' \in Nat
    BY <1>0, <1>7, <2>2, <2>3, <2>4 DEF WhileOn, PanelIsSafe, Powered
  <2> QED BY <1>0, <1>2, <2>4, <2>5 DEF PowerInv
<1>8. CASE ep_pc = 5
  <2>1. Steps[ep_pc] = "reset"
    BY <1>1, <1>8 DEF OnSteps
  <2>2. pins' = pins \ {"reset"} /\ pumps' = 0
    BY <1>2, <2>1 DEF PinsAfter, PumpsAfter
  <2>3. pwm' = pwm /\ output' = "off"
    BY <1>2, <2>1
  <2>4. ep_pc' = 6 /\ ep_op' = "on"
    BY <1>3, <1>8
  <2>5. WhileOn' /\ PanelIsSafe' /\ pumps' \in Nat
    BY <1>0, <1>8, <2>2, <2>3, <2>4 DEF WhileOn, PanelIsSafe, Powered
  <2> QED BY <1>0, <1>2, <2>4, <2>5 DEF PowerInv
<1>9. CASE ep_pc = 6
  <2>1. Steps[ep_pc] = "release"
    BY <1>1, <1>9 DEF OnSteps
  <2>2. pins' = {"power", "reset", "border"} /\ pumps' = pumps
    BY <1>2, <2>1 DEF PinsAfter, PumpsAfter
  <2>3. pwm' = pwm /\ output' = output
    BY <1>2, <2>1
  <2>4. ep_pc' = 7 /\ ep_op' = "on"
    BY <1>3, <1>9
  <2>5. WhileOn' /\ PanelIsSafe' /\ pumps' \in Nat
    BY <1>0, <1>9, <2>2, <2>3, <2>4 DEF WhileOn, PanelIsSafe, Powered
  <2> QED BY <1>0, <1>2, <2>4, <2>5 DEF PowerInv
<1>10. CASE ep_pc = 7
  <2>1. Steps[ep_pc] = "settings"
    BY <1>1, <1>10 DEF OnSteps
  <2>2. pins' = pins /\ pumps' = pumps
    BY <1>2, <2>1 DEF PinsAfter, PumpsAfter
  <2>3. pwm' = pwm /\ output' = output
    BY <1>2, <2>1
  <2>4. ep_pc' = 8 /\ ep_op' = "on"
    BY <1>3, <1>10
  <2>5. WhileOn' /\ PanelIsSafe' /\ pumps' \in Nat
    BY <1>0, <1>10, <2>2, <2>3, <2>4 DEF WhileOn, PanelIsSafe, Powered
  <2> QED BY <1>0, <1>2, <2>4, <2>5 DEF PowerInv
<1>11. CASE ep_pc = 8
  <2>1. Steps[ep_pc] = "pump 1"
    BY <1>1, <1>11 DEF OnSteps
  <2>2. pins' = pins /\ pumps' = 1
    BY <1>2, <2>1 DEF PinsAfter, PumpsAfter
  <2>3. pwm' = pwm /\ output' = output
    BY <1>2, <2>1
  <2>4. ep_pc' = 9 /\ ep_op' = "on"
    BY <1>3, <1>11
  <2>5. WhileOn' /\ PanelIsSafe' /\ pumps' \in Nat
    BY <1>0, <1>11, <2>2, <2>3, <2>4 DEF WhileOn, PanelIsSafe, Powered
  <2> QED BY <1>0, <1>2, <2>4, <2>5 DEF PowerInv
<1>12. CASE ep_pc = 9
  <2>1. Steps[ep_pc] = "stop pwm"
    BY <1>1, <1>12 DEF OnSteps
  <2>2. pins' = pins /\ pumps' = pumps
    BY <1>2, <2>1 DEF PinsAfter, PumpsAfter
  <2>3. pwm' = FALSE /\ output' = output
    BY <1>2, <2>1
  <2>4. ep_pc' = 10 /\ ep_op' = "on"
    BY <1>3, <1>12
  <2>5. WhileOn' /\ PanelIsSafe' /\ pumps' \in Nat
    BY <1>0, <1>12, <2>2, <2>3, <2>4 DEF WhileOn, PanelIsSafe, Powered
  <2> QED BY <1>0, <1>2, <2>4, <2>5 DEF PowerInv
<1>13. CASE ep_pc = 10
  <2>1. Steps[ep_pc] = "pump 3"
    BY <1>1, <1>13 DEF OnSteps
  <2>2. pins' = pins /\ pumps' = 3
    BY <1>2, <2>1 DEF PinsAfter, PumpsAfter
  <2>3. pwm' = pwm /\ output' = output
    BY <1>2, <2>1
  <2>4. ep_pc' = 11 /\ ep_op' = "on"
    BY <1>3, <1>13
  <2>5. WhileOn' /\ PanelIsSafe' /\ pumps' \in Nat
    BY <1>0, <1>13, <2>2, <2>3, <2>4 DEF WhileOn, PanelIsSafe, Powered
  <2> QED BY <1>0, <1>2, <2>4, <2>5 DEF PowerInv
<1>14. CASE ep_pc = 11
  <2>1. Steps[ep_pc] = "pump 15"
    BY <1>1, <1>14 DEF OnSteps
  <2>2. pins' = pins /\ pumps' = 15
    BY <1>2, <2>1 DEF PinsAfter, PumpsAfter
  <2>3. pwm' = pwm /\ output' = output
    BY <1>2, <2>1
  <2>4. ep_pc' = 12 /\ ep_op' = "on"
    BY <1>3, <1>14
  <2>5. WhileOn' /\ PanelIsSafe' /\ pumps' \in Nat
    BY <1>0, <1>14, <2>2, <2>3, <2>4 DEF WhileOn, PanelIsSafe, Powered
  <2> QED BY <1>0, <1>2, <2>4, <2>5 DEF PowerInv
<1>15. CASE ep_pc = 12
  <2>1. Steps[ep_pc] = "enable"
    BY <1>1, <1>15 DEF OnSteps
  <2>2. pins' = pins /\ pumps' = pumps
    BY <1>2, <2>1 DEF PinsAfter, PumpsAfter
  <2>3. pwm' = pwm /\ output' = "on"
    BY <1>2, <2>1
  <2>4. ep_op' = "none"
    BY <1>3, <1>15
  <2>5. BetweenPower' /\ PanelIsSafe' /\ pumps' \in Nat
    BY <1>0, <1>15, <2>2, <2>3 DEF WhileOn, BetweenPower, PanelIsSafe, Powered
  <2> QED BY <1>0, <1>2, <2>4, <2>5 DEF PowerInv
<1> QED BY <1>1, <1>4, <1>5, <1>6, <1>7, <1>8, <1>9, <1>10, <1>11, <1>12, <1>13, <1>14, <1>15

\* epaper_off, likewise.
LEMMA OffStepIsSafe ==
  ASSUME PowerInv, ep_op = "off", PowerStep
  PROVE  PowerInv'
<1>0. WhileOff /\ PanelIsSafe /\ pumps \in Nat
  BY DEF PowerInv
<1>1. Steps = OffSteps /\ Len(Steps) = 9 /\ ep_pc \in 1 .. 9
  BY <1>0 DEF Steps, OffSteps, WhileOff
<1>2. /\ pins' = PinsAfter(Steps[ep_pc]) /\ pumps' = PumpsAfter(Steps[ep_pc])
      /\ pwm' = IF Steps[ep_pc] = "start pwm" THEN TRUE ELSE IF Steps[ep_pc] = "stop pwm" THEN FALSE ELSE pwm
      /\ output' = IF Steps[ep_pc] = "enable" THEN "on"
                   ELSE IF Steps[ep_pc] \in {"disable", "clear pins", "reset"} THEN "off" ELSE output
      /\ "power" \notin pins' => ep_busy'
  BY DEF PowerStep, Does
<1>3. IF ep_pc = 9 THEN ep_op' = "none" ELSE ep_pc' = ep_pc + 1 /\ ep_op' = "off"
  BY <1>1 DEF PowerStep
<1>4. CASE ep_pc = 1
  <2>1. Steps[ep_pc] = "border"
    BY <1>1, <1>4 DEF OffSteps
  <2>2. pins' = pins \ {"border"} /\ pumps' = pumps
    BY <1>2, <2>1 DEF PinsAfter, PumpsAfter
  <2>3. pwm' = pwm /\ output' = output
    BY <1>2, <2>1
  <2>4. ep_pc' = 2 /\ ep_op' = "off"
    BY <1>3, <1>4
  <2>5. WhileOff' /\ PanelIsSafe' /\ pumps' \in Nat
    BY <1>0, <1>4, <2>2, <2>3, <2>4 DEF WhileOff, PanelIsSafe, Powered
  <2> QED BY <1>0, <1>2, <2>4, <2>5 DEF PowerInv
<1>5. CASE ep_pc = 2
  <2>1. Steps[ep_pc] = "release"
    BY <1>1, <1>5 DEF OffSteps
  <2>2. pins' = {"power", "reset", "border"} /\ pumps' = pumps
    BY <1>2, <2>1 DEF PinsAfter, PumpsAfter
  <2>3. pwm' = pwm /\ output' = output
    BY <1>2, <2>1
  <2>4. ep_pc' = 3 /\ ep_op' = "off"
    BY <1>3, <1>5
  <2>5. WhileOff' /\ PanelIsSafe' /\ pumps' \in Nat
    BY <1>0, <1>5, <2>2, <2>3, <2>4 DEF WhileOff, PanelIsSafe, Powered
  <2> QED BY <1>0, <1>2, <2>4, <2>5 DEF PowerInv
<1>6. CASE ep_pc = 3
  <2>1. Steps[ep_pc] = "disable"
    BY <1>1, <1>6 DEF OffSteps
  <2>2. pins' = pins /\ pumps' = pumps
    BY <1>2, <2>1 DEF PinsAfter, PumpsAfter
  <2>3. pwm' = pwm /\ output' = "off"
    BY <1>2, <2>1
  <2>4. ep_pc' = 4 /\ ep_op' = "off"
    BY <1>3, <1>6
  <2>5. WhileOff' /\ PanelIsSafe' /\ pumps' \in Nat
    BY <1>0, <1>6, <2>2, <2>3, <2>4 DEF WhileOff, PanelIsSafe, Powered
  <2> QED BY <1>0, <1>2, <2>4, <2>5 DEF PowerInv
<1>7. CASE ep_pc = 4
  <2>1. Steps[ep_pc] = "pump 14"
    BY <1>1, <1>7 DEF OffSteps
  <2>2. pins' = pins /\ pumps' = 14
    BY <1>2, <2>1 DEF PinsAfter, PumpsAfter
  <2>3. pwm' = pwm /\ output' = output
    BY <1>2, <2>1
  <2>4. ep_pc' = 5 /\ ep_op' = "off"
    BY <1>3, <1>7
  <2>5. WhileOff' /\ PanelIsSafe' /\ pumps' \in Nat
    BY <1>0, <1>7, <2>2, <2>3, <2>4 DEF WhileOff, PanelIsSafe, Powered
  <2> QED BY <1>0, <1>2, <2>4, <2>5 DEF PowerInv
<1>8. CASE ep_pc = 5
  <2>1. Steps[ep_pc] = "pump 2"
    BY <1>1, <1>8 DEF OffSteps
  <2>2. pins' = pins /\ pumps' = 2
    BY <1>2, <2>1 DEF PinsAfter, PumpsAfter
  <2>3. pwm' = pwm /\ output' = output
    BY <1>2, <2>1
  <2>4. ep_pc' = 6 /\ ep_op' = "off"
    BY <1>3, <1>8
  <2>5. WhileOff' /\ PanelIsSafe' /\ pumps' \in Nat
    BY <1>0, <1>8, <2>2, <2>3, <2>4 DEF WhileOff, PanelIsSafe, Powered
  <2> QED BY <1>0, <1>2, <2>4, <2>5 DEF PowerInv
<1>9. CASE ep_pc = 6
  <2>1. Steps[ep_pc] = "pump 0"
    BY <1>1, <1>9 DEF OffSteps
  <2>2. pins' = pins /\ pumps' = 0
    BY <1>2, <2>1 DEF PinsAfter, PumpsAfter
  <2>3. pwm' = pwm /\ output' = output
    BY <1>2, <2>1
  <2>4. ep_pc' = 7 /\ ep_op' = "off"
    BY <1>3, <1>9
  <2>5. WhileOff' /\ PanelIsSafe' /\ pumps' \in Nat
    BY <1>0, <1>9, <2>2, <2>3, <2>4 DEF WhileOff, PanelIsSafe, Powered
  <2> QED BY <1>0, <1>2, <2>4, <2>5 DEF PowerInv
<1>10. CASE ep_pc = 7
  <2>1. Steps[ep_pc] = "power off"
    BY <1>1, <1>10 DEF OffSteps
  <2>2. pins' = {} /\ pumps' = 0
    BY <1>2, <2>1 DEF PinsAfter, PumpsAfter
  <2>3. pwm' = pwm /\ output' = output
    BY <1>2, <2>1
  <2>4. ep_pc' = 8 /\ ep_op' = "off"
    BY <1>3, <1>10
  <2>5. WhileOff' /\ PanelIsSafe' /\ pumps' \in Nat
    BY <1>0, <1>10, <2>2, <2>3, <2>4 DEF WhileOff, PanelIsSafe, Powered
  <2> QED BY <1>0, <1>2, <2>4, <2>5 DEF PowerInv
<1>11. CASE ep_pc = 8
  <2>1. Steps[ep_pc] = "discharge"
    BY <1>1, <1>11 DEF OffSteps
  <2>2. pins' = {"discharge"} /\ pumps' = pumps
    BY <1>2, <2>1 DEF PinsAfter, PumpsAfter
  <2>3. pwm' = pwm /\ output' = output
    BY <1>2, <2>1
  <2>4. ep_pc' = 9 /\ ep_op' = "off"
    BY <1>3, <1>11
  <2>5. WhileOff' /\ PanelIsSafe' /\ pumps' \in Nat
    BY <1>0, <1>11, <2>2, <2>3, <2>4 DEF WhileOff, PanelIsSafe, Powered
  <2> QED BY <1>0, <1>2, <2>4, <2>5 DEF PowerInv
<1>12. CASE ep_pc = 9
  <2>1. Steps[ep_pc] = "discharged"
    BY <1>1, <1>12 DEF OffSteps
  <2>2. pins' = {} /\ pumps' = pumps
    BY <1>2, <2>1 DEF PinsAfter, PumpsAfter
  <2>3. pwm' = pwm /\ output' = output
    BY <1>2, <2>1
  <2>4. ep_op' = "none"
    BY <1>3, <1>12
  <2>5. BetweenPower' /\ PanelIsSafe' /\ pumps' \in Nat
    BY <1>0, <1>12, <2>2, <2>3 DEF WhileOff, BetweenPower, PanelIsSafe, Powered
  <2> QED BY <1>0, <1>2, <2>4, <2>5 DEF PowerInv
<1> QED BY <1>1, <1>4, <1>5, <1>6, <1>7, <1>8, <1>9, <1>10, <1>11, <1>12

\* Between the sequences the power stays as it is; a frame is sent only to a panel that has it.
LEMMA PanelStaysSafe ==
  ASSUME PowerInv, [EpaperNext]_ep_vars
  PROVE  PowerInv'
<1>0. /\ ep_op \in {"none", "on", "frame", "nothing", "off"} /\ pumps \in Nat
      /\ PanelIsSafe /\ ("power" \notin pins => ep_busy)
      /\ (ep_op \in {"none", "frame", "nothing"} => BetweenPower)
      /\ EpLines \in Nat \ {0}
  BY EpaperConstants DEF PowerInv
<1>1. CASE PowerStep
  <2>1. ep_op = "on" \/ ep_op = "off"
    BY <1>1 DEF PowerStep
  <2> QED BY <1>1, <2>1, OnStepIsSafe, OffStepIsSafe
<1>2. CASE epaper_on
  <2>1. /\ ep_op = "none" /\ pins = {} /\ ep_op' = "on" /\ ep_pc' = 1
        /\ UNCHANGED <<pins, pwm, pumps, ep_busy, ep_line>>
    BY <1>2 DEF epaper_on, power_vars, frame_vars
  <2>2. WhileOn' /\ PanelIsSafe'
    BY <1>0, <2>1 DEF WhileOn, PanelIsSafe, BetweenPower
  <2> QED BY <1>0, <2>1, <2>2 DEF PowerInv
<1>3. CASE epaper_send_frame
  <2>1. ep_op = "none" /\ ep_op' = "frame" /\ UNCHANGED <<pins, pwm, pumps, output, ep_busy>>
    BY <1>3 DEF epaper_send_frame, BeginDrawing, power_vars
  <2>2. PanelIsSafe' /\ BetweenPower'
    BY <1>0, <2>1 DEF PanelIsSafe, BetweenPower
  <2> QED BY <1>0, <2>1, <2>2 DEF PowerInv
<1>4. CASE epaper_off
  <2>1. /\ ep_op = "none" /\ ep_op' = "nothing" /\ ep_line' = 0 /\ last' = EpLines
        /\ UNCHANGED <<pins, pwm, pumps, output, ep_busy>>
    BY <1>4 DEF epaper_off, BeginDrawing, power_vars
  <2>2. PanelIsSafe' /\ BetweenPower'
    BY <1>0, <2>1 DEF PanelIsSafe, BetweenPower
  <2> QED BY <1>0, <2>1, <2>2 DEF PowerInv
<1>5. CASE epaper_send_data_line
  <2>1. /\ ep_op \in {"frame", "nothing"} /\ ~ep_busy /\ output' = "panel" /\ ep_line' = ep_line + 1
        /\ UNCHANGED <<pins, pwm, pumps, ep_busy, ep_op, last>>
    BY <1>5 DEF epaper_send_data_line, ep_call
  <2>2. "power" \in pins
    BY <1>0, <2>1
  <2>3. PanelIsSafe' /\ BetweenPower'
    BY <1>0, <2>1 DEF PanelIsSafe, BetweenPower
  <2>4. ep_op = "nothing" => last = EpLines /\ ep_line \in Nat
    BY DEF PowerInv
  <2>5. ep_op = "nothing" => ep_line' \in Nat
    BY <2>1, <2>4
  <2> QED BY <1>0, <2>1, <2>2, <2>3, <2>4, <2>5 DEF PowerInv
<1>6. CASE NextRound
  <2>1. ep_op = "frame" /\ ep_op' \in {"frame", "none"} /\ UNCHANGED <<pins, pwm, pumps, output, ep_busy>>
    BY <1>6 DEF NextRound, power_vars, ep_call
  <2>2. PanelIsSafe' /\ BetweenPower'
    BY <1>0, <2>1 DEF PanelIsSafe, BetweenPower
  <2> QED BY <1>0, <2>1, <2>2 DEF PowerInv
<1>7. CASE NothingSent
  <2>1. /\ ep_op = "nothing" /\ ep_line > last /\ ep_op' = "off" /\ ep_pc' = 1
        /\ UNCHANGED <<pins, pwm, pumps, ep_busy, ep_line>>
    BY <1>7 DEF NothingSent, power_vars, frame_vars
  <2>2. last = EpLines /\ ep_line \in Nat /\ (ep_line > 0 => "power" \in pins)
    BY <2>1 DEF PowerInv
  <2>3. ep_line > 0
    BY <1>0, <2>1, <2>2
  <2>4. WhileOff' /\ PanelIsSafe'
    BY <1>0, <2>1, <2>2, <2>3 DEF WhileOff, PanelIsSafe, BetweenPower, Powered
  <2> QED BY <1>0, <2>1, <2>4 DEF PowerInv
<1>8. CASE BusyChanges
  <2>1. "power" \in pins /\ UNCHANGED <<pins, pwm, pumps, output, ep_op, ep_pc, ep_line, last>>
    BY <1>8 DEF BusyChanges, power_vars, ep_call, frame_vars
  <2> QED BY <2>1 DEF PowerInv, PanelIsSafe, BetweenPower, WhileOn, WhileOff, Powered
<1>9. CASE EpBoardRestarts
  <2>1. pins' = {} /\ pwm' = FALSE /\ pumps' = 0 /\ ep_busy' = TRUE /\ ep_op' = "none" /\ ep_line' = 0
    BY <1>9 DEF EpBoardRestarts
  <2>2. PanelIsSafe' /\ BetweenPower'
    BY <2>1 DEF PanelIsSafe, BetweenPower
  <2> QED BY <2>1, <2>2 DEF PowerInv
<1>10. CASE EpTick \/ UNCHANGED ep_vars
  <2>1. UNCHANGED <<pins, pwm, pumps, output, ep_busy, ep_op, ep_pc, ep_line, last>>
    BY <1>10 DEF EpTick, ep_vars, power_vars, ep_call, frame_vars
  <2> QED BY <2>1 DEF PowerInv, PanelIsSafe, BetweenPower, WhileOn, WhileOff, Powered
<1> QED BY <1>1, <1>2, <1>3, <1>4, <1>5, <1>6, <1>7, <1>8, <1>9, <1>10 DEF EpaperNext

\* What a frame has drawn by each of its lines, and for how long it has gone on.
WhileDrawing ==
    /\ drawn.stage = "nothing" /\ stage \in Stages
    /\ first \in Nat /\ last \in EpLineNumbers /\ ep_line \in Nat /\ ep_line >= first
    /\ ep_line <= last + 1
    /\ \A i \in first .. ep_line - 1 : shown[i] = stage

OnTime == ep_op = "frame" /\ ep_since < StageTime => tick = (start_tick + ep_since) % TickWrap

DrawnShows ==
    drawn.stage # "nothing" =>
         /\ ep_since = StageTime \/ stage # drawn.stage
         /\ \A i \in drawn.lines : shown[i] = drawn.stage

DrawTypes ==
    /\ drawn \in [calls: Int, stage: Stages \cup {"nothing"}, lines: SUBSET EpLineNumbers]
    /\ shown \in [EpLineNumbers -> Stages \cup {"blank"}]
    /\ ep_since \in Nat /\ ep_since <= StageTime
    /\ tick \in 0 .. TickWrap - 1 /\ start_tick \in 0 .. TickWrap - 1

DrawInv ==
    /\ DrawTypes /\ OnTime /\ DrawnShows
    /\ ep_op = "frame" => WhileDrawing
    /\ ep_op = "nothing" => stage = "nothing"

\* The counter has advanced by the ticks that have passed, over its wrap too.
LEMMA TicksAreCounted ==
  ASSUME DrawTypes, OnTime, EpTick
  PROVE  DrawTypes' /\ OnTime'
<1>0. StageTime \in 0 .. TickWrap - 1 /\ TickWrap \in Nat \ {0}
  BY EpaperConstants
<1>1. /\ tick' = (tick + 1) % TickWrap
      /\ ep_since' = IF ep_since < StageTime THEN ep_since + 1 ELSE ep_since
      /\ ep_op = "frame" /\ UNCHANGED <<start_tick, shown, drawn, ep_op>>
  BY DEF EpTick, frame_vars, ep_call
<1>2. tick' \in 0 .. TickWrap - 1
  <2>1. tick + 1 \in Int
    BY DEF DrawTypes
  <2> QED BY <1>0, <1>1, <2>1, DivMod
<1>3. DrawTypes'
  BY <1>0, <1>1, <1>2 DEF DrawTypes
<1>4. ASSUME ep_since' < StageTime PROVE tick' = (start_tick' + ep_since') % TickWrap
  <2>1. ep_since < StageTime /\ ep_since' = ep_since + 1
    BY <1>0, <1>1, <1>4 DEF DrawTypes
  <2>2. tick = (start_tick + ep_since) % TickWrap
    BY <1>1, <2>1 DEF OnTime
  <2>3. start_tick + ep_since \in Nat /\ start_tick' + ep_since' = (start_tick + ep_since) + 1
    BY <1>0, <1>1, <2>1 DEF DrawTypes
  <2> QED BY <1>0, <1>1, <2>2, <2>3, ModNext
<1> QED BY <1>3, <1>4 DEF OnTime

\* A stage that is over has lasted its whole time.
LEMMA StageHasLasted ==
  ASSUME DrawTypes, OnTime, ep_op = "frame", ~TimeLeft
  PROVE  ep_since = StageTime
<1>0. StageTime \in 0 .. TickWrap - 1 /\ TickWrap \in Nat \ {0}
  BY EpaperConstants
<1> SUFFICES ASSUME ep_since < StageTime PROVE FALSE
  BY <1>0 DEF DrawTypes
<1>1. tick = (start_tick + ep_since) % TickWrap
  BY DEF OnTime
<1>2. PICK b \in Nat : b = start_tick + ep_since /\ b - start_tick = ep_since
  BY <1>0 DEF DrawTypes
<1>3. start_tick \in Nat /\ start_tick <= b /\ b - start_tick < TickWrap
  BY <1>0, <1>2 DEF DrawTypes
<1>4. start_tick % TickWrap = start_tick
  BY <1>0 DEF DrawTypes
<1>5. (tick - start_tick) % TickWrap = ep_since
  BY <1>0, <1>1, <1>2, <1>3, <1>4, ModDiff
<1> QED BY <1>5 DEF TimeLeft, DrawTypes

\* No step of the panel leaves a line of the frame undrawn, or counts its stage's time wrong.
LEMMA DrawnStays ==
  ASSUME PowerInv, DrawInv, [EpaperNext]_ep_vars
  PROVE  DrawInv'
<1>0. /\ DrawTypes /\ OnTime /\ DrawnShows
      /\ (ep_op = "frame" => WhileDrawing) /\ (ep_op = "nothing" => stage = "nothing")
      /\ StageTime \in 0 .. TickWrap - 1 /\ TickWrap \in Nat \ {0} /\ "nothing" \notin Stages
      /\ EpLines \in Nat \ {0}
  BY EpaperConstants DEF DrawInv
<1>1. CASE epaper_on \/ PowerStep \/ NothingSent
  <2>1. UNCHANGED <<frame_vars, tick, ep_since, shown, drawn>> /\ ep_op' \in {"none", "on", "off"}
    BY <1>1 DEF epaper_on, PowerStep, NothingSent
  <2> QED BY <1>0, <2>1 DEF DrawInv, DrawTypes, OnTime, DrawnShows, frame_vars
<1>2. CASE epaper_send_frame
  <2>1. PICK what \in Stages, a \in EpLineNumbers, b \in EpLineNumbers :
           a <= b /\ BeginDrawing(what, a, b)
    BY <1>2 DEF epaper_send_frame
  <2>2. /\ stage' = what /\ first' = a /\ last' = b /\ ep_line' = a /\ start_tick' = tick
        /\ ep_since' = 0 /\ UNCHANGED <<tick, shown>>
    BY <2>1 DEF BeginDrawing
  <2>3. ep_op' = "frame" /\ drawn' = [calls |-> drawn.calls + 1, stage |-> "nothing", lines |-> {}]
    BY <1>2 DEF epaper_send_frame
  <2>4. DrawTypes'
    BY <1>0, <2>2, <2>3 DEF DrawTypes
  <2>5. OnTime'
    BY <1>0, <2>2 DEF DrawTypes, OnTime
  <2>6. WhileDrawing'
    BY <2>1, <2>2, <2>3 DEF WhileDrawing, EpLineNumbers
  <2>7. DrawnShows'
    BY <2>3 DEF DrawnShows
  <2> QED BY <2>3, <2>4, <2>5, <2>6, <2>7 DEF DrawInv
<1>3. CASE epaper_off
  <2>1. /\ stage' = "nothing" /\ start_tick' = tick /\ ep_since' = 0
        /\ ep_op' = "nothing" /\ UNCHANGED <<tick, shown, drawn>>
    BY <1>3 DEF epaper_off, BeginDrawing
  <2>2. DrawTypes'
    BY <1>0, <2>1 DEF DrawTypes
  <2>3. DrawnShows'
    BY <1>0, <2>1 DEF DrawnShows
  <2> QED BY <2>1, <2>2, <2>3 DEF DrawInv, OnTime
<1>4. CASE epaper_send_data_line
  <2>1. /\ ep_op \in {"frame", "nothing"} /\ ep_line <= last /\ ~ep_busy /\ ep_line' = ep_line + 1
        /\ shown' = IF stage = "nothing" \/ output = "off" THEN shown
                    ELSE [shown EXCEPT ![ep_line] = stage]
        /\ UNCHANGED <<ep_op, stage, first, last, start_tick, tick, ep_since, drawn>>
    BY <1>4 DEF epaper_send_data_line, ep_call
  <2>2. CASE ep_op = "nothing"
    <3>1. UNCHANGED <<ep_op, stage, start_tick, tick, ep_since, drawn, shown>> /\ stage = "nothing"
      BY <1>0, <2>1, <2>2
    <3> QED BY <1>0, <2>2, <3>1 DEF DrawInv, DrawTypes, OnTime, DrawnShows
  <2>3. CASE ep_op = "frame"
    <3>1. output # "off"
      BY <2>1, <2>3 DEF PowerInv, BetweenPower
    <3>2. WhileDrawing /\ stage # "nothing"
      BY <1>0, <2>3 DEF WhileDrawing
    <3>3. ep_line \in EpLineNumbers
      BY <1>0, <2>1, <3>2 DEF WhileDrawing, EpLineNumbers
    <3>4. shown' = [shown EXCEPT ![ep_line] = stage]
      BY <2>1, <3>1, <3>2
    <3>5. DrawTypes'
      BY <1>0, <2>1, <3>2, <3>4 DEF DrawTypes, WhileDrawing
    <3>6. \A i \in first .. ep_line : shown'[i] = stage
      <4> SUFFICES ASSUME NEW i \in first .. ep_line PROVE shown'[i] = stage
        OBVIOUS
      <4>1. i \in EpLineNumbers /\ (i = ep_line \/ i \in first .. ep_line - 1)
        <5>1. first \in Nat /\ ep_line \in Nat /\ ep_line < EpLines
          BY <1>0, <3>2, <3>3 DEF WhileDrawing, EpLineNumbers
        <5> QED BY <1>0, <5>1 DEF EpLineNumbers
      <4>2. shown'[i] = IF i = ep_line THEN stage ELSE shown[i]
        BY <1>0, <3>3, <3>4, <4>1 DEF DrawTypes
      <4> QED BY <3>2, <4>1, <4>2 DEF WhileDrawing
    <3>7. WhileDrawing'
      <4>1. first .. ep_line' - 1 = first .. ep_line
        BY <2>1, <3>2 DEF WhileDrawing
      <4>2. \A i \in first' .. ep_line' - 1 : shown'[i] = stage'
        BY <2>1, <3>6, <4>1
      <4> QED BY <1>0, <2>1, <3>2, <4>2 DEF WhileDrawing, EpLineNumbers
    <3>8. OnTime' /\ DrawnShows'
      BY <1>0, <2>1, <3>2 DEF OnTime, DrawnShows, WhileDrawing
    <3> QED BY <2>1, <2>3, <3>5, <3>7, <3>8 DEF DrawInv
  <2> QED BY <2>1, <2>2, <2>3
<1>5. CASE NextRound
  <2>1. ep_op = "frame" /\ ep_line > last /\ UNCHANGED <<stage, first, last, tick, start_tick, ep_since, shown>>
    BY <1>5 DEF NextRound
  <2>2. WhileDrawing
    BY <1>0, <2>1
  <2>3. CASE TimeLeft
    <3>1. ep_line' = first /\ UNCHANGED <<ep_op, drawn>>
      BY <1>5, <2>3 DEF NextRound, ep_call
    <3>2. WhileDrawing'
      BY <1>0, <2>1, <2>2, <3>1 DEF WhileDrawing, EpLineNumbers
    <3>3. DrawTypes' /\ OnTime' /\ DrawnShows'
      BY <1>0, <2>1, <3>1 DEF DrawTypes, OnTime, DrawnShows
    <3> QED BY <2>1, <3>1, <3>2, <3>3 DEF DrawInv
  <2>4. CASE ~TimeLeft
    <3>1. ep_op' = "none" /\ drawn' = [drawn EXCEPT !.stage = stage, !.lines = first .. last]
      BY <1>5, <2>4 DEF NextRound
    <3>2. drawn'.stage = stage /\ drawn'.lines = first .. last
      BY <1>0, <3>1 DEF DrawTypes
    <3>3. first .. last \subseteq EpLineNumbers
      BY <1>0, <2>2 DEF WhileDrawing, EpLineNumbers
    <3>4. DrawTypes'
      <4>1. stage \in Stages
        BY <2>2 DEF WhileDrawing
      <4>2. drawn' \in [calls: Int, stage: Stages \cup {"nothing"}, lines: SUBSET EpLineNumbers]
        BY <1>0, <3>1, <3>3, <4>1 DEF DrawTypes
      <4> QED BY <1>0, <2>1, <4>2 DEF DrawTypes
    <3>5. ep_since' = StageTime
      BY <1>0, <2>1, <2>4, StageHasLasted
    <3>6. \A i \in drawn'.lines : shown'[i] = drawn'.stage
      <4>1. first .. last \subseteq first .. ep_line - 1
        BY <1>0, <2>1, <2>2 DEF WhileDrawing, EpLineNumbers
      <4> QED BY <2>1, <2>2, <3>2, <4>1 DEF WhileDrawing
    <3>7. DrawnShows'
      BY <3>5, <3>6 DEF DrawnShows
    <3> QED BY <3>1, <3>4, <3>7 DEF DrawInv, OnTime
  <2> QED BY <2>3, <2>4
<1>6. CASE EpTick
  <2>1. DrawTypes' /\ OnTime'
    BY <1>0, <1>6, TicksAreCounted
  <2>2. ep_op = "frame" /\ UNCHANGED <<ep_op, frame_vars, shown, drawn>>
    BY <1>6 DEF EpTick, ep_call
  <2>3. WhileDrawing
    BY <1>0, <2>2
  <2>4. WhileDrawing'
    BY <2>2, <2>3 DEF WhileDrawing, frame_vars
  <2>5. DrawnShows'
    BY <2>2, <2>3 DEF DrawnShows, WhileDrawing
  <2> QED BY <2>1, <2>2, <2>4, <2>5 DEF DrawInv
<1>7. CASE EpBoardRestarts
  <2>1. /\ ep_op' = "none" /\ tick' = 0 /\ ep_since' = 0 /\ stage' = "nothing" /\ start_tick' = 0
        /\ UNCHANGED shown
        /\ drawn' = IF ep_op = "frame" THEN [drawn EXCEPT !.stage = "nothing", !.lines = {}] ELSE drawn
    BY <1>7 DEF EpBoardRestarts
  <2>2. DrawTypes' /\ DrawnShows'
    <3>1. CASE ep_op = "frame"
      <4>1. drawn' = [drawn EXCEPT !.stage = "nothing", !.lines = {}]
        BY <2>1, <3>1
      <4>2. drawn'.stage = "nothing"
        BY <1>0, <4>1 DEF DrawTypes
      <4>3. drawn' \in [calls: Int, stage: Stages \cup {"nothing"}, lines: SUBSET EpLineNumbers]
        BY <1>0, <4>1 DEF DrawTypes
      <4> QED BY <1>0, <2>1, <4>2, <4>3 DEF DrawTypes, DrawnShows
    <3>2. CASE ep_op # "frame"
      BY <1>0, <2>1, <3>2 DEF DrawTypes, DrawnShows
    <3> QED BY <3>1, <3>2
  <2> QED BY <2>1, <2>2 DEF DrawInv, OnTime
<1>8. CASE BusyChanges \/ UNCHANGED ep_vars
  <2>1. UNCHANGED <<ep_op, frame_vars, tick, ep_since, shown, drawn>>
    BY <1>8 DEF BusyChanges, ep_vars, ep_call
  <2> QED BY <1>0, <2>1 DEF DrawInv, DrawTypes, OnTime, DrawnShows, WhileDrawing, frame_vars
<1> QED BY <1>1, <1>2, <1>3, <1>4, <1>5, <1>6, <1>7, <1>8 DEF EpaperNext

\* The panel is never driven without its power nor too hard, and is discharged last; a
\* stage lasts its time and its lines stay, through ends of power and restarts of the board.
THEOREM EpaperStaysSafe == EpaperSpec => []EpaperIsSafe
<1>1. EpaperInit => PowerInv /\ DrawInv
  <2> SUFFICES ASSUME EpaperInit PROVE PowerInv /\ DrawInv
    OBVIOUS
  <2>1. PowerInv
    BY DEF EpaperInit, PowerInv, PanelIsSafe, BetweenPower
  <2>2. DrawTypes
    BY EpaperConstants DEF EpaperInit, DrawTypes
  <2>3. OnTime /\ DrawnShows /\ ep_op = "none"
    BY DEF EpaperInit, OnTime, DrawnShows
  <2> QED BY <2>1, <2>2, <2>3 DEF DrawInv
<1>2. (PowerInv /\ DrawInv) /\ [EpaperNext]_ep_vars => (PowerInv /\ DrawInv)'
  BY PanelStaysSafe, DrawnStays
<1>3. PowerInv /\ DrawInv => EpaperIsSafe
  BY DEF PowerInv, DrawInv, PanelIsSafe, DrawnShows, EpaperIsSafe
<1> QED BY <1>1, <1>2, <1>3, PTL DEF EpaperSpec

----------------------------------------------------------------------------
(* Ws2812: the chain of leds.  The colours asked for since the buffer was *)
(* cleared are in it, each at the last place it was set, and none of them  *)
(* is beyond the highest led.                                              *)

LedAsks == [led: Leds, colour: Colours]
LastOf(i) == \A j \in i + 1 .. Len(ws_asked) : ws_asked[j].led # ws_asked[i].led

WsInv ==
    /\ max_led \in Leds /\ DOMAIN led_data = Leds /\ led_data = [p \in Leds |-> led_data[p]]
    /\ ws_asked \in Seq(LedAsks)
    /\ \A i \in 1 .. Len(ws_asked) :
          /\ ws_asked[i].led <= max_led
          /\ LastOf(i) => led_data[ws_asked[i].led] = ws_asked[i].colour
    /\ FrameShowsAll

\* A frame of all leds shows on each the last colour it was given since the buffer was
\* cleared, whichever leds were set, in whatever order and for chains of any length.
THEOREM FramesShowAll == WsSpec => []FrameShowsAll
<1>0. NB_LEDS \in Nat \ {0}
  BY WsSizes
<1>1. WsInit => WsInv
  <2> SUFFICES ASSUME WsInit PROVE WsInv
    OBVIOUS
  <2>1. ws_asked = << >> /\ ws_asked \in Seq(LedAsks) /\ Len(ws_asked) = 0
    BY DEF WsInit
  <2> QED BY <1>0, <2>1 DEF WsInit, WsInv, Leds, FrameShowsAll
<1>2. WsInv /\ [WsNext]_ws_vars => WsInv'
  <2> SUFFICES ASSUME WsInv, [WsNext]_ws_vars PROVE WsInv'
    OBVIOUS
  <2>0. /\ max_led \in Leds /\ led_data = [p \in Leds |-> led_data[p]]
        /\ ws_asked \in Seq(LedAsks) /\ Len(ws_asked) \in Nat
        /\ \A i \in 1 .. Len(ws_asked) : ws_asked[i] \in LedAsks
    BY DEF WsInv
  <2>1. CASE ws2812_send_frame
    <3>1. UNCHANGED <<led_data, max_led, ws_asked>>
      BY <2>1 DEF ws2812_send_frame
    <3>2. ASSUME ws_ret' = "all" PROVE led_shown' = [p \in Leds |-> IF p <= max_led THEN led_data[p] ELSE led_shown[p]]
      BY <2>1, <3>2 DEF ws2812_send_frame, ws2812_bit_sender
    <3>3. FrameShowsAll'
      <4> SUFFICES ASSUME ws_ret' = "all", NEW i \in 1 .. Len(ws_asked), LastOf(i)
                   PROVE  led_shown'[ws_asked[i].led] = ws_asked[i].colour
        BY <3>1 DEF FrameShowsAll, LastOf
      <4>1. ws_asked[i].led <= max_led /\ led_data[ws_asked[i].led] = ws_asked[i].colour
        BY DEF WsInv
      <4>2. ws_asked[i].led \in Leds
        BY <2>0 DEF LedAsks
      <4> QED BY <3>2, <4>1, <4>2
    <3> QED BY <3>1, <3>3 DEF WsInv, LastOf
  <2>2. CASE ws2812_set_pixel
    <3>1. PICK pixel_num \in Leds, colour \in Colours :
             /\ led_data' = [led_data EXCEPT ![pixel_num] = colour]
             /\ max_led' = IF max_led < pixel_num THEN pixel_num ELSE max_led
             /\ ws_asked' = Append(ws_asked, [led |-> pixel_num, colour |-> colour])
      BY <2>2 DEF ws2812_set_pixel
    <3>2. ws_ret' = "none"
      BY <2>2 DEF ws2812_set_pixel
    <3>3. PICK a : a = [led |-> pixel_num, colour |-> colour]
      OBVIOUS
    <3>4. a \in LedAsks /\ a.led = pixel_num /\ a.colour = colour
      BY <3>3 DEF LedAsks
    <3>5. /\ ws_asked' \in Seq(LedAsks) /\ Len(ws_asked') = Len(ws_asked) + 1
          /\ \A i \in 1 .. Len(ws_asked) : ws_asked'[i] = ws_asked[i]
          /\ ws_asked'[Len(ws_asked) + 1] = a
      BY <2>0, <3>1, <3>3, <3>4, AppendProperties
    <3>6. max_led' \in Leds /\ max_led <= max_led' /\ pixel_num <= max_led'
      BY <1>0, <2>0, <3>1 DEF Leds
    <3>7. led_data' = [p \in Leds |-> IF p = pixel_num THEN colour ELSE led_data[p]]
      BY <2>0, <3>1
    <3>8. ASSUME NEW i \in 1 .. Len(ws_asked')
          PROVE  /\ ws_asked'[i].led <= max_led'
                 /\ LastOf(i)' => led_data'[ws_asked'[i].led] = ws_asked'[i].colour
      <4>1. CASE i = Len(ws_asked) + 1
        BY <3>4, <3>5, <3>6, <3>7, <4>1
      <4>2. CASE i \in 1 .. Len(ws_asked)
        <5>1. ws_asked'[i] = ws_asked[i] /\ ws_asked[i].led \in Leds /\ ws_asked[i].led <= max_led
          BY <2>0, <3>5, <4>2 DEF WsInv, LedAsks
        <5>2. ws_asked'[i].led <= max_led'
          BY <1>0, <2>0, <3>6, <5>1 DEF Leds
        <5>3. ASSUME LastOf(i)' PROVE led_data'[ws_asked'[i].led] = ws_asked'[i].colour
          <6>1. \A j \in i + 1 .. Len(ws_asked') : ws_asked'[j].led # ws_asked'[i].led
            BY <5>3 DEF LastOf
          <6>2. Len(ws_asked) + 1 \in i + 1 .. Len(ws_asked')
            BY <2>0, <3>5, <4>2
          <6>3. ws_asked[i].led # pixel_num
            BY <3>4, <3>5, <5>1, <6>1, <6>2
          <6>4. LastOf(i)
            <7> SUFFICES ASSUME NEW j \in i + 1 .. Len(ws_asked) PROVE ws_asked[j].led # ws_asked[i].led
              BY DEF LastOf
            <7>1. j \in 1 .. Len(ws_asked) /\ j \in i + 1 .. Len(ws_asked')
              BY <2>0, <3>5, <4>2
            <7> QED BY <3>5, <5>1, <6>1, <7>1
          <6>5. led_data[ws_asked[i].led] = ws_asked[i].colour
            BY <4>2, <6>4 DEF WsInv
          <6> QED BY <3>7, <5>1, <6>3, <6>5
        <5> QED BY <5>2, <5>3
      <4> QED BY <2>0, <3>5, <4>1, <4>2
    <3>9. FrameShowsAll'
      BY <3>2 DEF FrameShowsAll
    <3>10. DOMAIN led_data' = Leds /\ led_data' = [p \in Leds |-> led_data'[p]]
      BY <3>7
    <3> QED BY <3>5, <3>6, <3>8, <3>9, <3>10 DEF WsInv
  <2>3. CASE ws2812_clear_buffer \/ ws2812_clear
    <3>1. led_data' = [p \in Leds |-> Off] /\ max_led' = 0 /\ ws_asked' = << >>
      BY <2>3 DEF ws2812_clear_buffer, ws2812_clear, Cleared
    <3>2. ws_asked' \in Seq(LedAsks) /\ Len(ws_asked') = 0
      BY <3>1
    <3> QED BY <1>0, <3>1, <3>2 DEF WsInv, Leds, FrameShowsAll
  <2>4. CASE UNCHANGED ws_vars
    BY <2>4 DEF ws_vars, WsInv, FrameShowsAll, LastOf
  <2> QED BY <2>1, <2>2, <2>3, <2>4 DEF WsNext
<1>3. WsInv => FrameShowsAll
  BY DEF WsInv
<1> QED BY <1>1, <1>2, <1>3, PTL DEF WsSpec
=============================================================================
