---------------------------- MODULE RtcPcf85363a ----------------------------
(***************************************************************************)
(* The clock chip (extdrv/rtc_pcf85363a.c): its time is written in three   *)
(* transactions, between which the clock stands still, and its             *)
(* configuration in one, whose last bytes but one mark it as done.  A      *)
(* transaction may fail at any byte and the board may restart between two. *)
(***************************************************************************)
EXTENDS Integers, Sequences

VARIABLES
    rtc_pc,         \* "idle", or "set" and "run" inside rtc_pcf85363_time_write
    stopped,        \* the chip's STOP bit
    chip_time,      \* the chip's time is right
    marker,         \* the chip's SINGLE_RAM byte is config_marker
    written,        \* the configuration registers the chip has received
    time_set,       \* conf->time_set
    cut             \* history: a time_write that stopped the clock did not end

rtc_vars == <<rtc_pc, stopped, chip_time, marker, written, time_set, cut>>

\* The registers of rtc_pcf85363a_config, in the order of its transaction:
\* timestamps to flags, then the marker, then the watchdog.
ConfigBlocks == <<"control", "marker", "watchdog">>

RtcInit ==
    /\ rtc_pc = "idle"
    /\ stopped = FALSE /\ chip_time = FALSE
    /\ marker = FALSE /\ written = {}
    /\ time_set = FALSE /\ cut = FALSE

\* rtc_pcf85363_time_write: STOP and the prescalers, the time, then STOP cleared.
StopClock ==
    /\ rtc_pc = "idle"
    /\ \E done \in BOOLEAN :
          /\ rtc_pc' = IF done THEN "set" ELSE "idle"
          /\ \/ stopped' = TRUE                     \* the first byte got through
             \/ ~done /\ UNCHANGED stopped
          /\ cut' = (cut \/ stopped')
    /\ UNCHANGED <<chip_time, marker, written, time_set>>

SetTime ==
    /\ rtc_pc = "set"
    /\ \/ rtc_pc' = "run" /\ chip_time' = TRUE
       \/ rtc_pc' = "idle" /\ chip_time' \in {chip_time, FALSE}
    /\ UNCHANGED <<stopped, marker, written, time_set, cut>>

\* Mutant: the clock is let go by a transaction that repeats the STOP bit.
RunClockStopped ==
    /\ rtc_pc = "run"
    /\ rtc_pc' = "idle"
    /\ time_set' = TRUE /\ cut' = FALSE
    /\ UNCHANGED <<stopped, chip_time, marker, written>>
RunClock ==
    /\ rtc_pc = "run"
    /\ rtc_pc' = "idle"
    /\ \/ stopped' = FALSE /\ time_set' = TRUE /\ cut' = FALSE
       \/ UNCHANGED <<stopped, time_set, cut>>
    /\ UNCHANGED <<chip_time, marker, written>>

\* rtc_pcf85363a_config: nothing is written when the marker is there.
WriteBlocks(n) ==
    /\ written' = written \cup {ConfigBlocks[i] : i \in 1 .. n}
    /\ marker' = (marker \/ "marker" \in written')

rtc_pcf85363a_config ==
    /\ rtc_pc = "idle" /\ ~marker
    /\ \E n \in 0 .. Len(ConfigBlocks) : WriteBlocks(n)
    /\ UNCHANGED <<rtc_pc, stopped, chip_time, time_set, cut>>

\* rtc_pcf85363a_is_up, for a marked chip whose time is after the oldest allowed.
rtc_pcf85363a_is_up ==
    /\ rtc_pc = "idle" /\ marker
    /\ time_set' = TRUE
    /\ UNCHANGED <<rtc_pc, stopped, chip_time, marker, written, cut>>

\* The board restarts wherever it was, the chip goes on.
RtcBoardRestarts ==
    /\ rtc_pc' = "idle" /\ time_set' = FALSE
    /\ cut' = (cut \/ rtc_pc # "idle")
    /\ UNCHANGED <<stopped, chip_time, marker, written>>

\* The chip runs down: its registers are lost.
RtcChipRestarts ==
    /\ rtc_pc = "idle"
    /\ stopped' = FALSE /\ chip_time' = FALSE /\ marker' = FALSE /\ written' = {}
    /\ UNCHANGED <<rtc_pc, time_set, cut>>

RtcNext ==
    \/ StopClock \/ SetTime \/ RunClock
    \/ rtc_pcf85363a_config \/ rtc_pcf85363a_is_up
    \/ RtcBoardRestarts \/ RtcChipRestarts

RtcSpec == RtcInit /\ [][RtcNext]_rtc_vars

RtcTypeOK ==
    /\ rtc_pc \in {"idle", "set", "run"}
    /\ {stopped, chip_time, marker, time_set, cut} \subseteq BOOLEAN
    /\ written \subseteq {ConfigBlocks[i] : i \in 1 .. Len(ConfigBlocks)}

\* The clock stands still outside of a time_write only after one that was cut
\* short; and a chip marked as configured has its control registers, although
\* the transaction that marks it may have stopped anywhere.
ClockKept ==
    /\ stopped /\ rtc_pc = "idle" => cut
    /\ marker => "control" \in written

============================================================================
