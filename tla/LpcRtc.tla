------------------------------- MODULE LpcRtc -------------------------------
(***************************************************************************)
(* The clock of the LPC122x (drivers/rtc.c).  Its count is not to be read  *)
(* in the first three seconds of the tick: an alarm asked for before that  *)
(* is set later, by a callback of the tick (core/systick.c).  The clock    *)
(* counts between any two steps of the interrupt handler.                  *)
(***************************************************************************)
EXTENDS Integers

CONSTANTS
    RtcDelay,       \* ticks before the count is valid: 3000 ms
    RtcPeriods,     \* the periods given to set_rtc_callback; 0 for a single alarm
    MaxCount,       \* bound on the count
    MaxSetups       \* bound: calls of set_rtc_callback

ASSUME RtcSizes == RtcDelay \in Nat /\ RtcPeriods \subseteq Nat /\ MaxCount \in Nat /\ MaxSetups \in Nat

VARIABLES
    rtc_power,      \* the clock of its registers
    rtc_started, rtc_count, rtc_match,
    rtc_start_ok,   \* rtc_get_count has once found the count valid
    rtc_ticks,      \* of the tick, since it was started; -1 when it is not running
    rtc_callback, rtc_int,
    rtc_alarm,      \* the interrupt is pending
    setups,         \* setup_callback is among the callbacks of the tick
    match_first, rtc_match_period, periodic_match,
    rtc_handler,         \* RTC_Handler: "idle", "called", "cleared"; or rtc->data as read
    rtc_asked,          \* calls of set_rtc_callback so far
    date_changed    \* history: rtc_set_date since the last alarm was set

rtc_config == <<match_first, rtc_match_period, periodic_match>>
rtc_hw == <<rtc_power, rtc_started>>
lpcrtc_vars == <<rtc_hw, rtc_count, rtc_match, rtc_start_ok, rtc_ticks, rtc_callback, rtc_int,
                 rtc_alarm, setups, rtc_config, rtc_handler, rtc_asked, date_changed>>

Counts == 0 .. MaxCount

LpcRtcInit ==
    /\ rtc_power = FALSE /\ rtc_started = FALSE /\ rtc_count = 0 /\ rtc_match = 0
    /\ rtc_start_ok = FALSE /\ rtc_ticks = -1
    /\ rtc_callback = FALSE /\ rtc_int = FALSE /\ rtc_alarm = FALSE /\ setups = FALSE
    /\ match_first = 0 /\ rtc_match_period = 0 /\ periodic_match = FALSE
    /\ rtc_handler = "idle" /\ rtc_asked = 0 /\ date_changed = FALSE

----------------------------------------------------------------------------
(* Reading the count: the first call that finds the tick old enough makes it *)
(* valid for good, and one that finds it stopped starts it. *)

Valid == rtc_start_ok \/ rtc_ticks >= RtcDelay
CountRead == IF Valid THEN rtc_count ELSE 0

RtcRead ==
    /\ rtc_start_ok' = Valid
    /\ rtc_ticks' = IF ~rtc_start_ok /\ rtc_ticks = -1 THEN 0 ELSE rtc_ticks

rtc_get_count ==
    /\ rtc_handler = "idle"
    /\ RtcRead
    /\ UNCHANGED <<rtc_hw, rtc_count, rtc_match, rtc_callback, rtc_int, rtc_alarm, setups,
                   rtc_config, rtc_handler, rtc_asked, date_changed>>

\* rtc_set_match: an alarm at a date, or a period from now when the date is 0.
SetMatch(date, period, periodic) ==
    /\ periodic_match' = periodic /\ rtc_match_period' = period
    /\ rtc_match' = IF date # 0 THEN date ELSE CountRead + period
    /\ date_changed' = FALSE

----------------------------------------------------------------------------
(* The main loop. *)

\* rtc_on and rtc_ctrl_off; rtc_disable has an effect before the first rtc_on.
rtc_on ==
    /\ rtc_handler = "idle"
    /\ rtc_power' = TRUE /\ rtc_started' = TRUE
    /\ UNCHANGED <<rtc_count, rtc_match, rtc_start_ok, rtc_ticks, rtc_callback, rtc_int,
                   rtc_alarm, setups, rtc_config, rtc_handler, rtc_asked, date_changed>>

rtc_ctrl_off ==
    /\ rtc_handler = "idle"
    /\ rtc_power' = FALSE
    /\ UNCHANGED <<rtc_started, rtc_count, rtc_match, rtc_start_ok, rtc_ticks, rtc_callback,
                   rtc_int, rtc_alarm, setups, rtc_config, rtc_handler, rtc_asked, date_changed>>

rtc_set_date ==
    /\ rtc_handler = "idle" /\ rtc_power
    /\ rtc_count' \in {1, MaxCount} /\ date_changed' = TRUE
    /\ UNCHANGED <<rtc_hw, rtc_match, rtc_start_ok, rtc_ticks, rtc_callback, rtc_int,
                   rtc_alarm, setups, rtc_config, rtc_handler, rtc_asked>>

\* set_rtc_callback: at once when the count is valid and not 0; when is in the future.
set_rtc_callback ==
    /\ rtc_handler = "idle" /\ rtc_power /\ rtc_asked < MaxSetups
    /\ rtc_asked' = rtc_asked + 1 /\ rtc_callback' = TRUE /\ rtc_int' = TRUE
    /\ RtcRead
    /\ \E when \in {0, rtc_count + 1}, period \in RtcPeriods :
          IF CountRead # 0
          THEN SetMatch(when, period, period # 0) /\ UNCHANGED <<setups, match_first>>
          ELSE /\ setups' = TRUE /\ match_first' = when
               /\ rtc_match_period' = period /\ periodic_match' = (period # 0)
               /\ UNCHANGED <<rtc_match, date_changed>>
    /\ UNCHANGED <<rtc_hw, rtc_count, rtc_alarm, rtc_handler>>

remove_rtc_callback ==
    /\ rtc_handler = "idle" /\ rtc_power
    /\ rtc_callback' = FALSE /\ rtc_int' = FALSE
    /\ UNCHANGED <<rtc_hw, rtc_count, rtc_match, rtc_start_ok, rtc_ticks, rtc_alarm, setups,
                   rtc_config, rtc_handler, rtc_asked, date_changed>>

----------------------------------------------------------------------------
(* Interrupts. *)

FirstMatch == IF CountRead >= match_first THEN 0 ELSE match_first

\* setup_callback: in the tick, until the count is valid.
setup_callback ==
    /\ rtc_handler = "idle" /\ setups /\ rtc_ticks # -1
    /\ RtcRead
    /\ IF CountRead = 0
       THEN UNCHANGED <<setups, match_first, rtc_match, rtc_match_period, periodic_match, date_changed>>
       ELSE /\ match_first' = FirstMatch
            /\ SetMatch(FirstMatch, rtc_match_period, periodic_match)
            /\ setups' = FALSE
    /\ UNCHANGED <<rtc_hw, rtc_count, rtc_callback, rtc_int, rtc_alarm, rtc_handler, rtc_asked>>

RtcHandlerCalls ==
    /\ rtc_handler = "idle" /\ rtc_int /\ rtc_alarm
    /\ rtc_handler' = "called"
    /\ UNCHANGED <<rtc_hw, rtc_count, rtc_match, rtc_start_ok, rtc_ticks, rtc_callback, rtc_int,
                   rtc_alarm, setups, rtc_config, rtc_asked, date_changed>>

RtcHandlerClears ==
    /\ rtc_handler = "called"
    /\ rtc_alarm' = FALSE /\ rtc_handler' = "cleared"
    /\ UNCHANGED <<rtc_hw, rtc_count, rtc_match, rtc_start_ok, rtc_ticks, rtc_callback, rtc_int,
                   setups, rtc_config, rtc_asked, date_changed>>

\* A periodic alarm: a period after the count that it reads now.
RtcHandlerRearms ==
    /\ rtc_handler = "cleared"
    /\ rtc_match' = IF periodic_match THEN rtc_count + rtc_match_period ELSE rtc_match
    /\ date_changed' = (date_changed /\ ~periodic_match)
    /\ rtc_handler' = "idle"
    /\ UNCHANGED <<rtc_hw, rtc_count, rtc_start_ok, rtc_ticks, rtc_callback, rtc_int, rtc_alarm,
                   setups, rtc_config, rtc_asked>>

----------------------------------------------------------------------------
(* The hardware. *)

RtcTick ==
    /\ rtc_ticks # -1 /\ rtc_ticks < RtcDelay
    /\ rtc_ticks' = rtc_ticks + 1
    /\ UNCHANGED <<rtc_hw, rtc_count, rtc_match, rtc_start_ok, rtc_callback, rtc_int, rtc_alarm,
                   setups, rtc_config, rtc_handler, rtc_asked, date_changed>>

RtcCounts ==
    /\ rtc_started /\ rtc_count < MaxCount
    /\ rtc_count' = rtc_count + 1
    /\ rtc_alarm' = (rtc_alarm \/ rtc_count' = rtc_match)
    /\ UNCHANGED <<rtc_hw, rtc_match, rtc_start_ok, rtc_ticks, rtc_callback, rtc_int, setups,
                   rtc_config, rtc_handler, rtc_asked, date_changed>>

LpcRtcNext ==
    \/ rtc_get_count \/ rtc_on \/ rtc_ctrl_off \/ rtc_set_date
    \/ set_rtc_callback \/ remove_rtc_callback \/ setup_callback
    \/ RtcHandlerCalls \/ RtcHandlerClears \/ RtcHandlerRearms
    \/ RtcTick \/ RtcCounts

LpcRtcSpec == LpcRtcInit /\ [][LpcRtcNext]_lpcrtc_vars

----------------------------------------------------------------------------
LpcRtcTypeOK ==
    /\ rtc_power \in BOOLEAN /\ rtc_started \in BOOLEAN /\ rtc_start_ok \in BOOLEAN
    /\ rtc_count \in Counts /\ rtc_match \in Nat /\ match_first \in Nat
    /\ rtc_ticks \in -1 .. RtcDelay /\ rtc_match_period \in RtcPeriods \cup {0}
    /\ \A b \in {rtc_callback, rtc_int, rtc_alarm, setups, periodic_match, date_changed} : b \in BOOLEAN
    /\ rtc_handler \in {"idle", "called", "cleared"} /\ rtc_asked \in 0 .. MaxSetups

\* A periodic alarm that has been set is ahead of the clock, or pending or being
\* handled: an alarm left behind would not come for 2^32 counts.
AlarmIsAhead ==
    (rtc_int /\ periodic_match /\ ~setups /\ ~date_changed) =>
        rtc_match > rtc_count \/ rtc_alarm \/ rtc_handler # "idle"

============================================================================
