--------------------------- MODULE CounterTimers ---------------------------
(***************************************************************************)
(* One counter timer (drivers/timers.c, drivers/countertimers.c): four of  *)
(* them share the code and nothing else.  The counter advances on the      *)
(* clock, or on the edges of an input in counter mode; a match or an edge  *)
(* may raise the interrupt, reset the counter or stop it.  The interrupt   *)
(* handler reads the flags, clears those it has read, then tells them to   *)
(* the callback, and the counter goes on meanwhile.                        *)
(***************************************************************************)
EXTENDS Integers, Sequences

CONSTANTS
    TcConfigs,      \* the lpc_tc_config given to timer_counter_config
    PwmConfigs,     \* the lpc_timer_pwm_config given to timer_pwm_config
    NewMatches,     \* the values given to timer_set_match
    CounterSize     \* the counter wraps there: 2^16 or 2^32

MAX_CHANNELS == 2   \* 4 on the chip
Channels == 0 .. MAX_CHANNELS - 1
Clock == -1
Nothing == [c \in Channels |-> {}]

\* reset_on_cap is a channel, or MAX_CHANNELS when it is not enabled.
ASSUME TimerConstants ==
    /\ CounterSize \in Nat \ {0} /\ NewMatches \subseteq 0 .. CounterSize - 1
    /\ TcConfigs \subseteq
         [specific: BOOLEAN, counter: BOOLEAN, count_chan: Channels, reset_on_cap: 0 .. MAX_CHANNELS,
          uses_match: BOOLEAN, match_control: [Channels -> SUBSET {"interrupt", "reset", "stop"}],
          match: [Channels -> 0 .. CounterSize - 1],
          cap_control: [Channels -> SUBSET {"edge", "interrupt"}]]
    /\ PwmConfigs \subseteq
         [period: 0 .. CounterSize - 1, period_chan: 0 .. MAX_CHANNELS, outputs: SUBSET Channels,
          match_values: [Channels -> 0 .. CounterSize - 1]]

VARIABLES
    ct_on,          \* its clock and its interrupt are enabled
    timer_ctrl,     \* "enable", "reset" or "off"
    timer_counter,
    count_ctrl,     \* what it counts: Clock or an input
    clear_on,       \* the input whose edges clear it, or MAX_CHANNELS
    match_ctrl, match_reg, capture_ctrl,
    int_reg,        \* the interrupts pending: <<"match" or "capture", channel>>
    intr_flags,     \* TIMER_Handler: the flags it has read
    handler,        \* "idle", "read" or "cleared"
    untold          \* history: what was raised and the callback has not been told

ct_regs == <<count_ctrl, clear_on, match_ctrl, match_reg, capture_ctrl>>
ct_handling == <<intr_flags, handler>>
ct_vars == <<ct_on, timer_ctrl, timer_counter, ct_regs, int_reg, ct_handling, untold>>

CounterTimersInit ==
    /\ ct_on = FALSE /\ timer_ctrl = "off" /\ timer_counter = 0
    /\ count_ctrl = Clock /\ clear_on = MAX_CHANNELS
    /\ match_ctrl = Nothing /\ match_reg = [c \in Channels |-> 0] /\ capture_ctrl = Nothing
    /\ int_reg = {} /\ intr_flags = {} /\ handler = "idle" /\ untold = {}

\* The calls are the main loop's, or those of a callback as it returns.
TimerCall == handler = "idle"

----------------------------------------------------------------------------
(* Running: the timer has its clock, no check is made. *)

\* timer_start, timer_cont, timer_pause.
Control(ctrl) ==
    /\ TimerCall /\ ct_on
    /\ timer_ctrl' = ctrl
    /\ UNCHANGED <<ct_on, timer_counter, ct_regs, int_reg, ct_handling, untold>>
countertimer_start == Control("enable")
countertimer_pause == Control("off")

\* timer_stop, timer_halt, timer_restart: a reset, and what follows it.
ResetThen(ctrl) ==
    /\ TimerCall /\ ct_on
    /\ timer_counter' = 0 /\ timer_ctrl' = ctrl
    /\ UNCHANGED <<ct_on, ct_regs, int_reg, ct_handling, untold>>
countertimer_stop == ResetThen("off")
countertimer_restart == ResetThen("enable")

\* timer_set_match, for a channel of the timer.
countertimer_set_match ==
    /\ TimerCall /\ ct_on
    /\ \E c \in Channels, v \in NewMatches : match_reg' = [match_reg EXCEPT ![c] = v]
    /\ UNCHANGED <<ct_on, timer_ctrl, timer_counter, count_ctrl, clear_on, match_ctrl,
                   capture_ctrl, int_reg, ct_handling, untold>>

----------------------------------------------------------------------------
(* Configuration. *)

PwmRefused(conf) == conf.period = 0 \/ conf.period_chan >= MAX_CHANNELS

PwmMatches(conf) ==
    [c \in Channels |-> IF c = conf.period_chan THEN conf.period
                        ELSE IF c \in conf.outputs THEN conf.match_values[c] ELSE match_reg[c]]

\* timer_pwm_config: the actions of the other channels stay as they were.
PwmSetup(conf) ==
    /\ match_reg' = PwmMatches(conf)
    /\ match_ctrl' = [match_ctrl EXCEPT ![conf.period_chan] = {"reset"}]
    /\ count_ctrl' = Clock /\ clear_on' = MAX_CHANNELS
    /\ UNCHANGED capture_ctrl

countertimer_pwm_setup ==
    /\ TimerCall /\ ct_on
    /\ \E conf \in PwmConfigs :
          IF PwmRefused(conf) THEN UNCHANGED ct_regs ELSE PwmSetup(conf)
    /\ UNCHANGED <<ct_on, timer_ctrl, timer_counter, int_reg, ct_handling, untold>>

\* The input that is counted does nothing else; a reset on an edge overwrites
\* the counter mode, and the timer counts its clock.
TcSetup(conf) ==
    LET Kept(f) == [c \in Channels |-> IF conf.counter /\ c = conf.count_chan THEN {} ELSE f[c]]
    IN /\ match_reg' = IF conf.uses_match THEN conf.match ELSE match_reg
       /\ match_ctrl' = IF conf.uses_match THEN Kept(conf.match_control) ELSE Nothing
       /\ capture_ctrl' = Kept(conf.cap_control)
       /\ clear_on' = conf.reset_on_cap
       /\ count_ctrl' = IF conf.counter /\ conf.reset_on_cap = MAX_CHANNELS
                        THEN conf.count_chan ELSE Clock

countertimer_tc_setup ==
    /\ TimerCall /\ ct_on
    /\ \E conf \in TcConfigs : IF conf.specific THEN UNCHANGED ct_regs ELSE TcSetup(conf)
    /\ UNCHANGED <<ct_on, timer_ctrl, timer_counter, int_reg, ct_handling, untold>>

\* timer_on holds the counter in reset until it is started; the configuration
\* and the interrupts pending of an earlier use stay.
countertimer_on ==
    /\ TimerCall
    /\ ct_on' = TRUE /\ timer_ctrl' = "reset" /\ timer_counter' = 0
    /\ UNCHANGED <<ct_regs, int_reg, ct_handling, untold>>

countertimer_off ==
    /\ TimerCall /\ ct_on
    /\ ct_on' = FALSE
    /\ UNCHANGED <<timer_ctrl, timer_counter, ct_regs, int_reg, ct_handling, untold>>

----------------------------------------------------------------------------
(* The interrupt. *)

HandlerReads ==
    /\ ct_on /\ handler = "idle" /\ int_reg # {}
    /\ intr_flags' = int_reg /\ handler' = "read"
    /\ UNCHANGED <<ct_on, timer_ctrl, timer_counter, ct_regs, int_reg, untold>>

\* Mutant: all that is pending is cleared.
AllCleared == {}
FlagsCleared == int_reg \ intr_flags

HandlerClears ==
    /\ handler = "read"
    /\ int_reg' = FlagsCleared /\ handler' = "cleared"
    /\ UNCHANGED <<ct_on, timer_ctrl, timer_counter, ct_regs, intr_flags, untold>>

HandlerCalls ==
    /\ handler = "cleared"
    /\ untold' = untold \ intr_flags /\ intr_flags' = {} /\ handler' = "idle"
    /\ UNCHANGED <<ct_on, timer_ctrl, timer_counter, ct_regs, int_reg>>

----------------------------------------------------------------------------
(* The hardware. *)

Raise(flags) == int_reg' = int_reg \cup flags /\ untold' = untold \cup flags

\* The counter after one step, and what its matches do.
Advance ==
    LET Resets == {c \in Channels : "reset" \in match_ctrl[c] /\ match_reg[c] = timer_counter}
        next == IF Resets # {} THEN 0 ELSE (timer_counter + 1) % CounterSize
        Matching(what) == {c \in Channels : what \in match_ctrl[c] /\ match_reg[c] = next}
    IN /\ timer_counter' = next
       /\ timer_ctrl' = IF Matching("stop") # {} THEN "off" ELSE timer_ctrl
       /\ Raise({<<"match", c>> : c \in Matching("interrupt")})

ClockPulse ==
    /\ ct_on /\ timer_ctrl = "enable" /\ count_ctrl = Clock
    /\ Advance
    /\ UNCHANGED <<ct_on, ct_regs, ct_handling>>

\* An edge of input c: counted, or a reason to clear the counter or to capture.
InputEdge(c) ==
    /\ ct_on /\ timer_ctrl = "enable"
    /\ \/ /\ count_ctrl = c /\ Advance
       \/ /\ count_ctrl # c
          /\ timer_counter' = IF clear_on = c THEN 0 ELSE timer_counter
          /\ Raise(IF capture_ctrl[c] = {"edge", "interrupt"} THEN {<<"capture", c>>} ELSE {})
          /\ UNCHANGED timer_ctrl
    /\ UNCHANGED <<ct_on, ct_regs, ct_handling>>

CounterTimersNext ==
    \/ countertimer_start \/ countertimer_pause \/ countertimer_stop \/ countertimer_restart
    \/ countertimer_set_match \/ countertimer_pwm_setup \/ countertimer_tc_setup
    \/ countertimer_on \/ countertimer_off
    \/ HandlerReads \/ HandlerClears \/ HandlerCalls
    \/ ClockPulse \/ \E c \in Channels : InputEdge(c)

CounterTimersSpec == CounterTimersInit /\ [][CounterTimersNext]_ct_vars

----------------------------------------------------------------------------
Interrupts == {"match", "capture"} \X Channels

CounterTimersTypeOK ==
    /\ ct_on \in BOOLEAN /\ timer_ctrl \in {"enable", "reset", "off"}
    /\ timer_counter \in 0 .. CounterSize - 1
    /\ count_ctrl \in Channels \cup {Clock} /\ clear_on \in 0 .. MAX_CHANNELS
    /\ match_ctrl \in [Channels -> SUBSET {"interrupt", "reset", "stop"}]
    /\ match_reg \in [Channels -> 0 .. CounterSize - 1]
    /\ capture_ctrl \in [Channels -> SUBSET {"edge", "interrupt"}]
    /\ int_reg \subseteq Interrupts /\ intr_flags \subseteq Interrupts /\ untold \subseteq Interrupts
    /\ handler \in {"idle", "read", "cleared"}

\* The input that is counted neither resets nor stops the counter nor captures
\* it (UM10441, 14.7.11), whatever was configured before.
CountedInputIsFree ==
    \A c \in Channels : count_ctrl = c => match_ctrl[c] = {} /\ capture_ctrl[c] = {}

\* A match or a capture that raises the interrupt is told to the callback: until
\* then it is pending, or among the flags the handler has read.
RaisedIsTold == untold \subseteq int_reg \cup intr_flags

============================================================================
