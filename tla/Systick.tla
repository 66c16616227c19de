------------------------------ MODULE Systick ------------------------------
(***************************************************************************)
(* The system tick (core/systick.c): its interrupt counts the sleep of the *)
(* main loop down and calls the callbacks whose countdown ends, between    *)
(* any two steps of the main loop, which adds and removes callbacks,       *)
(* starts and stops the timer, and sleeps.                                 *)
(***************************************************************************)
EXTENDS Integers

CONSTANTS
    MAX_SYSTICK_CALLBACKS,
    TickCallbacks,  \* the callbacks registered
    TickPeriods,    \* the periods asked for
    TickLengths,    \* the values of ms of systick_timer_on: 1 when asked for 0
    SleepTimes,     \* the values of ms of msleep
    CountdownWidth  \* the countdown wraps there: 2^16 in the code

ASSUME SystickSizes ==
    /\ MAX_SYSTICK_CALLBACKS \in Nat \ {0} /\ CountdownWidth \in Nat \ {0}
    /\ TickPeriods \subseteq 1 .. CountdownWidth - 1
    /\ TickLengths \subseteq Nat \ {0} /\ 1 \in TickLengths /\ SleepTimes \subseteq Nat

VARIABLES
    cbs,            \* the slots: callback, period, countdown
    adding,         \* add_systick_callback in progress: slot, period and step
    tick_ms, systick_running,
    tick_enabled,   \* hardware: LPC_SYSTICK_CTRL_ENABLE
    sleep_count,
    sleeper,        \* "awake", "set" (between set_sleep and sleep) or "asleep"
    since,          \* history: ticks since a slot's registration or last call,
                    \*   -1 for a slot that is free or being filled
    called,         \* history: the slots called by the last tick
    unslept         \* history: ticks the current or last sleep has left to see

slots == 1 .. MAX_SYSTICK_CALLBACKS
sleep_vars   == <<sleep_count, sleeper, unslept>>
timer_vars   == <<tick_ms, systick_running, tick_enabled>>
slot_vars    == <<cbs, adding, since, called>>
systick_vars == <<slot_vars, timer_vars, sleep_vars>>

NoCallback == "none"
NotAdding  == [slot |-> 0, period |-> 0, step |-> "none"]

SystickInit ==
    /\ cbs = [i \in slots |-> [callback |-> NoCallback, period |-> 0, countdown |-> 0]]
    /\ adding = NotAdding
    /\ tick_ms = 0 /\ systick_running = FALSE /\ tick_enabled = FALSE
    /\ sleep_count = 0 /\ sleeper = "awake" /\ unslept = 0
    /\ since = [i \in slots |-> -1] /\ called = {}

----------------------------------------------------------------------------
(* SysTick_Handler. *)

\* Mutant: the tick of the call is counted again in the next period.
CountedTwice(cb) ==
    LET down == (cb.countdown + CountdownWidth - 1) % CountdownWidth
    IN [cb EXCEPT !.countdown = IF down = 0 THEN cb.period - 1 ELSE down]
Counted(cb) ==
    LET down == (cb.countdown + CountdownWidth - 1) % CountdownWidth
    IN [cb EXCEPT !.countdown = IF down = 0 THEN cb.period ELSE down]

CallsAtThisTick == {i \in slots : cbs[i].callback # NoCallback /\ cbs[i].countdown = 1}

\* remove_systick_callback: the first slot with this callback.
SlotsOf(callback) == {i \in slots : cbs[i].callback = callback}
FirstOf(S) == CHOOSE i \in S : \A j \in S : i <= j

\* A callback may remove itself: setup_callback of drivers/rtc.c does.
SysTick_Handler ==
    /\ tick_enabled
    /\ sleep_count' = IF sleep_count # 0 THEN sleep_count - 1 ELSE 0
    /\ unslept' = IF sleeper # "awake" /\ unslept # 0 THEN unslept - 1 ELSE unslept
    /\ called' = CallsAtThisTick
    /\ \E removed \in {0} \cup {FirstOf(SlotsOf(cbs[i].callback)) : i \in called'} :
          /\ cbs' = [i \in slots |->
                       IF cbs[i].callback = NoCallback THEN cbs[i]
                       ELSE IF i = removed THEN [Counted(cbs[i]) EXCEPT !.callback = NoCallback]
                       ELSE Counted(cbs[i])]
          /\ since' = [i \in slots |->
                         IF i = removed \/ since[i] = -1 THEN -1
                         ELSE IF i \in called THEN 1 ELSE since[i] + 1]
    /\ UNCHANGED <<adding, timer_vars, sleeper>>

----------------------------------------------------------------------------
(* The main loop: one call at a time. *)

Free == sleeper = "awake" /\ adding = NotAdding

\* add_systick_callback, one field after the other.
BeginAdd ==
    /\ Free /\ SlotsOf(NoCallback) # {}
    /\ \E callback \in TickCallbacks, period \in TickPeriods :
          LET i == FirstOf(SlotsOf(NoCallback))
          IN /\ cbs' = [cbs EXCEPT ![i].callback = callback]
             /\ adding' = [slot |-> i, period |-> period, step |-> "period"]
    /\ UNCHANGED <<since, called, timer_vars, sleep_vars>>

SetPeriod ==
    /\ adding.step = "period"
    /\ cbs' = [cbs EXCEPT ![adding.slot].period = adding.period]
    /\ adding' = [adding EXCEPT !.step = "countdown"]
    /\ UNCHANGED <<since, called, timer_vars, sleep_vars>>

\* The slot may be free again: the tick may have called it with the countdown
\* its last owner left.
SetCountdown ==
    /\ adding.step = "countdown"
    /\ cbs' = [cbs EXCEPT ![adding.slot].countdown = adding.period]
    /\ since' = [since EXCEPT ![adding.slot] =
                   IF cbs[adding.slot].callback = NoCallback THEN -1 ELSE 0]
    /\ called' = called \ {adding.slot}
    /\ adding' = NotAdding
    /\ UNCHANGED <<timer_vars, sleep_vars>>

remove_systick_callback ==
    /\ Free
    /\ \E callback \in TickCallbacks :
          /\ SlotsOf(callback) # {}
          /\ LET i == FirstOf(SlotsOf(callback))
             IN /\ cbs' = [cbs EXCEPT ![i].callback = NoCallback]
                /\ since' = [since EXCEPT ![i] = -1] /\ called' = called \ {i}
    /\ UNCHANGED <<adding, timer_vars, sleep_vars>>

Starts == systick_running' = TRUE /\ tick_enabled' = TRUE
Stops  == systick_running' = FALSE /\ tick_enabled' = FALSE

systick_start == Free /\ Starts /\ UNCHANGED <<slot_vars, tick_ms, sleep_vars>>
systick_stop  == Free /\ Stops  /\ UNCHANGED <<slot_vars, tick_ms, sleep_vars>>

\* Mutant: the timer is still said to run after its control register was written.
TimerOnRunning ==
    /\ Free
    /\ tick_ms' \in TickLengths /\ tick_enabled' = FALSE
    /\ UNCHANGED <<slot_vars, systick_running, sleep_vars>>
systick_timer_on ==
    /\ Free
    /\ tick_ms' \in TickLengths /\ Stops
    /\ UNCHANGED <<slot_vars, sleep_vars>>

systick_timer_off ==
    /\ Free
    /\ tick_ms' = 0 /\ Stops
    /\ UNCHANGED <<slot_vars, sleep_vars>>

\* msleep up to set_sleep.
msleep ==
    /\ Free
    /\ \E ms \in SleepTimes :
          /\ sleep_count' = IF tick_ms = 0 THEN ms ELSE ms \div tick_ms
          /\ unslept' = sleep_count'
    /\ IF tick_ms = 0 THEN tick_ms' = 1 /\ Stops ELSE UNCHANGED timer_vars
    /\ sleeper' = "set"
    /\ UNCHANGED slot_vars

StartSleeping ==
    /\ sleeper = "set"
    /\ IF systick_running THEN UNCHANGED timer_vars ELSE Starts /\ UNCHANGED tick_ms
    /\ sleeper' = "asleep"
    /\ UNCHANGED <<slot_vars, sleep_count, unslept>>

\* sleep returns at once when the timer is not enabled.
Wake ==
    /\ sleeper = "asleep" /\ (~tick_enabled \/ sleep_count = 0)
    /\ sleeper' = "awake"
    /\ UNCHANGED <<slot_vars, timer_vars, sleep_count, unslept>>

SystickNext ==
    \/ SysTick_Handler
    \/ BeginAdd \/ SetPeriod \/ SetCountdown \/ remove_systick_callback
    \/ systick_start \/ systick_stop \/ systick_timer_on \/ systick_timer_off
    \/ msleep \/ StartSleeping \/ Wake

SystickSpec == SystickInit /\ [][SystickNext]_systick_vars

\* A timer that is enabled ticks, and the main loop goes on.
SystickFairness ==
    /\ WF_systick_vars(SysTick_Handler)
    /\ WF_systick_vars(SetPeriod \/ SetCountdown \/ StartSleeping \/ Wake)

----------------------------------------------------------------------------
SystickTypeOK ==
    /\ cbs \in [slots -> [callback: TickCallbacks \cup {NoCallback},
                          period: TickPeriods \cup {0}, countdown: 0 .. CountdownWidth - 1]]
    /\ adding \in [slot: slots \cup {0}, period: TickPeriods \cup {0},
                   step: {"none", "period", "countdown"}]
    /\ tick_ms \in TickLengths \cup {0} /\ {systick_running, tick_enabled} \subseteq BOOLEAN
    /\ sleep_count \in Nat /\ sleeper \in {"awake", "set", "asleep"} /\ unslept \in Nat
    /\ since \in [slots -> Nat \cup {-1}] /\ called \subseteq slots

\* "Register a callback to be called every 'period' system ticks" (systick.c:77):
\* once registered it is called at each of its periods, and only then, whatever
\* was in its slot before and whenever the tick came while it was filled.
CalledEveryPeriod ==
    \A i \in slots : since[i] # -1 =>
        /\ since[i] <= cbs[i].period
        /\ i \in called <=> since[i] = cbs[i].period

\* msleep returns after the ticks it asked for, and not before, although the
\* timer may have been stopped, reconfigured or turned off since it was started.
SleepsItsTicks == sleeper = "awake" => unslept = 0

\* msleep, which must end.
SystickWaits == sleeper # "awake"

============================================================================
