------------------------------ MODULE Usleep -------------------------------
(***************************************************************************)
(* The short waits of core/systick.c, on the value of the counter that     *)
(* also makes the system tick: it counts down from its reload value, and   *)
(* has a flag, cleared when it is read, that says it has reached zero.  A  *)
(* microsecond is one count here.                                          *)
(***************************************************************************)
EXTENDS Integers

CONSTANTS
    Millisecond,    \* its counts: 1000 us
    TickMs,         \* the period of the tick, in milliseconds
    Waits,          \* the values of us
    Late,           \* the most counts between two steps of a call
    Unsigned        \* the comparisons wrap there: 2^32 in the code

ASSUME UsleepAssumption ==
    /\ {Millisecond, TickMs} \subseteq Nat \ {0} /\ Waits \subseteq Nat
    /\ Late \in Nat \ {0} /\ 2 * Late <= Millisecond /\ Unsigned \in Nat /\ Unsigned > 2 * Millisecond * TickMs

VARIABLES
    us_value, us_flag, us_run,  \* hardware: the counter, its COUNTFLAG and its enable
    us_on,          \* tick_ms # 0: the tick is configured
    us_pc,          \* the loop usleep is in, "idle" outside of a call
    us_start, us_left, us_end,  \* start, what is left of us, and end
    us_sleep,       \* sleep_count, in msleep
    us_asked, us_elapsed,   \* history: the call's us, and the counts since
    us_ran,         \* history: the counter ran when the call was made
    us_late         \* counts since the call's last step

hardware_vars == <<us_value, us_flag, us_run, us_on>>
us_call_vars == <<us_asked, us_ran>>
us_vars == <<hardware_vars, us_call_vars, us_pc, us_start, us_left, us_end, us_sleep, us_elapsed,
            us_late>>

\* What a call may take more than it was asked for, a poll or two; no more is counted.
Allowed == 3 * Late
Reload == Millisecond * TickMs - 1

UsleepInit ==
    /\ us_value = 0 /\ us_flag = FALSE /\ us_run = FALSE /\ us_on = FALSE
    /\ us_pc = "idle" /\ us_start = 0 /\ us_left = 0 /\ us_end = 0 /\ us_sleep = 0
    /\ us_asked = 0 /\ us_elapsed = 0 /\ us_ran = FALSE /\ us_late = 0

\* A write of the value clears it and its flag.  The tick is configured and started
\* by a call of msleep or usleep too.
CounterCleared == us_value' = 0 /\ us_flag' = FALSE
TickStarts == us_run' = TRUE /\ us_on' = TRUE /\ CounterCleared

systick_toggles ==
    /\ us_pc = "idle"
    /\ IF us_run THEN us_run' = FALSE /\ UNCHANGED us_on /\ CounterCleared ELSE TickStarts
    /\ UNCHANGED <<us_call_vars, us_pc, us_start, us_left, us_end, us_sleep, us_elapsed,
                   us_late>>

\* The value is read before anything else, then the flag, to clear it.
UsleepCalled(us, next) ==
    /\ us_pc = "idle" /\ us_pc' = next
    /\ us_asked' = us /\ us_left' = us /\ us_start' = us_value
    /\ us_elapsed' = 0 /\ us_ran' = us_run /\ us_late' = 0
    /\ UNCHANGED <<hardware_vars, us_end, us_sleep>>

usleep == \E us \in Waits : UsleepCalled(us, "clear")

\* It relies on a counter that runs.
usleep_short ==
    us_run /\ \E us \in Waits : us <= Millisecond /\ UsleepCalled(us, "clear")

ClearsFlag ==
    /\ us_pc = "clear" /\ us_flag' = FALSE /\ us_late' = 0
    /\ us_pc' = IF us_left > Millisecond THEN "msleep" ELSE "compute"
    /\ us_left' = IF us_left > Millisecond THEN us_left % Millisecond ELSE us_left
    /\ IF us_asked > Millisecond \/ us_run THEN UNCHANGED <<us_run, us_on, us_value>>
       ELSE TickStarts
    /\ UNCHANGED <<us_call_vars, us_start, us_end, us_sleep, us_elapsed>>

CallsMsleep ==
    /\ us_pc = "msleep" /\ us_pc' = "asleep" /\ us_late' = 0
    /\ us_sleep' = (us_asked \div Millisecond) \div (IF us_on THEN TickMs ELSE 1)
    /\ IF us_run THEN UNCHANGED hardware_vars ELSE TickStarts
    /\ UNCHANGED <<us_call_vars, us_start, us_left, us_end, us_elapsed>>

MsleepReturns ==
    /\ us_pc = "asleep" /\ us_sleep = 0 /\ us_pc' = "compute" /\ us_late' = 0
    /\ UNCHANGED <<hardware_vars, us_call_vars, us_start, us_left, us_end, us_sleep, us_elapsed>>

\* Where the counter must get, in this period or in the next one.
Compute ==
    /\ us_pc = "compute" /\ us_late' = 0
    /\ IF us_left > us_start
       THEN us_pc' = "loop" /\ us_end' = (Reload - (us_left - us_start)) % Unsigned
       ELSE us_pc' = "until" /\ us_end' = us_start - us_left
    /\ UNCHANGED <<hardware_vars, us_call_vars, us_start, us_left, us_sleep, us_elapsed>>

\* One turn of a loop: the end of this period, which reading the flag forgets, or the
\* value wanted; a counter that was to reach it in this period and is in the next one
\* has passed it.
UsleepPolls ==
    /\ us_late' = 0
    /\ \/ /\ us_pc = "loop" /\ us_flag' = FALSE
          /\ us_pc' = IF us_flag THEN "rest" ELSE "loop"
       \/ /\ us_pc = "rest" /\ UNCHANGED us_flag
          /\ us_pc' = IF us_value > us_end THEN "rest" ELSE "idle"
       \/ /\ us_pc = "until"
          /\ us_flag' = (us_flag /\ us_value <= us_end)
          /\ us_pc' = IF us_value > us_end /\ ~us_flag THEN "until" ELSE "idle"
    /\ UNCHANGED <<us_value, us_run, us_on, us_call_vars, us_start, us_left, us_end, us_sleep,
                   us_elapsed>>

\* A count, of which there may be some before the next step of the call; the tick
\* interrupt comes at zero.
CounterSteps ==
    /\ us_run
    /\ us_pc \notin {"idle", "asleep"} \/ (us_pc = "asleep" /\ us_sleep = 0) => us_late < Late
    /\ us_value' = IF us_value = 0 THEN Reload ELSE us_value - 1
    /\ us_flag' = (us_flag \/ us_value = 1)
    /\ us_sleep' = IF us_value = 1 /\ us_sleep # 0 THEN us_sleep - 1 ELSE us_sleep
    /\ us_elapsed' = IF us_pc = "idle" \/ us_elapsed > us_asked + Allowed
                   THEN us_elapsed ELSE us_elapsed + 1
    /\ us_late' = IF us_pc = "idle" \/ us_sleep' # 0 THEN 0 ELSE us_late + 1
    /\ UNCHANGED <<us_run, us_on, us_call_vars, us_pc, us_start, us_left, us_end>>

UsleepNext ==
    \/ systick_toggles \/ usleep \/ usleep_short \/ ClearsFlag \/ CallsMsleep \/ MsleepReturns
    \/ Compute \/ UsleepPolls \/ CounterSteps

UsleepSpec == UsleepInit /\ [][UsleepNext]_us_vars

----------------------------------------------------------------------------
UsleepTypeOK ==
    /\ us_value \in 0 .. Reload /\ {us_flag, us_run, us_on, us_ran} \subseteq BOOLEAN
    /\ us_pc \in {"idle", "clear", "msleep", "asleep", "compute", "loop", "rest", "until"}
    /\ us_start \in 0 .. Reload /\ us_late \in Nat /\ us_end \in 0 .. Unsigned - 1
    /\ us_left \in Nat /\ us_sleep \in Nat /\ us_asked \in Waits \cup {0} /\ us_elapsed \in Nat

\* "tries to sleep at most the required amount of time" (systick.c:309): with a counter
\* that runs, wherever it is when the call is made and through the ticks of msleep,
\* usleep is late by a poll or two and never by a turn of the counter, unless the counter
\* was so near zero at the start that it got there before the flag was cleared, or before
\* msleep began to count its ticks.
SleepsAtMost ==
    us_ran /\ us_start > 2 * Late => us_elapsed <= us_asked + Allowed

============================================================================
