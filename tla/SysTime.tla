------------------------------ MODULE SysTime ------------------------------
(***************************************************************************)
(* The time of day (lib/time.c): two fields that the system tick advances, *)
(* that set_time writes under a lock and that get_time reads, under the    *)
(* lock only where it finds the interrupts masked; and the differences of  *)
(* two times.                                                              *)
(***************************************************************************)
EXTENDS Integers

CONSTANTS
    MaxSeconds,     \* bound: the seconds counted, in place of 2^32 - 1
    LastMsec        \* 999 in the code

ASSUME SysTimeSizes == MaxSeconds \in Nat /\ LastMsec \in Nat

SecondsWrap == 4 * (MaxSeconds + 1)     \* 2^32 in the code: above any difference

Times == [seconds: 0 .. MaxSeconds, msec: 0 .. LastMsec]

ZeroTime == [seconds |-> 0, msec |-> 0]

VARIABLES
    time,
    time_lock,
    irq_masked,     \* PRIMASK
    time_pc,        \* main loop: "idle", "want", "seconds", "msec" or "release"
    time_call,      \* "none", "set", "adjust", "get" with the lock, "peek" without
    new_time,       \* set_time's argument, or get_time's result
    tmp_old, diff,  \* set_time_and_get_difference: the time before, and the difference
    had             \* history: the times the clock had since the call began

time_vars == <<time, time_lock, irq_masked, time_pc, time_call, new_time, tmp_old, diff, had>>

SysTimeInit ==
    /\ time = ZeroTime /\ time_lock = FALSE
    /\ irq_masked = FALSE
    /\ time_pc = "idle" /\ time_call = "none"
    /\ new_time = time /\ had = {time}
    /\ tmp_old = ZeroTime /\ diff = ZeroTime

Advanced(t) ==
    IF t.msec + 1 > LastMsec THEN [seconds |-> t.seconds + 1, msec |-> 0]
                             ELSE [t EXCEPT !.msec = t.msec + 1]

Thousand == LastMsec + 1

\* get_time_diff: which of the two is later, and by how much.
Apart(sign, later, earlier) ==
    LET msec == later.msec + Thousand - earlier.msec
        seconds == later.seconds - earlier.seconds - 1
    IN IF msec >= Thousand
       THEN [sign |-> sign, seconds |-> seconds + 1, msec |-> msec - Thousand]
       ELSE [sign |-> sign, seconds |-> seconds, msec |-> msec]
get_time_diff(t1, t2) ==
    IF t1.seconds < t2.seconds THEN Apart(-1, t2, t1)
    ELSE IF t1.seconds > t2.seconds THEN Apart(1, t1, t2)
    ELSE IF t1.msec < t2.msec THEN [sign |-> -1, seconds |-> 0, msec |-> t2.msec - t1.msec]
    ELSE IF t1.msec = t2.msec THEN [sign |-> 0, seconds |-> 0, msec |-> 0]
    ELSE [sign |-> 1, seconds |-> 0, msec |-> t1.msec - t2.msec]

\* What set_time_and_get_difference leaves in diff, whose fields are unsigned: the
\* seconds are not written between two times of the same second.
DifferenceFrom(old, new) ==
    LET msec == IF new.seconds > old.seconds THEN Thousand - old.msec + new.msec
                                             ELSE Thousand - new.msec + old.msec
        seconds == new.seconds - old.seconds
    IN IF new.seconds = old.seconds
       THEN [diff EXCEPT !.msec = (new.msec - old.msec) % 2 ^ 16]
       ELSE IF msec > Thousand
       THEN [seconds |-> seconds % SecondsWrap, msec |-> msec - Thousand]
       ELSE [seconds |-> (seconds - 1) % SecondsWrap, msec |-> msec]

\* time_track, in the tick's interrupt.  Mutant: it does not look at the lock.
TrackUnlocked ==
    /\ ~irq_masked
    /\ Advanced(time) \in Times
    /\ time' = Advanced(time)
    /\ had' = had \cup {time'}
    /\ UNCHANGED <<time_lock, irq_masked, time_pc, time_call, new_time, tmp_old, diff>>
time_track ==
    /\ ~irq_masked
    /\ Advanced(time) \in Times
    /\ time' = IF time_lock THEN time ELSE Advanced(time)
    /\ had' = had \cup {time'}
    /\ UNCHANGED <<time_lock, irq_masked, time_pc, time_call, new_time, tmp_old, diff>>

\* A call of the main loop.  get_time reads at once unless interrupts are masked;
\* diff is the caller's, and DTPlug's slave leaves it uninitialized.
TimeCall ==
    /\ time_pc = "idle"
    /\ had' = {time}
    /\ \/ time_call' \in {"set", "adjust"} /\ new_time' \in Times /\ time_pc' = "want"
       \/ /\ time_call' = IF irq_masked THEN "get" ELSE "peek"
          /\ time_pc' = IF irq_masked THEN "want" ELSE "seconds"
          /\ UNCHANGED new_time
    /\ tmp_old' = ZeroTime
    /\ diff' \in (IF time_call' = "adjust" THEN {ZeroTime, [ZeroTime EXCEPT !.seconds = 1]}
                                           ELSE {ZeroTime})
    /\ UNCHANGED <<time, time_lock, irq_masked>>

\* sync_lock_test_and_set: it masks the interrupts, and then lets them come,
\* whatever they were before.
TakeLock ==
    /\ time_pc = "want" /\ ~time_lock
    /\ time_lock' = TRUE /\ irq_masked' = FALSE
    /\ time_pc' = "seconds"
    /\ tmp_old' = IF time_call = "adjust" THEN time ELSE tmp_old
    /\ UNCHANGED <<time, time_call, new_time, diff, had>>

MoveSeconds ==
    /\ time_pc = "seconds" /\ time_pc' = "msec"
    /\ IF time_call \in {"set", "adjust"}
       THEN time' = [time EXCEPT !.seconds = new_time.seconds] /\ UNCHANGED new_time
       ELSE new_time' = [new_time EXCEPT !.seconds = time.seconds] /\ UNCHANGED time
    /\ UNCHANGED <<time_lock, irq_masked, time_call, tmp_old, diff, had>>

MoveMsec ==
    /\ time_pc = "msec"
    /\ time_pc' = IF time_call = "peek" THEN "idle" ELSE "release"
    /\ IF time_call \in {"set", "adjust"}
       THEN time' = [time EXCEPT !.msec = new_time.msec] /\ had' = had \cup {time'}
            /\ UNCHANGED new_time
       ELSE new_time' = [new_time EXCEPT !.msec = time.msec] /\ UNCHANGED <<time, had>>
    /\ UNCHANGED <<time_lock, irq_masked, time_call, tmp_old, diff>>

\* The difference is then computed from what the call alone has seen.
ReleaseLock ==
    /\ time_pc = "release"
    /\ time_lock' = FALSE /\ time_pc' = "idle"
    /\ diff' = IF time_call = "adjust" THEN DifferenceFrom(tmp_old, new_time) ELSE diff
    /\ UNCHANGED <<time, irq_masked, time_call, new_time, tmp_old, had>>

\* Other code masks the interrupts or lets them come.
MaskInterrupts ==
    /\ time_pc = "idle" /\ irq_masked' = ~irq_masked
    /\ UNCHANGED <<time, time_lock, time_pc, time_call, new_time, tmp_old, diff, had>>

SysTimeNext ==
    \/ time_track \/ TimeCall \/ TakeLock \/ MoveSeconds \/ MoveMsec \/ ReleaseLock
    \/ MaskInterrupts

SysTimeSpec == SysTimeInit /\ [][SysTimeNext]_time_vars

SysTimeTypeOK ==
    /\ {time, new_time, tmp_old} \subseteq Times
    /\ diff \in [seconds: 0 .. SecondsWrap - 1, msec: 0 .. 2 ^ 16 - 1]
    /\ had \subseteq Times
    /\ {time_lock, irq_masked} \subseteq BOOLEAN
    /\ time_pc \in {"idle", "want", "seconds", "msec", "release"}
    /\ time_call \in {"none", "set", "adjust", "get", "peek"}

\* A set_time leaves the time it was given, and a get_time that takes the lock
\* returns one the clock had, although the tick comes between their two fields;
\* and the lock, which no interrupt may wait for, is not left behind.
LockedTimeIsWhole ==
    /\ time_pc = "release" /\ time_call \in {"set", "adjust"} => time = new_time
    /\ time_pc = "release" /\ time_call = "get" => new_time \in had
    /\ time_pc = "idle" => ~time_lock

Value(t) == t.seconds * Thousand + t.msec

\* A clock set to a later second tells by how much, and get_time_diff, between any
\* two times, which is later and by how much.
DifferencesAreRight ==
    /\ (time_pc = "idle" /\ time_call = "adjust" /\ new_time.seconds > tmp_old.seconds) =>
         Value(diff) = Value(new_time) - Value(tmp_old)
    /\ LET d == get_time_diff(new_time, time)
       IN d.msec \in 0 .. LastMsec /\ d.sign * Value(d) = Value(new_time) - Value(time)

============================================================================
