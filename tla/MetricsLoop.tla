---------------------------- MODULE MetricsLoop ----------------------------
(***************************************************************************)
(* The metrics polling loop (run_metrics_fetcher_forever of run_docker.py) *)
(* and the execution time it queries for (_snap_execution_time of main.py). *)
(* A cycle queries the metrics of the window                               *)
(*     [execution_time - effective interval, execution_time]               *)
(* and the execution time advances from cycle to cycle so that the windows *)
(* join, although polling takes time, sleeping is not exact, polls time    *)
(* out and the wall clock may be corrected.                                *)
(*                                                                         *)
(* The code compares the wall clock with _last_execution_time only, so the *)
(* model keeps their difference instead of absolute times.  Times are in   *)
(* ticks, a whole number of them to a second.                              *)
(***************************************************************************)
EXTENDS Integers

CONSTANTS
    Second,             \* ticks of a second
    Interval,           \* QUERY_INTERVAL_SEC
    CatchUpThreshold,   \* _CATCH_UP_THRESHOLD, also the step to catch up by
    HardResetThreshold, \* _HARD_RESET_THRESHOLD
    Preparations,       \* how long a cycle takes to get its services
    Durations,          \* how long polling a cycle may take on time
    SlowDurations,      \* how long it may take when it is late or times out
    Jitter,             \* how much later than asked asyncio.sleep may return
    Jumps,              \* corrections of the wall clock
    MaxDisturbances     \* bound of the model: late polls, jumps and crashes

ASSUME MetricsLoopAssumption ==
    /\ {Second, Interval, CatchUpThreshold, HardResetThreshold}
         \subseteq Nat \ {0}
    /\ CatchUpThreshold < HardResetThreshold
    /\ Interval % Second = 0 /\ CatchUpThreshold % Second = 0
    /\ Preparations \subseteq 0..CatchUpThreshold
    /\ Durations \subseteq 0..Interval
    /\ SlowDurations \subseteq Nat
    /\ Jitter \subseteq Nat
    /\ Jumps \subseteq Int
    /\ MaxDisturbances \in Nat

\* Waking up late and preparing a cycle together take less than the loop
\* catches up with in one cycle, and it gives up only after missing twice that.
ASSUME SmallDelaysAssumption ==
    /\ \A j \in Jitter, p \in Preparations : j + p <= CatchUpThreshold
    /\ 2 * CatchUpThreshold <= HardResetThreshold

VARIABLES
    phase,        \* of the loop: "ready" for a cycle, "polling", "sleeping"
    started,      \* _last_execution_time is not None
    age,          \* wall clock minus _last_execution_time
    snap,         \* what _snap_execution_time did last (its third result)
    advance,      \* how far that moved the execution time
    width,        \* the effective interval it returned
    spent,        \* time since start_time_s, by the wall clock
    disturbances, \* late polls, jumps and crashes so far
    setBack,      \* history: a correction made the clock run short of a cycle
    resets        \* history: how often the loop gave up what it had not queried

history == <<setBack, resets>>
vars ==
    <<phase, started, age, snap, advance, width, spent, disturbances, history>>

Disturbance == disturbances < MaxDisturbances /\ disturbances' = disturbances + 1

Init ==
    /\ phase = "ready"
    /\ started = FALSE
    /\ age \in 0..(Second - 1)
    /\ snap = "none"
    /\ advance = 0
    /\ width = Interval
    /\ spent = 0
    /\ disturbances = 0
    /\ setBack = FALSE
    /\ resets = 0

-----------------------------------------------------------------------------
(* _snap_execution_time.  Each alternative sets the execution time to the  *)
(* last one plus "by" and returns the effective interval "interval".       *)

Drift == age - Interval

Move(action, by, interval) ==
    /\ phase = "ready"
    /\ phase' = "polling"
    /\ snap' = action
    /\ advance' = by
    /\ width' = interval
    /\ age' = age - by
    /\ UNCHANGED <<spent, disturbances, setBack>>

\* Counts to one more than ResetsNeedDisturbances allows, at most.
MaxResets == 2 * MaxDisturbances + 1
CountReset == resets' = IF resets < MaxResets THEN resets + 1 ELSE resets

\* now.replace(microsecond=0): _last_execution_time is a whole second, so the
\* fraction of the wall clock is the fraction of its age.
ToTruncatedNow == age - (age % Second)

SnapInit ==
    /\ ~started
    /\ started' = TRUE
    /\ Move("init", ToTruncatedNow, Interval)
    /\ UNCHANGED resets

\* Mutant: drift instead of abs(drift).
SnapExpectedWithoutAbs ==
    /\ started
    /\ Drift <= CatchUpThreshold
    /\ Move("snapped", Interval, Interval)
    /\ UNCHANGED <<started, resets>>

SnapExpected ==
    /\ started
    /\ -CatchUpThreshold <= Drift /\ Drift <= CatchUpThreshold
    /\ Move("snapped", Interval, Interval)
    /\ UNCHANGED <<started, resets>>

SnapCatchUp ==
    /\ started
    /\ CatchUpThreshold < Drift /\ Drift <= HardResetThreshold
    /\ Move("catch-up", Interval + CatchUpThreshold, Interval + CatchUpThreshold)
    /\ UNCHANGED <<started, resets>>

\* Mutant: gives up where it should catch up.
SnapResetEarly ==
    /\ started
    /\ Drift < -CatchUpThreshold \/ CatchUpThreshold < Drift
    /\ Move("hard-reset", ToTruncatedNow, Interval)
    /\ CountReset
    /\ UNCHANGED started

SnapReset ==
    /\ started
    /\ Drift < -CatchUpThreshold \/ HardResetThreshold < Drift
    /\ Move("hard-reset", ToTruncatedNow, Interval)
    /\ CountReset
    /\ UNCHANGED started

Snap == SnapInit \/ SnapExpected \/ SnapCatchUp \/ SnapReset

-----------------------------------------------------------------------------
(* run_metrics_fetcher_forever.                                            *)

\* Polling, reporting and refreshing the extensions took a while.
Polled(duration) ==
    /\ phase = "polling"
    /\ phase' = "sleeping"
    /\ spent' = spent + duration
    /\ age' = age + duration
    /\ UNCHANGED <<started, snap, advance, width, history>>

PolledOnTime == (\E d \in Durations : Polled(d)) /\ UNCHANGED disturbances

\* It took longer: up to the timeout, when wait_for cancels the poll, plus the
\* report of the timeout and the refresh.  The loop goes on.
PolledLate == (\E d \in SlowDurations : Polled(d)) /\ Disturbance

\* Mutant: the duration of the polling is not subtracted.
SleepTimeFull == Interval

\* sleep_until_next_polling.
SleepTime == IF spent < Interval THEN Interval - spent ELSE 0

\* Mutant: start_time_s is read once, before the loop.
SleepKeepsStart ==
    /\ phase = "sleeping"
    /\ phase' = "ready"
    /\ \E j \in Jitter, p \in Preparations :
        /\ age' = age + SleepTime + j + p
        /\ spent' = spent + SleepTime + j + p
    /\ UNCHANGED <<started, snap, advance, width, disturbances, history>>

\* The loop sleeps, begins its next cycle and gets the services for it.
Sleep ==
    /\ phase = "sleeping"
    /\ phase' = "ready"
    /\ \E j \in Jitter, p \in Preparations :
        /\ age' = age + SleepTime + j + p
        /\ spent' = p
    /\ UNCHANGED <<started, snap, advance, width, disturbances, history>>

\* The wall clock is corrected, in either direction.  The duration of a cycle
\* is measured by it too: a correction after start_time_s was read counts, and
\* one between that and the snap shortens the next window's share of time.
ClockJumps ==
    /\ Disturbance
    /\ \E j \in Jumps :
        /\ age' = age + j
        /\ \/ /\ phase # "sleeping"
              /\ spent' = spent + j
              /\ setBack' = (setBack \/ j < 0 \/ phase = "ready")
           \/ /\ phase # "polling"
              /\ setBack' = (setBack \/ j < 0)
              /\ UNCHANGED spent
    /\ UNCHANGED <<phase, started, snap, advance, width, resets>>

\* Only the timeout of a poll is caught: any other exception ends the process
\* and the next one starts without a last execution time.
Crash ==
    /\ phase = "polling"
    /\ Disturbance
    /\ phase' = "ready"
    /\ started' = FALSE
    /\ age' \in 0..(Second - 1)
    /\ spent' = 0
    /\ UNCHANGED <<snap, advance, width, history>>

Next ==
    \/ SnapInit \/ SnapExpected \/ SnapCatchUp \/ SnapReset
    \/ PolledOnTime \/ PolledLate \/ Sleep
    \/ ClockJumps \/ Crash

Spec == Init /\ [][Next]_vars

\* The loop always goes on: each await in it returns.
Fairness == WF_vars(Snap \/ PolledOnTime \/ PolledLate \/ Sleep)

FairSpec == Spec /\ Fairness

-----------------------------------------------------------------------------
TypeOK ==
    /\ phase \in {"ready", "polling", "sleeping"}
    /\ started \in BOOLEAN
    /\ age \in Int
    /\ snap \in {"none", "init", "snapped", "catch-up", "hard-reset"}
    /\ advance \in Int
    /\ width \in {Interval, Interval + CatchUpThreshold}
    /\ spent \in Int
    /\ disturbances \in 0..MaxDisturbances
    /\ setBack \in BOOLEAN
    /\ resets \in 0..MaxResets

\* "start[n] == end[n-1] (no overlap, no gap)": a running loop leaves a gap, or
\* queries a window again, only where it gives up and resets.  That takes a late
\* poll or a correction of the clock: late wake-ups and slow preparations never
\* add up to it, in however many cycles.  One disturbance makes the loop reset
\* twice at most: a correction between the start of a cycle and its snap does,
\* by the drift it causes and by the sleep that is measured with it.
ResetsNeedDisturbances == resets <= 2 * disturbances

\* When a cycle starts polling, the end of its window is ahead of the wall
\* clock by the catch-up threshold at most, and behind it by less than the
\* stall that makes the loop give up.
NearClock(a) ==
    /\ a >= -CatchUpThreshold
    /\ \/ a <= CatchUpThreshold
       \/ a <= HardResetThreshold - CatchUpThreshold
       \/ a < Second

ExecutionTimeNearClock == [][Snap => NearClock(age')]_vars

\* No data is queried twice, whatever the delays, timeouts and stalls: only a
\* clock that is set back makes a window overlap the one before it.
NoOverlap == setBack \/ snap \in {"none", "init"} \/ advance >= width

\* Sleeping too long in every cycle never adds up to a stall: once polls are
\* in time and the clock is steady, no more data is given up ...
ResetsStop == <>[](snap # "hard-reset")

\* ... and the loop catches up with the wall clock again and again.
KeepsUp == []<>(snap = "snapped")
=============================================================================
