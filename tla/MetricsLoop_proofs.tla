------------------------ MODULE MetricsLoop_proofs -------------------------
(***************************************************************************)
(* Theorems about MetricsLoop, for any interval, thresholds, delays and    *)
(* corrections of the clock.                                               *)
(***************************************************************************)
EXTENDS MetricsLoop, TLAPS

LEMMA AssumptionFacts ==
    /\ Second \in Nat \ {0} /\ Interval \in Nat \ {0}
    /\ CatchUpThreshold \in Nat \ {0} /\ HardResetThreshold \in Nat \ {0}
    /\ CatchUpThreshold < HardResetThreshold
    /\ MaxDisturbances \in Nat
  BY MetricsLoopAssumption DEF MetricsLoopAssumption

\* Truncating loses less than a second.
LEMMA Truncation ==
    ASSUME NEW a \in Int
    PROVE  a % Second \in 0..(Second - 1)
  BY AssumptionFacts

LEMMA MoveType ==
    ASSUME TypeOK, started' \in BOOLEAN,
           NEW action \in {"init", "snapped", "catch-up", "hard-reset"},
           NEW by \in Int,
           NEW interval \in {Interval, Interval + CatchUpThreshold},
           Move(action, by, interval),
           resets' = resets \/ CountReset
    PROVE  TypeOK'
  <1>1. MaxResets \in Nat
    BY AssumptionFacts DEF MaxResets
  <1>2. resets' \in 0..MaxResets
    BY <1>1 DEF TypeOK, CountReset
  <1>3. QED
    BY <1>2 DEF TypeOK, Move

LEMMA SnapStepType ==
    ASSUME TypeOK, Snap
    PROVE  TypeOK'
  <1>1. ToTruncatedNow \in Int
    BY AssumptionFacts, Truncation DEF ToTruncatedNow, TypeOK
  <1>2. CASE SnapInit
    BY <1>1, <1>2, MoveType DEF SnapInit
  <1>3. CASE SnapExpected
    <2>1. started' \in BOOLEAN
      BY <1>3 DEF SnapExpected, TypeOK
    <2>2. QED
      BY <1>3, <2>1, MoveType, AssumptionFacts DEF SnapExpected
  <1>4. CASE SnapCatchUp
    <2>1. started' \in BOOLEAN
      BY <1>4 DEF SnapCatchUp, TypeOK
    <2>2. QED
      BY <1>4, <2>1, MoveType, AssumptionFacts DEF SnapCatchUp
  <1>5. CASE SnapReset
    <2>1. started' \in BOOLEAN
      BY <1>5 DEF SnapReset, TypeOK
    <2>2. QED
      BY <1>1, <1>5, <2>1, MoveType DEF SnapReset
  <1>6. QED
    BY <1>2, <1>3, <1>4, <1>5 DEF Snap

LEMMA SleepTimeType == ASSUME TypeOK PROVE SleepTime \in Nat
  BY AssumptionFacts DEF SleepTime, TypeOK

\* The actions of the loop and of its environment other than the snaps.
LEMMA OtherStepType ==
    ASSUME TypeOK, PolledOnTime \/ PolledLate \/ Sleep \/ ClockJumps \/ Crash
    PROVE  TypeOK'
  <1> USE MetricsLoopAssumption
  <1>1. CASE PolledOnTime
    BY <1>1 DEF PolledOnTime, Polled, history, TypeOK, MetricsLoopAssumption
  <1>2. CASE PolledLate
    BY <1>2
    DEF PolledLate, Polled, Disturbance, history, TypeOK, MetricsLoopAssumption
  <1>3. CASE Sleep
    BY <1>3, SleepTimeType DEF Sleep, history, TypeOK, MetricsLoopAssumption
  <1>4. CASE ClockJumps
    <2>1. PICK j \in Jumps :
            /\ age' = age + j
            /\ \/ /\ phase # "sleeping"
                  /\ spent' = spent + j
                  /\ setBack' = (setBack \/ j < 0 \/ phase = "ready")
               \/ /\ phase # "polling"
                  /\ setBack' = (setBack \/ j < 0)
                  /\ UNCHANGED spent
      BY <1>4 DEF ClockJumps
    <2>2. setBack' \in BOOLEAN
      BY <2>1
    <2>3. j \in Int
      BY DEF MetricsLoopAssumption
    <2>4. age' \in Int /\ spent' \in Int
      BY <2>1, <2>3 DEF TypeOK
    <2>5. disturbances' \in 0..MaxDisturbances
      BY <1>4 DEF ClockJumps, Disturbance, TypeOK, MetricsLoopAssumption
    <2>6. QED
      BY <1>4, <2>2, <2>4, <2>5 DEF ClockJumps, TypeOK
  <1>5. CASE Crash
    <2>1. age' \in 0..(Second - 1) /\ disturbances' \in 0..MaxDisturbances
      BY <1>5, AssumptionFacts DEF Crash, Disturbance, TypeOK
    <2>2. age' \in Int
      BY <2>1, AssumptionFacts
    <2>3. spent' \in Int
      BY <1>5 DEF Crash
    <2>4. QED
      BY <1>5, <2>1, <2>2, <2>3 DEF Crash, history, TypeOK
  <1>6. QED
    BY <1>1, <1>2, <1>3, <1>4, <1>5

\* The state of the loop is well typed; the effective interval is the query
\* interval or that and the step to catch up by, also after many stalls.
THEOREM TypeCorrect == Spec => []TypeOK
  <1>1. ASSUME Init PROVE TypeOK
    <2>1. age \in Int /\ spent \in Int /\ advance \in Int
      BY <1>1, AssumptionFacts DEF Init
    <2>2. disturbances \in 0..MaxDisturbances /\ resets \in 0..MaxResets
      BY <1>1, AssumptionFacts DEF Init, MaxResets
    <2>3. QED
      BY <1>1, <2>1, <2>2 DEF Init, TypeOK
  <1>2. TypeOK /\ [Next]_vars => TypeOK'
    <2> SUFFICES ASSUME TypeOK, [Next]_vars PROVE TypeOK'
      OBVIOUS
    <2>1. CASE Snap
      BY <2>1, SnapStepType
    <2>2. CASE PolledOnTime \/ PolledLate \/ Sleep \/ ClockJumps \/ Crash
      BY <2>2, OtherStepType
    <2>3. CASE UNCHANGED vars
      BY <2>3 DEF vars, history, TypeOK
    <2>4. QED
      BY <2>1, <2>2, <2>3 DEF Next, Snap
  <1>3. QED
    BY <1>1, <1>2, PTL DEF Spec

\* Each way to set the execution time leaves it near the wall clock.
LEMMA SnapNearClock ==
    ASSUME TypeOK, Snap
    PROVE  NearClock(age')
  <1> USE AssumptionFacts
  <1>1. age \in Int /\ age % Second \in 0..(Second - 1)
    BY Truncation DEF TypeOK
  <1>2. CASE SnapInit
    BY <1>1, <1>2 DEF SnapInit, Move, ToTruncatedNow, NearClock
  <1>3. CASE SnapExpected
    BY <1>1, <1>3 DEF SnapExpected, Move, Drift, NearClock
  <1>4. CASE SnapCatchUp
    BY <1>1, <1>4 DEF SnapCatchUp, Move, Drift, NearClock
  <1>5. CASE SnapReset
    BY <1>1, <1>5 DEF SnapReset, Move, ToTruncatedNow, NearClock
  <1>6. QED
    BY <1>2, <1>3, <1>4, <1>5 DEF Snap

\* No stall and no correction of the clock, of whatever size, leaves a cycle
\* querying a window far from the present.
THEOREM StaysNearClock == Spec => ExecutionTimeNearClock
  <1>1. TypeOK /\ [Next]_vars => [Snap => NearClock(age')]_vars
    BY SnapNearClock
  <1>2. QED
    BY <1>1, TypeCorrect, PTL DEF Spec, ExecutionTimeNearClock

-----------------------------------------------------------------------------
\* Unless a correction of the clock interferes, each cycle begins the query
\* interval or more after the one before it, up to what the execution time was
\* ahead already: the loop never finds the clock too far behind.
OnSchedule ==
    ~setBack =>
        /\ phase = "ready" =>
            /\ spent \in 0..CatchUpThreshold
            /\ started => age - spent >= Interval - CatchUpThreshold
        /\ phase # "ready" => age - spent >= -CatchUpThreshold

OverlapInv == TypeOK /\ OnSchedule /\ NoOverlap

LEMMA InitOverlap == Init /\ TypeOK => OverlapInv
  BY AssumptionFacts DEF Init, OverlapInv, OnSchedule, NoOverlap

\* A stall that makes the loop give up is longer than the interval, even after
\* the fraction of a second is cut off.
LEMMA ResetMovesFar ==
    ASSUME NEW a \in Int, a - Interval > HardResetThreshold
    PROVE  a - (a % Second) >= Interval
  <1> USE AssumptionFacts
  <1>1. CatchUpThreshold % Second = 0
    BY MetricsLoopAssumption DEF MetricsLoopAssumption
  <1>2. CatchUpThreshold >= Second
    BY <1>1
  <1>3. a % Second \in 0..(Second - 1)
    BY Truncation
  <1>4. QED
    BY <1>2, <1>3

LEMMA SnapOverlap ==
    ASSUME OverlapInv, Snap
    PROVE  OnSchedule' /\ NoOverlap'
  <1> USE AssumptionFacts
  <1>1. /\ age \in Int /\ spent \in Int
        /\ age % Second \in 0..(Second - 1)
    BY Truncation DEF OverlapInv, TypeOK
  <1>2. phase = "ready" /\ phase' = "polling" /\ setBack' = setBack
        /\ spent' = spent
    BY DEF Snap, SnapInit, SnapExpected, SnapCatchUp, SnapReset, Move
  <1>3. SUFFICES ASSUME ~setBack
                 PROVE  /\ age' - spent' >= -CatchUpThreshold
                        /\ snap' \in {"none", "init"} \/ advance' >= width'
    BY <1>2 DEF OnSchedule, NoOverlap
  <1>4. /\ 0 <= spent /\ spent <= CatchUpThreshold
        /\ started => age - spent >= Interval - CatchUpThreshold
    BY <1>2, <1>3 DEF OverlapInv, OnSchedule
  <1>5. CASE SnapInit
    BY <1>1, <1>2, <1>4, <1>5 DEF SnapInit, Move, ToTruncatedNow
  <1>6. CASE SnapExpected
    BY <1>1, <1>2, <1>4, <1>6 DEF SnapExpected, Move, Drift
  <1>7. CASE SnapCatchUp
    BY <1>1, <1>2, <1>4, <1>7 DEF SnapCatchUp, Move, Drift
  <1>8. CASE SnapReset
    <2>1. age - Interval > HardResetThreshold
      BY <1>1, <1>4, <1>8 DEF SnapReset, Drift
    <2>2. age - (age % Second) >= Interval
      BY <1>1, <2>1, ResetMovesFar
    <2>3. QED
      BY <1>1, <1>2, <1>4, <1>8, <2>2 DEF SnapReset, Move, ToTruncatedNow
  <1>9. QED
    BY <1>5, <1>6, <1>7, <1>8 DEF Snap

LEMMA SleepOverlap ==
    ASSUME OverlapInv, Sleep
    PROVE  OnSchedule' /\ NoOverlap'
  <1> USE AssumptionFacts
  <1>1. /\ age \in Int /\ spent \in Int
        /\ SleepTime \in Nat /\ SleepTime >= Interval - spent
    BY SleepTimeType DEF OverlapInv, TypeOK, SleepTime
  <1>2. PICK j \in Jitter, p \in Preparations :
            age' = age + SleepTime + j + p /\ spent' = p
    BY DEF Sleep
  <1>3. j \in Nat /\ p \in 0..CatchUpThreshold
    BY MetricsLoopAssumption DEF MetricsLoopAssumption
  <1>4. phase = "sleeping" /\ phase' = "ready" /\ UNCHANGED <<snap, advance, width, setBack>>
    BY DEF Sleep, history
  <1>5. NoOverlap'
    BY <1>4 DEF OverlapInv, NoOverlap
  <1>6. SUFFICES ASSUME ~setBack
                 PROVE  age' - spent' >= Interval - CatchUpThreshold
    BY <1>2, <1>3, <1>4, <1>5 DEF OnSchedule
  <1>7. age - spent >= -CatchUpThreshold
    BY <1>4, <1>6 DEF OverlapInv, OnSchedule
  <1>8. QED
    BY <1>1, <1>2, <1>3, <1>7

LEMMA PolledOverlap ==
    ASSUME OverlapInv, NEW d \in Nat, Polled(d)
    PROVE  OnSchedule' /\ NoOverlap'
  <1>1. age \in Int /\ spent \in Int
    BY DEF OverlapInv, TypeOK
  <1>2. UNCHANGED <<snap, advance, width, setBack>>
    BY DEF Polled, history
  <1>3. /\ phase = "polling" /\ phase' = "sleeping"
        /\ age' = age + d /\ spent' = spent + d
    BY DEF Polled
  <1>4. ~setBack => age' - spent' >= -CatchUpThreshold
    BY <1>1, <1>3, AssumptionFacts DEF OverlapInv, OnSchedule
  <1>5. QED
    BY <1>2, <1>3, <1>4 DEF OverlapInv, OnSchedule, NoOverlap

LEMMA ClockOverlap ==
    ASSUME OverlapInv, ClockJumps
    PROVE  OnSchedule' /\ NoOverlap'
  <1> USE AssumptionFacts
  <1>1. PICK j \in Jumps :
          /\ age' = age + j
          /\ \/ /\ phase # "sleeping"
                /\ spent' = spent + j
                /\ setBack' = (setBack \/ j < 0 \/ phase = "ready")
             \/ /\ phase # "polling"
                /\ setBack' = (setBack \/ j < 0)
                /\ UNCHANGED spent
    BY DEF ClockJumps
  <1>2. age \in Int /\ spent \in Int /\ j \in Int
    BY MetricsLoopAssumption DEF OverlapInv, TypeOK, MetricsLoopAssumption
  <1>3. UNCHANGED <<phase, started, snap, advance, width>>
    BY DEF ClockJumps
  <1>4. CASE setBack'
    BY <1>4 DEF OnSchedule, NoOverlap
  <1>5. CASE ~setBack'
    <2>1. /\ ~setBack /\ ~(j < 0)
          /\ spent' = spent \/ (phase = "polling" /\ spent' = spent + j)
      BY <1>1, <1>5 DEF OverlapInv, TypeOK
    <2>2. age' - spent' >= age - spent
      BY <1>1, <1>2, <2>1
    <2>3. phase = "ready" =>
            /\ spent' = spent /\ spent \in 0..CatchUpThreshold
            /\ started => age' - spent' >= Interval - CatchUpThreshold
      BY <1>1, <1>2, <2>1, <2>2 DEF OverlapInv, OnSchedule
    <2>4. phase # "ready" => age' - spent' >= -CatchUpThreshold
      BY <1>1, <1>2, <2>1, <2>2 DEF OverlapInv, OnSchedule
    <2>5. OnSchedule'
      BY <1>3, <2>3, <2>4 DEF OnSchedule
    <2>6. NoOverlap'
      BY <1>3, <2>1 DEF OverlapInv, NoOverlap
    <2>7. QED
      BY <2>5, <2>6
  <1>6. QED
    BY <1>4, <1>5

LEMMA CrashOverlap ==
    ASSUME OverlapInv, Crash
    PROVE  OnSchedule' /\ NoOverlap'
  <1>1. /\ phase' = "ready" /\ started' = FALSE /\ spent' = 0
        /\ UNCHANGED <<snap, advance, width, setBack>>
    BY DEF Crash, history
  <1>2. 0 \in 0..CatchUpThreshold
    BY AssumptionFacts
  <1>3. OnSchedule'
    BY <1>1, <1>2 DEF OnSchedule
  <1>4. QED
    BY <1>1, <1>3 DEF OverlapInv, NoOverlap

\* The execution time overtakes the end of no window: stalls, timeouts, long
\* cycles and late wake-ups never make a cycle query data a second time; it
\* takes a correction of the clock to do so.
THEOREM NothingQueriedTwice == Spec => []NoOverlap
  <1>1. Init /\ TypeOK => OverlapInv
    BY InitOverlap
  <1>2. OverlapInv /\ TypeOK' /\ [Next]_vars => OverlapInv'
    <2> SUFFICES ASSUME OverlapInv, TypeOK', [Next]_vars
                 PROVE  OnSchedule' /\ NoOverlap'
      BY DEF OverlapInv
    <2>1. CASE Snap
      BY <2>1, SnapOverlap
    <2>2. CASE PolledOnTime
      <3>1. \A d \in Durations : d \in Nat
        BY AssumptionFacts, MetricsLoopAssumption DEF MetricsLoopAssumption
      <3>2. QED
        BY <2>2, <3>1, PolledOverlap DEF PolledOnTime
    <2>3. CASE PolledLate
      <3>1. \A d \in SlowDurations : d \in Nat
        BY MetricsLoopAssumption DEF MetricsLoopAssumption
      <3>2. QED
        BY <2>3, <3>1, PolledOverlap DEF PolledLate
    <2>4. CASE Sleep
      BY <2>4, SleepOverlap
    <2>5. CASE ClockJumps
      BY <2>5, ClockOverlap
    <2>6. CASE Crash
      BY <2>6, CrashOverlap
    <2>7. CASE UNCHANGED vars
      BY <2>7 DEF vars, history, OverlapInv, OnSchedule, NoOverlap
    <2>8. QED
      BY <2>1, <2>2, <2>3, <2>4, <2>5, <2>6, <2>7 DEF Next, Snap
  <1>3. OverlapInv => NoOverlap
    BY DEF OverlapInv
  <1>4. QED
    BY <1>1, <1>2, <1>3, TypeCorrect, PTL DEF Spec

-----------------------------------------------------------------------------
(***************************************************************************)
(* How often the loop gives up.  A state is settled when no reset is due,  *)
(* whatever the undisturbed cycles that follow it do.                      *)
(***************************************************************************)
SettledReady ==
    /\ spent \in 0..CatchUpThreshold
    /\ started => /\ age - spent >= Interval - CatchUpThreshold
                  /\ age <= Interval + HardResetThreshold

SettledPolling ==
    /\ spent \in 0..CatchUpThreshold
    /\ age - spent >= -CatchUpThreshold
    /\ age <= HardResetThreshold - CatchUpThreshold

SettledSleeping ==
    /\ spent >= 0
    /\ age - spent >= -CatchUpThreshold
    /\ age - spent <= HardResetThreshold - CatchUpThreshold
    /\ age <= Interval + HardResetThreshold - CatchUpThreshold

Settled ==
    /\ phase = "ready" => SettledReady
    /\ phase = "polling" => SettledPolling
    /\ phase = "sleeping" => SettledSleeping

\* The cycle about to snap has a start that is off the clock.
OffClock == phase = "ready" /\ spent \notin 0..CatchUpThreshold

\* The resets still due are paid for: one unless the loop is settled, and two
\* off the clock, one by the drift and one by the sleep measured with the start.
Paid(due) == resets + due <= 2 * disturbances
ResetsPaid ==
    /\ Paid(0)
    /\ ~Settled => Paid(1)
    /\ OffClock => Paid(2)

ResetsInv == TypeOK /\ ResetsPaid

LEMMA Counters ==
    ASSUME TypeOK
    PROVE  /\ resets \in Nat /\ disturbances \in Nat
           /\ age \in Int /\ spent \in Int
  BY AssumptionFacts DEF TypeOK, MaxResets

\* Nothing is counted, and no more is due than before.
LEMMA NothingNewDue ==
    ASSUME ResetsInv, resets' = resets, disturbances' = disturbances,
           ~Settled' => ~Settled, ~OffClock'
    PROVE  ResetsPaid'
  BY Counters DEF ResetsInv, ResetsPaid, Paid

\* A reset, and the first snap of a process, leave the loop settled unless the
\* start of the cycle is off the clock.
LEMMA TruncatedSettles ==
    ASSUME TypeOK, phase' = "polling", spent' = spent, spent \in 0..CatchUpThreshold,
           age' = age - ToTruncatedNow
    PROVE  Settled'
  <1> USE AssumptionFacts
  <1>1. age \in Int /\ age % Second \in 0..(Second - 1)
    BY Truncation DEF TypeOK
  <1>2. CatchUpThreshold % Second = 0
    BY MetricsLoopAssumption DEF MetricsLoopAssumption
  <1>3. CatchUpThreshold >= Second
    BY <1>2
  <1>4. 2 * CatchUpThreshold <= HardResetThreshold
    BY SmallDelaysAssumption DEF SmallDelaysAssumption
  <1>5. age' = age % Second
    BY <1>1 DEF ToTruncatedNow
  <1>6. QED
    BY <1>1, <1>3, <1>4, <1>5 DEF Settled, SettledPolling

\* Settled, the loop does not reset and stays settled.
LEMMA SnapSettled ==
    ASSUME TypeOK, Settled, Snap
    PROVE  Settled' /\ resets' = resets
  <1> USE AssumptionFacts
  <1>1. age \in Int /\ spent \in Int
    BY DEF TypeOK
  <1>2. /\ phase = "ready" /\ phase' = "polling" /\ spent' = spent
        /\ spent \in 0..CatchUpThreshold
    BY DEF Snap, SnapInit, SnapExpected, SnapCatchUp, SnapReset, Move, Settled,
           SettledReady
  <1>3. 2 * CatchUpThreshold <= HardResetThreshold
    BY SmallDelaysAssumption DEF SmallDelaysAssumption
  <1>4. CASE SnapInit
    BY <1>2, <1>4, TruncatedSettles DEF SnapInit, Move
  <1>5. ASSUME started
        PROVE  /\ age - spent >= Interval - CatchUpThreshold
               /\ age <= Interval + HardResetThreshold
    BY <1>2, <1>5 DEF Settled, SettledReady
  <1>6. CASE SnapExpected
    <2>1. SettledPolling'
      BY <1>1, <1>2, <1>3, <1>5, <1>6
      DEF SnapExpected, Move, Drift, SettledPolling
    <2>2. QED
      BY <1>2, <1>6, <2>1 DEF SnapExpected, Settled
  <1>7. CASE SnapCatchUp
    <2>1. SettledPolling'
      BY <1>1, <1>2, <1>3, <1>5, <1>7
      DEF SnapCatchUp, Move, Drift, SettledPolling
    <2>2. QED
      BY <1>2, <1>7, <2>1 DEF SnapCatchUp, Settled
  <1>8. ~SnapReset
    BY <1>1, <1>2, <1>5 DEF SnapReset, Drift
  <1>9. resets' = resets
    BY <1>8 DEF Snap, SnapInit, SnapExpected, SnapCatchUp
  <1>10. QED
    BY <1>4, <1>6, <1>7, <1>8, <1>9 DEF Snap, SnapInit

\* A snap that resets uses up one of the resets that are due.
LEMMA SnapResets ==
    ASSUME ResetsInv, TypeOK', Snap
    PROVE  ResetsPaid'
  <1>1. /\ disturbances' = disturbances
        /\ phase = "ready" /\ phase' = "polling" /\ spent' = spent
    BY DEF Snap, SnapInit, SnapExpected, SnapCatchUp, SnapReset, Move
  <1>2. /\ resets \in Nat /\ disturbances \in Nat
        /\ resets' \in Nat /\ disturbances' \in Nat
    BY <1>1, Counters, AssumptionFacts DEF ResetsInv, TypeOK, MaxResets
  <1>3. ~OffClock'
    BY <1>1 DEF OffClock
  <1>4. CASE Settled
    BY <1>1, <1>3, <1>4, SnapSettled, NothingNewDue DEF ResetsInv
  <1>5. CASE ~Settled /\ ~SnapReset
    <2>1. resets' = resets
      BY <1>5 DEF Snap, SnapInit, SnapExpected, SnapCatchUp
    <2>2. QED
      BY <1>1, <1>3, <1>5, <2>1, NothingNewDue
  <1>6. CASE ~Settled /\ SnapReset
    <2>1. Paid(1) /\ (OffClock => Paid(2))
      BY <1>6 DEF ResetsInv, ResetsPaid
    <2>2. Paid(0)' /\ (OffClock => Paid(1)')
      <3>1. CASE resets' = resets
        BY <1>1, <1>2, <2>1, <3>1 DEF Paid
      <3>2. CASE resets' = resets + 1
        BY <1>1, <1>2, <2>1, <3>2 DEF Paid
      <3>3. QED
        BY <1>6, <3>1, <3>2 DEF SnapReset, CountReset
    <2>3. OffClock \/ Settled'
      BY <1>1, <1>6, TruncatedSettles DEF OffClock, SnapReset, Move, ResetsInv
    <2>4. QED
      BY <1>3, <2>2, <2>3 DEF ResetsPaid
  <1>7. QED
    BY <1>4, <1>5, <1>6

\* A poll on time keeps the loop settled.
LEMMA PolledOnTimeResets ==
    ASSUME ResetsInv, PolledOnTime
    PROVE  ResetsPaid'
  <1> USE AssumptionFacts
  <1>1. PICK d \in Durations : Polled(d)
    BY DEF PolledOnTime
  <1>2. d \in 0..Interval
    BY MetricsLoopAssumption DEF MetricsLoopAssumption
  <1>3. /\ phase = "polling" /\ phase' = "sleeping"
        /\ spent' = spent + d /\ age' = age + d
        /\ resets' = resets /\ disturbances' = disturbances
    BY <1>1 DEF Polled, PolledOnTime, history
  <1>4. age \in Int /\ spent \in Int
    BY DEF ResetsInv, TypeOK
  <1>5. ASSUME Settled PROVE Settled'
    <2>1. SettledPolling
      BY <1>3, <1>5 DEF Settled
    <2>2. SettledSleeping'
      BY <1>2, <1>3, <1>4, <2>1 DEF SettledPolling, SettledSleeping
    <2>3. QED
      BY <1>3, <2>2 DEF Settled
  <1>6. QED
    BY <1>3, <1>5, NothingNewDue DEF OffClock

\* The sleep makes up for the time the poll took, and its delay is less than
\* what the next cycle catches up with.
LEMMA SleepResets ==
    ASSUME ResetsInv, Sleep
    PROVE  ResetsPaid'
  <1> USE AssumptionFacts
  <1>1. PICK j \in Jitter, p \in Preparations :
            age' = age + SleepTime + j + p /\ spent' = p
    BY DEF Sleep
  <1>2. /\ j \in Nat /\ p \in 0..CatchUpThreshold
        /\ j + p <= CatchUpThreshold
    BY MetricsLoopAssumption, SmallDelaysAssumption
    DEF MetricsLoopAssumption, SmallDelaysAssumption
  <1>3. /\ phase = "sleeping" /\ phase' = "ready"
        /\ resets' = resets /\ disturbances' = disturbances
    BY DEF Sleep, history
  <1>4. age \in Int /\ spent \in Int
    BY DEF ResetsInv, TypeOK
  <1>5. ASSUME Settled PROVE Settled'
    <2>1. SettledSleeping
      BY <1>3, <1>5 DEF Settled
    <2>2. SleepTime = IF spent < Interval THEN Interval - spent ELSE 0
      BY DEF SleepTime
    <2>3. /\ age' - p >= Interval - CatchUpThreshold
          /\ age' <= Interval + HardResetThreshold
      <3>1. CASE spent < Interval
        BY <1>1, <1>2, <1>4, <2>1, <2>2, <3>1 DEF SettledSleeping
      <3>2. CASE ~(spent < Interval)
        BY <1>1, <1>2, <1>4, <2>1, <2>2, <3>2 DEF SettledSleeping
      <3>3. QED
        BY <3>1, <3>2
    <2>4. SettledReady'
      BY <1>1, <1>2, <2>3 DEF SettledReady
    <2>5. QED
      BY <1>3, <2>4 DEF Settled
  <1>6. ~OffClock'
    BY <1>1, <1>2 DEF OffClock
  <1>7. QED
    BY <1>3, <1>5, <1>6, NothingNewDue

\* A disturbance pays for two resets.
LEMMA DisturbedResets ==
    ASSUME ResetsInv, PolledLate \/ ClockJumps \/ Crash
    PROVE  ResetsPaid'
  <1>1. /\ resets' = resets /\ disturbances' = disturbances + 1
    BY DEF PolledLate, Polled, ClockJumps, Crash, Disturbance, history
  <1>2. resets \in Nat /\ disturbances \in Nat /\ Paid(0)
    BY Counters DEF ResetsInv, ResetsPaid
  <1>3. Paid(0)' /\ Paid(1)' /\ Paid(2)'
    BY <1>1, <1>2 DEF Paid
  <1>4. QED
    BY <1>3 DEF ResetsPaid

\* Late wake-ups and slow preparations, in any number of cycles, never make the
\* loop give up data: every reset is paid for by a late poll, a correction of
\* the clock or a crash, and each of these pays for two.
THEOREM ResetsBounded == Spec => []ResetsNeedDisturbances
  <1>1. Init /\ TypeOK => ResetsInv
    <2> SUFFICES ASSUME Init, TypeOK PROVE ResetsPaid
      BY DEF ResetsInv
    <2>1. Settled /\ ~OffClock
      BY AssumptionFacts DEF Init, Settled, SettledReady, OffClock
    <2>2. Paid(0)
      BY DEF Init, Paid
    <2>3. QED
      BY <2>1, <2>2 DEF ResetsPaid
  <1>2. ResetsInv /\ TypeOK' /\ [Next]_vars => ResetsInv'
    <2> SUFFICES ASSUME ResetsInv, TypeOK', [Next]_vars PROVE ResetsPaid'
      BY DEF ResetsInv
    <2>1. CASE Snap
      BY <2>1, SnapResets
    <2>2. CASE PolledOnTime
      BY <2>2, PolledOnTimeResets
    <2>3. CASE Sleep
      BY <2>3, SleepResets
    <2>4. CASE PolledLate \/ ClockJumps \/ Crash
      BY <2>4, DisturbedResets
    <2>5. CASE UNCHANGED vars
      BY <2>5
      DEF vars, history, ResetsInv, ResetsPaid, Paid, Settled, SettledReady,
          SettledPolling, SettledSleeping, OffClock
    <2>6. QED
      BY <2>1, <2>2, <2>3, <2>4, <2>5 DEF Next, Snap
  <1>3. ResetsInv => ResetsNeedDisturbances
    BY Counters DEF ResetsInv, ResetsPaid, Paid, ResetsNeedDisturbances
  <1>4. QED
    BY <1>1, <1>2, <1>3, TypeCorrect, PTL DEF Spec
=============================================================================
