\* A minute is 4 ticks: the interval is 1.5 minutes, polls that
\* time out take 3.5 minutes and a stall of 3 minutes is given up.
CONSTANTS
    Second = 2
    Interval = 6
    CatchUpThreshold = 4
    HardResetThreshold = 12
    Preparations <- MCPreparations
    Durations <- MCDurations
    SlowDurations <- MCSlowDurations
    Jitter <- MCJitter
    Jumps <- MCJumps
    MaxDisturbances = 3
SPECIFICATION FairSpec
INVARIANTS
    ResetsNeedDisturbances
    NoOverlap
PROPERTIES
    ExecutionTimeNearClock
    ResetsStop
    KeepsUp
