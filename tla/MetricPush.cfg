\* A project with up to three batches, the last one smaller, of which two are
\* posted at a time, and a project with one batch; one retry, and the fairness of
\* the event loop.  The cycle ends, so the last states have no successor.
CONSTANTS
    Projects = {p1, p2}
    Large = p1
    MaxInvalid = 1
    MaxLines = 5
    BatchSize = 2
    Concurrency = 2
    MaxRetries = 1
SPECIFICATION MCSpec
INVARIANTS
    LinesAccounted
    RefusalsBounded
    SkippedForAReason
PROPERTIES
    NoPushAfterRefusal
    PushesEnd
CHECK_DEADLOCK FALSE
