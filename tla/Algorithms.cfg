\* Batches: limits that short entries reach, exactly or by one (four entries of
\* one byte would fit into the bytes, but not into the events).  Log entries:
\* content that fits, that just fits and that does not.  An algorithm stops.
CONSTANTS
    RequestBodyMaxSize = 9
    RequestMaxEvents = 3
    MaxLogs = 5
    ContentLimit = 3
    MarkLength = 1
SPECIFICATION AlgorithmsSpec
CHECK_DEADLOCK FALSE
INVARIANTS
    BatchesWithinLimits
    PackingExact
    LinesTrue
    DimensionsTrue
    EntriesTrue
    SelfMonitoringAccepted
    HelpersTrue
