CONSTANTS
    Projects = {p1}
    MaxLines = 1
    BatchSize = 1
    Concurrency = 1
    MaxRetries = 3
SPECIFICATION Spec
INVARIANTS
    BadUrlReported
CHECK_DEADLOCK FALSE
