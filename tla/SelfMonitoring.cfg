\* One type that is always written and one that is written after failures, each in
\* a request of its own; two faults, so that a repair can fail half way and the
\* next one too.
CONSTANTS
    Processes <- MCProcesses
    MetricMap <- MCMetricMap
    Reports <- MCReports
    MaxQueue = 1
    ChunkSize = 1
    MaxFaults = 2
SPECIFICATION FairSpec
INVARIANTS
    SelfMonitoringInv
PROPERTIES
    PeriodsGoOn
    DescriptorsSettle
