\* Two services of one resource, in two versions; two changes and a failure.
CONSTANTS
    Services = {"s1", "s2"}
    Flagged = {"s1", "s2"}
    Versions = {1, 2}
    Metrics = {"a", "b", "c", "d"}
    Resources = {"vm", "queue"}
    Projects = {"p1", "p2"}
    ServiceMetrics <- MCServiceMetrics
    ServiceResources <- MCServiceResources
    Descriptor <- MCDescriptor
    Listed <- MCListed
    Blocked = {"d"}
    Alpha = TRUE
    MaxChanges = 2
    MaxFaults = 1
SPECIFICATION FairSpec
INVARIANTS
    NoChangeLost
    AutodiscoveryInv
PROPERTIES
    PollingStarts
    VersionsReachDiscovery
