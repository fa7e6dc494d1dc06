\* Three projects on two pages, one of them excluded by name; three things may
\* go wrong in a cycle.  The cycle ends, and then nothing happens any more.
CONSTANTS
    Pages <- MCPages
    Apis <- MCApis
    RequiredApis <- MCRequired
    Services <- MCServices
    Enabled <- MCServices
    ExtractorApi <- MCExtractors
    Queries <- MCQueries
    ServiceOf <- MCServiceOf
    ApiOf <- MCApiOf
    OnlyIn <- MCOnlyIn
    FilteredOut = {}
    Scoping = FALSE
    Excluded = {}
    Included = {}
    ExcludedParts <- MCTest
    IncludedParts = {}
    Matches <- MCMatches
    WorldsOf <- MCWorldsOf
    MaxFaults = 3
SPECIFICATION FairSpec
CHECK_DEADLOCK FALSE
INVARIANTS
    LossesExplained
    CycleInv
PROPERTY CycleEnds
