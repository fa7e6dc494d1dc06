\* Two substrings of projects to include, which no project contains both.
CONSTANTS
    Pages <- MCPages
    Apis <- MCApis
    RequiredApis <- MCRequired
    Services <- MCServices
    Enabled <- MCServices
    ExtractorApi <- MCExtractors
    Queries <- MCQueries
    ServiceOf <- MCServiceOf
    ApiOf <- MCApiOf
    OnlyIn <- MCOnlyIn
    FilteredOut = {}
    Scoping = FALSE
    Excluded = {}
    Included = {}
    ExcludedParts = {}
    IncludedParts <- MCWebDb
    Matches <- MCMatches
    WorldsOf <- MCWorldsOf
    MaxFaults = 0
SPECIFICATION Spec
CHECK_DEADLOCK FALSE
INVARIANT IncludedByAnyPart
