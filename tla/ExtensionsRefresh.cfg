\* Two extensions in two versions; two changes and two faults anywhere, after
\* which the polling goes on.
CONSTANTS
    Extensions = {x1, x2}
    Versions = {1, 2}
    MaxChanges = 2
    MaxFaults = 2
SPECIFICATION FairSpec
INVARIANTS
    ServicesMatchVersions
    NeverWithoutServices
    ActiveWithinTwoCycles
PROPERTIES
    PollsGoOn
