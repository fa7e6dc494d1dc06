\* Two workers: one waits for the lock while the other refreshes, and finds
\* that the token is fresh.  Lapses and faults end; then the workers must
\* settle on a good token.
CONSTANTS
    Workers = {w1, w2}
    MaxLapses = 2
    MaxFaults = 2
SPECIFICATION FairSpec
INVARIANTS
    NoThunderingHerd
PROPERTIES
    AcksUseFreshToken
    BadTokenReplaced
    WorkersKeepGoing
