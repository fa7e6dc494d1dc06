\* Two workers share one push slot and an sfm queue of one element, each batch and
\* each chunk of acks holds one message, and one thing may go wrong, anywhere;
\* then everything must get through.
CONSTANTS
    Messages = {m1, m2}
    Workers = {w1, w2}
    Pulls = 2
    PushSlots = 1
    MaxSfm = 1
    AckChunk = 1
    MaxFaults = 1
SPECIFICATION FairSpec
INVARIANTS
    PermitsAccounted
    DuplicatesNeedFaults
PROPERTIES
    ImplementsAtLeastOnce
    WorkersKeepPulling
    EventuallyAcked
