SPECIFICATION FairSpec
CONSTANTS
    None = None
    Events = {e1, e2}
    Oversized = {e2}
    Workers = {w1, w2}
    MaxAttempts = 2
    MaxReplays = 1
    MaxCopies = 2
CHECK_DEADLOCK FALSE
INVARIANTS
    NothingIsLost
PROPERTIES
    EveryEventSettles
