SPECIFICATION FairSpec
CONSTANTS
    None = None
    Installations = {i1}
    States = {1}
    Codes = {1}
    Grants = {1}
    Calls = {k1, k2}
    Workers = {w1, w2}
    MaxAttempts = 2
    MaxRotations = 0
    MaxRevision = 4
CHECK_DEADLOCK FALSE
PROPERTIES
    CleanupEnds
