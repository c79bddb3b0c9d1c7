SPECIFICATION Spec
CONSTANTS
    None = None
    Installations = {i1, i2}
    States = {1, 2}
    Codes = {1, 2}
    Grants = {1, 2}
    Calls = {k1, k2}
    Workers = {w1}
    MaxAttempts = 1
    MaxRotations = 1
    MaxRevision = 2
SYMMETRY Interchangeable
CONSTRAINT InOrder
CHECK_DEADLOCK FALSE
INVARIANTS
    UninstalledIsDisconnected
    OneFamily
PROPERTIES
    RevokedIsFinal
