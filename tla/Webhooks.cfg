SPECIFICATION FairSpec
CONSTANTS
    None = None
    Events = {e1}
    Installations = {i1}
    Workers = {w1, w2}
    MaxAttempts = 2
    MaxHooks = 2
    MaxRevision = 6
CHECK_DEADLOCK FALSE
INVARIANTS
    DeliveredOnce
PROPERTIES
    NothingAfterUninstall
    OutcomesAreFinal
    EveryDeliverySettles
