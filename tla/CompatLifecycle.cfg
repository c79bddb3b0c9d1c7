SPECIFICATION Spec
CONSTANTS
    None = None
    Owners = {o1}
    Users = {u1}
    Apps = {"remote-pay", "pay-alt"}
    Releases <- RivalReleases
    Intents = {1}
    Installations = {1, 2}
    Tokens = {1}
    Keys = {1, 2, 3}
    Scopes = {"read", "write"}
    Capabilities = {"payment"}
    Providers = {}
    IntentTTL = 1
    TokenTTL = 1
    MaxTime = 0
CONSTRAINT InOrder
CHECK_DEADLOCK FALSE
INVARIANTS
    RoutingExclusive
    RowProvenance
    ReceiptsMatchEffects
