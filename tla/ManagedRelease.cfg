SPECIFICATION EngineSpec
CONSTANTS
    None = None
    Owners = {o1}
    Users = {}
    Apps = {"app_one", "app_two"}
    Releases <- ManagedReleases
    Intents = {1, 2}
    Installations = {1, 2}
    Tokens = {}
    Keys = {1, 2, 3, 4}
    Scopes = {"shipping.read"}
    Capabilities = {"shipping"}
    Providers = {"emisell"}
    IntentTTL = 1
    TokenTTL = 1
    MaxTime = 0
    Enrolled <- EnrolledApps
CONSTRAINT InOrder
CHECK_DEADLOCK FALSE
INVARIANTS
    ProviderExclusive
    GrantAnswersAreOrdered
PROPERTIES
    AuthorityUnderDistribution
    EngineAnswersAreCurrent
