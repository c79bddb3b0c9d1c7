SPECIFICATION Spec
CONSTANTS
    None = None
    Owners = {o1}
    Users = {}
    Apps = {"remote-pay", "shop-view"}
    Releases <- TwoKinds
    Intents = {1, 2}
    Installations = {1, 2}
    Tokens = {1, 2}
    Keys = {1, 2, 3, 4, 5}
    Scopes = {"read", "write"}
    Capabilities = {"payment"}
    Providers = {}
    IntentTTL = 2
    TokenTTL = 1
    MaxTime = 3
CONSTRAINT InOrder
CHECK_DEADLOCK FALSE
INVARIANTS
    TokenAuthority
    GrantFollowsRow
    ConsentSpentOnce
    EventsTellTheStory
PROPERTIES
    ImplementsAccessAuthority
