SPECIFICATION Spec
CONSTANTS
    None = None
    First = v1
    Someone = m1
    Versions = {v1, v2}
    MaxDraftRevision = 2
    MaxPending = 2
    MaxPendingTopics = 2
    MaxSubscriptions = 2
    MaxListed = 3
    Merchants = {m1, m2}
    Ops = {o1, o2}
    MaxReleases = 2
    MaxAssignments = 2
    Paths = {"products", "wishes"}
    RequiredScopes = {"read_products"}
    MaxInstallations = 2
    MaxSecret = 2
SYMMETRY Symmetry
CHECK_DEADLOCK FALSE
INVARIANTS
    SignedIsReviewed
    ReadsAreAuthorised
PROPERTIES
    CommitsAreCurrent
    WithdrawnStaysWithdrawn
