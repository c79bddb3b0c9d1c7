SPECIFICATION Spec
CONSTANTS
    None = None
    Admin = Admin
    Logins = {l1, l2}
    DevLogins = {d1, d2, d3}
    SignedIn = {d1}
    UserLogins = {u1}
    Emails = {e1}
    Passwords = {p1, p2}
    MaxHashes = 1
    Requests = {r1, r2}
    Subjects = {s1}
    Origins = {o1}
    KeyCalls = {c1, c2, c3}
    KeyRequests = {q1}
    Bodies = {b1, b2}
    MaxRotations = 2
    PlatformCall = c1
    ManagedCall = c2
    RpcCalls = {rpc1, rpc2}
    Slots = 1
    Merchants = {home, other}
    Home = home
    RotateKeys = {k1, k2}
    ProbeSlots = 1
    MaxClientRevision = 6
    MaxChallenges = 1
SYMMETRY Symmetry
CHECK_DEADLOCK FALSE
INVARIANTS
    SessionsFollowPassword
    OneSessionPerRequest
    OneKeyPerRequest
    ProofIsOfThisChallenge
PROPERTIES
    EndedStaysEnded
