SPECIFICATION Spec
CONSTANTS
    None = None
    p1 = p1
    kCreate = kCreate
    kFollow = kFollow
    kOperator = kOperator
    Payments = {p1, p2}
    References = {r1}
    Keys = {kCreate, kFollow}
    Revisions = {0, 1, 2, 3}
    Legacy = {}
    MaxAttempts = 2
    Workers = 1
    MaxLate = 1
    Deliveries <- MCDeliveries
    Calls <- MCCalls
    OperatorCalls <- MCOperatorCalls
CHECK_DEADLOCK FALSE
INVARIANTS
    BookedOnce
    LagIsOnRecord
    AnswersKeepTheirWord
