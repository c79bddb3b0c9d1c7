SPECIFICATION Spec
CONSTANTS
    None = None
    Payments = {p1, p2}
    References = {r1, r2}
    Keys = {k1, k2}
    Deliveries = {d1, d2}
    Revisions = {0, 1, 2}
    Legacy = {p2}
SYMMETRY Symmetry
CHECK_DEADLOCK FALSE
INVARIANTS
    HistoryIsExact
    EveryPaymentWasInvited
    CoreFollows
PROPERTIES
    AnswersNeverGoBack
    CoreIsALedger
