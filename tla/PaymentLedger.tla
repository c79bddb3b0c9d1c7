--------------------------- MODULE PaymentLedger ---------------------------
(***************************************************************************)
(* What every copy of the payments promises to whoever reads it: a payment *)
(* that is there stays, keeps its reference and its money, and only moves  *)
(* on.  Intermediate statuses may be skipped, a status never comes back.   *)
(***************************************************************************)
EXTENDS Integers

CONSTANTS
    Payments,
    References,       \* the identity of a payment: its reference and money
    Statuses,
    PaymentRank(_),   \* the order of the statuses
    None

VARIABLE view   \* the payments as a reader sees them

Line == [ref : References, status : Statuses]

Init == view \in [Payments -> Line \cup {None}]

Record(p) ==
    /\ view[p] = None
    /\ \E line \in Line : view' = [view EXCEPT ![p] = line]

Advance(p) ==
    /\ view[p] # None
    /\ \E s \in Statuses :
          /\ PaymentRank(s) > PaymentRank(view[p].status)
          /\ view' = [view EXCEPT ![p] = [ref |-> @.ref, status |-> s]]

Next == \E p \in Payments : Record(p) \/ Advance(p)

Spec == Init /\ [][Next]_view
=============================================================================
