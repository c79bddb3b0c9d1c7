--------------------------- MODULE CoreProjection ---------------------------
(***************************************************************************)
(* Core's copy of the payments.  It is built from the status_changed       *)
(* events alone, which the broker delivers at least once and in any order, *)
(* even those of one payment: each has a message of its own, and one that  *)
(* was not acknowledged comes back after later ones.                       *)
(***************************************************************************)
EXTENDS PaymentStore

VARIABLES
    core,          \* reference_core.payments
    applied,       \* reference_core.inbox: the events of the payments
    quarantined    \* reference_core.dead_letters

coreVars == <<core, applied, quarantined>>
vars == <<storeVars, coreVars>>

EventIds == Payments \X (Nat \ {0})

CoreTypeOK ==
    /\ core \in [Payments -> EventType \cup {None}]
    /\ applied \subseteq EventIds
    /\ quarantined \subseteq EventIds

ASSUME CoreNoneAssumption == None \notin EventType

Init ==
    /\ StoreInit
    /\ core = [p \in Payments |-> None]
    /\ applied = {} /\ quarantined = {}

(* Mutant: a message with an old status is an error                        *)
NotLater(p, e) ==
    core[p] # None => \/ core[p].ref # e.ref
                      \/ PaymentRank(e.status) < PaymentRank(core[p].status)

(* The events that contradict what Core knows                              *)
Contradicts(p, e) ==
    /\ core[p] # None
    /\ \/ core[p].ref # e.ref
       \/ core[p].version = e.version /\ core[p].status # e.status
       \/ /\ core[p].version < e.version
          /\ PaymentRank(e.status) < PaymentRank(core[p].status)

(* Mutant: the last message is the truth                                   *)
ProjectLast(p, e) == core' = [core EXCEPT ![p] = e]

(* An older event is taken note of and changes nothing.                    *)
Project(p, e) ==
    core' = IF core[p] = None \/ core[p].version < e.version
            THEN [core EXCEPT ![p] = e] ELSE core

(* Inbox, projection and quarantine are one transaction, acknowledged      *)
(* afterwards: a message that is delivered again finds its event there.    *)
(* The receipts count the applied events.                                  *)
Apply(p, i) ==
    LET e == history[p][i] IN
    /\ <<p, i>> \notin applied \cup quarantined
    /\ IF Contradicts(p, e)
       THEN /\ quarantined' = quarantined \cup {<<p, i>>}
            /\ UNCHANGED <<core, applied>>
       ELSE /\ applied' = applied \cup {<<p, i>>}
            /\ Project(p, e)
            /\ UNCHANGED quarantined
    /\ UNCHANGED storeVars

(* Core's consumer takes the messages one by one, in any order and more    *)
(* than once.                                                              *)
Consume == \E p \in Payments : \E i \in 1 .. Len(history[p]) : Apply(p, i)

Next ==
    \/ StoreNext /\ UNCHANGED coreVars
    \/ Consume

Spec == Init /\ [][Next]_vars

-----------------------------------------------------------------------------
(* Properties *)

(* In whatever order its messages come, Core never rejects an event of the *)
(* platform, and what it shows is the newest event it has seen, which the  *)
(* platform has really published (applyPayment; the platform's versions    *)
(* grow with the statuses).                                                *)
CoreFollows ==
    /\ quarantined = {}
    /\ \A p \in Payments :
          /\ core[p] = None <=> \A i \in 1 .. Len(history[p]) : <<p, i>> \notin applied
          /\ core[p] # None =>
                /\ <<p, core[p].version>> \in applied
                /\ core[p].version \in 1 .. Len(history[p])
                /\ core[p] = history[p][core[p].version]
                /\ \A i \in 1 .. Len(history[p]) :
                      <<p, i>> \in applied => i <= core[p].version

Shown(row) == [ref |-> row.ref, status |-> row.status]

CoreView ==
    [p \in Payments |-> IF core[p] = None THEN None ELSE Shown(core[p])]

CoreLedger == INSTANCE PaymentLedger WITH view <- CoreView

(* Core's copy of the payments is a ledger although its messages come      *)
(* out of order and from an app that is not trusted.                       *)
CoreIsALedger == CoreLedger!Spec
=============================================================================
