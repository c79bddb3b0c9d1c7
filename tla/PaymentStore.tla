---------------------------- MODULE PaymentStore ----------------------------
(***************************************************************************)
(* The payments as the platform stores them, and the two transactions that *)
(* write them: a capability invocation that has its answer, and a callback *)
(* of the app.                                                             *)
(*                                                                         *)
(* What the app says is arbitrary here, so that what holds does not depend *)
(* on the app: an invocation may be answered by anything the client lets   *)
(* through, a callback may carry any snapshot.  The payments are those of  *)
(* one installation: another one's are looked up with its own id, and an   *)
(* id that occurs in both is refused like one with another reference.      *)
(***************************************************************************)
EXTENDS Integers, Sequences

CONSTANTS
    Payments,     \* resource ids
    References,   \* the identity of a payment: its reference and its amount
    Keys,         \* idempotency keys, each with the actor that uses it
    Deliveries,   \* delivery ids of callbacks
    Revisions,    \* bound: the revisions an app may name
    Legacy,       \* payments stored before there were revisions
    None

ASSUME StoreAssumption ==
    /\ Revisions \subseteq Int
    /\ Legacy \subseteq Payments

VARIABLES
    resources,     \* platform_capability.resources
    history,       \* the status_changed events of each payment, in order
    idempotency,   \* platform_capability.idempotency
    inbox          \* platform_capability.callback_inbox

storeVars == <<resources, history, idempotency, inbox>>

Statuses == {"authorized", "captured", "refunded"}

PaymentRank(status) ==
    CASE status = "authorized" -> 1
      [] status = "captured"   -> 2
      [] status = "refunded"   -> 3

(* The client lets any revision through; only a callback's is checked.     *)
ResourceType == [id : Payments, ref : References, status : Statuses, revision : Int]
RowType == [ref : References, status : Statuses, revision : Int, version : Nat]
EventType == [ref : References, status : Statuses, version : Nat]

(* A caller names a payment by its id, or none (None, the empty string):   *)
(* nothing between the transports and the runtime forbids a follow-up that *)
(* names none, or an order that names one.  The currency is not part of an *)
(* order: whatever a caller asks for, the client lets IDR through only.    *)
Orders == [op : {"create"}, id : Payments \cup {None}, ref : References]
FollowUps == [op : {"capture", "refund", "status"}, id : Payments \cup {None}]
RequestType == Orders \cup FollowUps
EntryType == [request : RequestType, answer : ResourceType]

ASSUME StoreNoneAssumption ==
    /\ None \notin Payments
    /\ None \notin RowType /\ None \notin EntryType
    /\ None \notin [ref : References, status : Statuses]

StoreTypeOK ==
    /\ resources \in [Payments -> RowType \cup {None}]
    /\ history \in [Payments -> Seq(EventType)]
    /\ idempotency \in [Keys -> EntryType \cup {None}]
    /\ inbox \subseteq Deliveries

LegacyRow == [ref : References, status : Statuses, revision : {0}, version : {0}]

StoreInit ==
    /\ \E old \in [Legacy -> LegacyRow] :
          resources = [p \in Payments |-> IF p \in Legacy THEN old[p] ELSE None]
    /\ history = [p \in Payments |-> <<>>]
    /\ idempotency = [k \in Keys |-> None]
    /\ inbox = {}

-----------------------------------------------------------------------------
(* Saving a snapshot *)

Known(p) == resources[p] # None

(* Mutant: a newer revision is believed whatever it says                   *)
ConflictsInRevision(r) ==
    LET old == resources[r.id] IN
    /\ Known(r.id)
    /\ old.ref # r.ref \/ (r.revision = old.revision /\ r.status # old.status)

(* A snapshot may neither change the identity of its payment, nor tell two *)
(* things of one revision, nor go back.                                    *)
Conflicts(r) ==
    LET old == resources[r.id] IN
    /\ Known(r.id)
    /\ \/ old.ref # r.ref
       \/ r.revision = old.revision /\ r.status # old.status
       \/ /\ r.revision > old.revision
          /\ PaymentRank(r.status) < PaymentRank(old.status)

Stale(r) == Known(r.id) /\ r.revision < resources[r.id].revision

(* A row from before the migration has no version: its first snapshot is   *)
(* told whatever it says.                                                  *)
Changed(r) ==
    Known(r.id) =>
        \/ resources[r.id].status # r.status
        \/ resources[r.id].version = 0

Version(r) ==
    LET version == IF Known(r.id) THEN resources[r.id].version ELSE 0
    IN  IF Changed(r) THEN version + 1 ELSE version

Row(r) == [ref |-> r.ref, status |-> r.status, revision |-> r.revision,
           version |-> Version(r)]

(* The event is written with the change; an unchanged snapshot only moves  *)
(* the revision on.                                                        *)
SavePayment(r) ==
    /\ ~Conflicts(r)
    /\ IF Stale(r)
       THEN UNCHANGED <<resources, history>>
       ELSE /\ resources' = [resources EXCEPT ![r.id] = Row(r)]
            /\ history' =
                 IF Changed(r)
                 THEN [history EXCEPT ![r.id] = Append(@,
                         [ref |-> r.ref, status |-> r.status, version |-> Version(r)])]
                 ELSE history

(* Mutant: a stale snapshot is returned as it came                         *)
SavedAsSent(r) == r

(* Mutant: the payment is returned as it was before                        *)
SavedBefore(r) ==
    IF Known(r.id)
    THEN LET old == resources[r.id]
         IN  [id |-> r.id, ref |-> old.ref, status |-> old.status,
              revision |-> old.revision]
    ELSE r

(* What the caller is given: the stored payment when the snapshot is late. *)
Saved(r) ==
    IF Stale(r)
    THEN LET old == resources[r.id]
         IN  [id |-> r.id, ref |-> old.ref, status |-> old.status,
              revision |-> old.revision]
    ELSE r

-----------------------------------------------------------------------------
(* The two transactions *)

(* Mutant: an answer may be about another payment than the request         *)
AcceptableOfAny(request, answer) ==
    /\ request.op = "create" =>
          answer.ref = request.ref /\ answer.status = "authorized"
    /\ request.op = "capture" => answer.status = "captured"
    /\ request.op = "refund" => answer.status = "refunded"

(* What the client lets through of an app's answers.  Which payment it is  *)
(* about is compared only with a request that names one.  The local        *)
(* simulator gives no other answers.                                       *)
Acceptable(request, answer) ==
    /\ request.op = "create" =>
          answer.ref = request.ref /\ answer.status = "authorized"
    /\ request.id # None => answer.id = request.id
    /\ request.op = "capture" => answer.status = "captured"
    /\ request.op = "refund" => answer.status = "refunded"

(* A key that has an entry is answered from it, or is a conflict when the  *)
(* request is another: neither changes anything.  The entry stands for the *)
(* invoked event as well, which is written with it for the webhooks.       *)
Execute(k, request, answer) ==
    /\ idempotency[k] = None
    /\ request.id # None => Known(request.id)
    /\ Acceptable(request, answer)
    /\ SavePayment(answer)
    /\ idempotency' = [idempotency EXCEPT ![k] =
            [request |-> request, answer |-> Saved(answer)]]
    /\ UNCHANGED inbox

ApplyCallback(d, snapshot) ==
    /\ d \notin inbox
    /\ snapshot.revision >= 1
    /\ Known(snapshot.id)
    /\ SavePayment(snapshot)
    /\ inbox' = inbox \cup {d}
    /\ UNCHANGED idempotency

Snapshots == [id : Payments, ref : References, status : Statuses, revision : Revisions]

StoreNext ==
    \E r \in Snapshots :
        \/ \E k \in Keys, request \in RequestType : Execute(k, request, r)
        \/ \E d \in Deliveries : ApplyCallback(d, r)

StoreSpec == StoreInit /\ [][StoreNext]_storeVars

-----------------------------------------------------------------------------
(* Properties *)

(* Whatever the app sends, the events of a payment are numbered without a  *)
(* gap or a repetition, one for every change, all of one identity, each    *)
(* beyond the one before, and the last one tells the stored status         *)
(* (savePayment writes the row and the event from one counter, and lets    *)
(* no snapshot regress).  Core and the history view read only those.       *)
HistoryIsExact ==
    \A p \in Payments :
        /\ ~Known(p) => history[p] = <<>>
        /\ Known(p) =>
              /\ Len(history[p]) = resources[p].version
              /\ history[p] # <<>> =>
                    history[p][Len(history[p])].status = resources[p].status
        /\ \A i \in 1 .. Len(history[p]) :
              /\ history[p][i].version = i
              /\ history[p][i].ref = resources[p].ref
              /\ \A j \in 1 .. i - 1 :
                    PaymentRank(history[p][j].status) < PaymentRank(history[p][i].status)

(* Callers are never told of an earlier state of a payment than callers    *)
(* before them, although the app answers a repeated key with what was true *)
(* at its first use (Repository.Execute returns what savePayment returns). *)
AnswersNeverGoBack ==
    [][\A j, k \in Keys :
          /\ idempotency[j] # None /\ idempotency[k] = None /\ idempotency'[k] # None
          /\ idempotency[j].answer.id = idempotency'[k].answer.id
          => LET told == idempotency[j].answer
                 tells == idempotency'[k].answer
             IN  /\ told.ref = tells.ref
                 /\ told.revision <= tells.revision
                 /\ PaymentRank(told.status) <= PaymentRank(tells.status)]_storeVars

(* No payment comes from a callback, and none from the answer to a call    *)
(* that is about another payment: behind each is an invocation that named  *)
(* no payment, whose caller was told what its history begins with, and     *)
(* that asked for this reference and amount if it was an order.            *)
(* (Repository.ApplyCallback looks the payment up; Repository.Execute and  *)
(* Client.Execute look at the id only when the request has one, so that    *)
(* "an order" is not all that can be said.)                                *)
EveryPaymentWasInvited ==
    \A p \in Payments : Known(p) =>
        \/ p \in Legacy
        \/ \E k \in Keys :
              LET request == idempotency[k].request
                  answer  == idempotency[k].answer
              IN  /\ idempotency[k] # None
                  /\ request.id = None /\ answer.id = p
                  /\ request.op = "create" => request.ref = resources[p].ref
                  /\ history[p] # <<>> /\ answer.status = history[p][1].status

PlatformView ==
    [p \in Payments |->
        IF Known(p) THEN [ref |-> resources[p].ref, status |-> resources[p].status]
                    ELSE None]

PlatformLedger == INSTANCE PaymentLedger WITH view <- PlatformView

(* The platform's copy of the payments is a ledger, whatever the app says. *)
PlatformIsALedger == PlatformLedger!Spec
=============================================================================
