---------------------------- MODULE PaymentProofs ----------------------------
(***************************************************************************)
(* The platform's payments, whatever their app says: typing, the exactness *)
(* of the histories, the order of the answers, and the ledger; and Core's  *)
(* copy of them.                                                           *)
(***************************************************************************)
EXTENDS CoreProjection, TLAPS

(* An answer is behind the stored payment and of its identity: what makes  *)
(* AnswersNeverGoBack inductive.                                           *)
AnswersAreReached ==
    \A k \in Keys : idempotency[k] # None =>
        LET answer == idempotency[k].answer IN
        /\ Known(answer.id)
        /\ answer.ref = resources[answer.id].ref
        /\ answer.revision <= resources[answer.id].revision
        /\ PaymentRank(answer.status) <= PaymentRank(resources[answer.id].status)

(* The ranks are an order of the statuses (events.PaymentRank).            *)
LEMMA Ranks ==
    \A s, t \in Statuses :
        /\ PaymentRank(s) \in 1 .. 3
        /\ PaymentRank(s) = PaymentRank(t) => s = t
  BY DEF Statuses, PaymentRank

(* A row that is stored is not None.                                       *)
LEMMA RowIsKnown ==
    ASSUME StoreTypeOK, NEW p \in Payments, Known(p)
    PROVE  resources[p] \in RowType
  BY DEF StoreTypeOK, Known

(* What a caller is given is a resource, of the payment it asked about.    *)
LEMMA SavedIsAResource ==
    ASSUME StoreTypeOK, NEW r \in ResourceType
    PROVE  Saved(r) \in ResourceType /\ Saved(r).id = r.id
  <1>1. CASE Stale(r)
    <2>1. resources[r.id] \in RowType
      BY <1>1, RowIsKnown DEF Stale, ResourceType
    <2> QED
      BY <1>1, <2>1 DEF Saved, ResourceType, RowType
  <1>2. CASE ~Stale(r)
    BY <1>2 DEF Saved
  <1> QED
    BY <1>1, <1>2

(* The row that a fresh snapshot leaves.                                   *)
LEMMA RowIsARow ==
    ASSUME StoreTypeOK, NEW r \in ResourceType
    PROVE  /\ Row(r) \in RowType
           /\ Version(r) \in Nat
  <1>1. Known(r.id) => resources[r.id].version \in Nat
    BY RowIsKnown DEF ResourceType, RowType
  <1>2. Version(r) \in Nat
    BY <1>1 DEF Version
  <1> QED
    BY <1>2 DEF Row, RowType, ResourceType

(* Saving touches one payment, which is known afterwards, keeps its        *)
(* identity and goes back neither in revision nor in rank, and what the    *)
(* caller is given is what is stored then (savePayment).                   *)
LEMMA SaveMovesOn ==
    ASSUME StoreTypeOK, NEW r \in ResourceType, SavePayment(r)
    PROVE  /\ resources' \in [Payments -> RowType \cup {None}]
           /\ \A p \in Payments : p # r.id => resources'[p] = resources[p]
           /\ resources'[r.id] \in RowType /\ resources'[r.id] # None
           /\ Saved(r).ref = resources'[r.id].ref
           /\ Saved(r).status = resources'[r.id].status
           /\ Saved(r).revision = resources'[r.id].revision
           /\ Known(r.id) =>
                /\ resources'[r.id].ref = resources[r.id].ref
                /\ resources[r.id].revision <= resources'[r.id].revision
                /\ PaymentRank(resources[r.id].status)
                     <= PaymentRank(resources'[r.id].status)
  <1> USE StoreNoneAssumption
  <1>1. r.id \in Payments /\ r.status \in Statuses /\ r.revision \in Int
    BY DEF ResourceType
  <1>2. resources \in [Payments -> RowType \cup {None}]
    BY DEF StoreTypeOK
  <1>3. CASE Stale(r)
    <2>1. resources' = resources
      BY <1>3 DEF SavePayment
    <2>2. resources[r.id] \in RowType /\ resources[r.id] # None
      BY <1>1, <1>3, RowIsKnown DEF Stale, Known
    <2>3. PaymentRank(resources[r.id].status) \in 1 .. 3 /\ resources[r.id].revision \in Int
      BY <2>2, Ranks DEF RowType
    <2> QED
      BY <1>2, <1>3, <2>1, <2>2, <2>3 DEF Saved
  <1>4. CASE ~Stale(r)
    <2>1. resources' = [resources EXCEPT ![r.id] = Row(r)]
      BY <1>4 DEF SavePayment
    <2>2. Row(r) \in RowType /\ Row(r) # None
      BY RowIsARow
    <2>3. resources'[r.id] = Row(r)
      BY <1>1, <1>2, <2>1
    <2>4. resources' \in [Payments -> RowType \cup {None}]
      BY <1>1, <1>2, <2>1, <2>2
    <2>5. \A p \in Payments : p # r.id => resources'[p] = resources[p]
      BY <1>2, <2>1
    <2>6. Saved(r) = r
      BY <1>4 DEF Saved
    <2>7. ASSUME Known(r.id)
          PROVE  /\ Row(r).ref = resources[r.id].ref
                 /\ resources[r.id].revision <= Row(r).revision
                 /\ PaymentRank(resources[r.id].status) <= PaymentRank(Row(r).status)
      <3>1. resources[r.id] \in RowType
        BY <1>1, <2>7, RowIsKnown
      <3>2. /\ resources[r.id].revision \in Int
            /\ PaymentRank(resources[r.id].status) \in 1 .. 3
            /\ PaymentRank(r.status) \in 1 .. 3
        BY <1>1, <3>1, Ranks DEF RowType
      <3>3. ~Conflicts(r)
        BY DEF SavePayment
      <3>4. resources[r.id].ref = r.ref
        BY <2>7, <3>3 DEF Conflicts
      <3>5. resources[r.id].revision <= r.revision
        BY <1>1, <1>4, <2>7, <3>2 DEF Stale
      <3>6. CASE r.revision = resources[r.id].revision
        <4>1. r.status = resources[r.id].status
          BY <2>7, <3>3, <3>6 DEF Conflicts
        <4> QED
          BY <3>2, <3>4, <3>5, <4>1 DEF Row
      <3>7. CASE r.revision > resources[r.id].revision
        <4>1. ~(PaymentRank(r.status) < PaymentRank(resources[r.id].status))
          BY <2>7, <3>3, <3>7 DEF Conflicts
        <4> QED
          BY <3>2, <3>4, <3>5, <4>1 DEF Row
      <3> QED
        BY <1>1, <3>2, <3>5, <3>6, <3>7
    <2> QED
      BY <2>2, <2>3, <2>4, <2>5, <2>6, <2>7 DEF Row
  <1> QED
    BY <1>3, <1>4

(* What saving does to the histories: one of them may get one event.       *)
LEMMA SaveTells ==
    ASSUME StoreTypeOK, NEW r \in ResourceType, SavePayment(r)
    PROVE  /\ history' \in [Payments -> Seq(EventType)]
           /\ \A p \in Payments : p # r.id => history'[p] = history[p]
           /\ \/ /\ resources'[r.id] = resources[r.id] /\ Known(r.id)
                 /\ history'[r.id] = history[r.id]
              \/ /\ ~Stale(r) /\ ~Changed(r)
                 /\ resources'[r.id] = Row(r)
                 /\ history'[r.id] = history[r.id]
              \/ /\ ~Stale(r) /\ Changed(r)
                 /\ resources'[r.id] = Row(r)
                 /\ history'[r.id] = Append(history[r.id],
                       [ref |-> r.ref, status |-> r.status, version |-> Version(r)])
  <1> DEFINE e == [ref |-> r.ref, status |-> r.status, version |-> Version(r)]
  <1>1. r.id \in Payments
    BY DEF ResourceType
  <1>2. /\ history \in [Payments -> Seq(EventType)]
        /\ resources \in [Payments -> RowType \cup {None}]
    BY DEF StoreTypeOK
  <1>3. e \in EventType
    BY RowIsARow DEF ResourceType, EventType
  <1>4. CASE Stale(r)
    <2>1. resources' = resources /\ history' = history
      BY <1>4 DEF SavePayment
    <2> QED
      BY <1>2, <1>4, <2>1 DEF Stale
  <1>5. CASE ~Stale(r) /\ ~Changed(r)
    <2>1. resources' = [resources EXCEPT ![r.id] = Row(r)] /\ history' = history
      BY <1>5 DEF SavePayment
    <2> QED
      BY <1>1, <1>2, <1>5, <2>1
  <1>6. CASE ~Stale(r) /\ Changed(r)
    <2>1. /\ resources' = [resources EXCEPT ![r.id] = Row(r)]
          /\ history' = [history EXCEPT ![r.id] = Append(@, e)]
      BY <1>6 DEF SavePayment
    <2>2. Append(history[r.id], e) \in Seq(EventType)
      BY <1>1, <1>2, <1>3
    <2>3. history'[r.id] = Append(history[r.id], e) /\ resources'[r.id] = Row(r)
      BY <1>1, <1>2, <2>1
    <2>4. history' \in [Payments -> Seq(EventType)]
      BY <1>1, <1>2, <2>1, <2>2
    <2>5. \A p \in Payments : p # r.id => history'[p] = history[p]
      BY <1>2, <2>1
    <2> QED
      BY <1>6, <2>3, <2>4, <2>5
  <1> QED
    BY <1>4, <1>5, <1>6

-----------------------------------------------------------------------------
(* Typing *)

LEMMA SnapshotsAreResources == Snapshots \subseteq ResourceType
  BY StoreAssumption DEF Snapshots, ResourceType

(* The two transactions, as what they have in common and what not.         *)
LEMMA StoreSteps ==
    ASSUME StoreNext
    PROVE  \E r \in ResourceType :
              \/ \E k \in Keys, request \in RequestType : Execute(k, request, r)
              \/ \E d \in Deliveries : ApplyCallback(d, r)
  BY SnapshotsAreResources DEF StoreNext

LEMMA InitIsTyped == StoreInit => StoreTypeOK
  <1> SUFFICES ASSUME StoreInit PROVE StoreTypeOK
    OBVIOUS
  <1>1. PICK old \in [Legacy -> LegacyRow] :
          resources = [p \in Payments |-> IF p \in Legacy THEN old[p] ELSE None]
    BY DEF StoreInit
  <1>2. LegacyRow \subseteq RowType
    BY DEF LegacyRow, RowType
  <1>3. resources \in [Payments -> RowType \cup {None}]
    BY <1>1, <1>2
  <1>4. history \in [Payments -> Seq(EventType)]
    BY DEF StoreInit
  <1> QED
    BY <1>3, <1>4 DEF StoreInit, StoreTypeOK

LEMMA StepIsTyped == StoreTypeOK /\ [StoreNext]_storeVars => StoreTypeOK'
  <1> SUFFICES ASSUME StoreTypeOK, [StoreNext]_storeVars PROVE StoreTypeOK'
    OBVIOUS
  <1>1. CASE UNCHANGED storeVars
    BY <1>1 DEF storeVars, StoreTypeOK
  <1>2. CASE StoreNext
    <2>1. PICK r \in ResourceType :
              \/ \E k \in Keys, request \in RequestType : Execute(k, request, r)
              \/ \E d \in Deliveries : ApplyCallback(d, r)
      BY <1>2, StoreSteps
    <2>2. CASE \E k \in Keys, request \in RequestType : Execute(k, request, r)
      <3>1. PICK k \in Keys, request \in RequestType : Execute(k, request, r)
        BY <2>2
      <3>2. SavePayment(r) /\ inbox' = inbox
        BY <3>1 DEF Execute
      <3>3. [request |-> request, answer |-> Saved(r)] \in EntryType
        BY SavedIsAResource DEF EntryType
      <3>4. idempotency' = [idempotency EXCEPT ![k] =
                               [request |-> request, answer |-> Saved(r)]]
        BY <3>1 DEF Execute
      <3>5. idempotency' \in [Keys -> EntryType \cup {None}]
        BY <3>3, <3>4 DEF StoreTypeOK
      <3> QED
        BY <3>2, <3>5, SaveMovesOn, SaveTells DEF StoreTypeOK
    <2>3. CASE \E d \in Deliveries : ApplyCallback(d, r)
      <3>1. SavePayment(r)
        BY <2>3 DEF ApplyCallback
      <3>2. idempotency' = idempotency /\ inbox' \subseteq Deliveries
        BY <2>3 DEF ApplyCallback, StoreTypeOK
      <3> QED
        BY <3>1, <3>2, SaveMovesOn, SaveTells DEF StoreTypeOK
    <2> QED
      BY <2>1, <2>2, <2>3
  <1> QED
    BY <1>1, <1>2

(* The tables of the capability module keep their types.                   *)
THEOREM StoreTypeCorrect == StoreSpec => []StoreTypeOK
  BY InitIsTyped, StepIsTyped, PTL DEF StoreSpec

-----------------------------------------------------------------------------
(* The histories *)

(* A history that tells of a row: HistoryIsExact of one payment.           *)
Exact(row, h) ==
    /\ Len(h) = row.version
    /\ h # <<>> => h[Len(h)].status = row.status
    /\ \A i \in 1 .. Len(h) :
          /\ h[i].version = i
          /\ h[i].ref = row.ref
          /\ \A j \in 1 .. i - 1 : PaymentRank(h[j].status) < PaymentRank(h[i].status)

LEMMA HistoriesOneByOne ==
    ASSUME StoreTypeOK
    PROVE  HistoryIsExact <=>
              \A p \in Payments : IF Known(p) THEN Exact(resources[p], history[p])
                                            ELSE history[p] = <<>>
  <1>1. history \in [Payments -> Seq(EventType)]
    BY DEF StoreTypeOK
  <1>2. \A p \in Payments : history[p] = <<>> => 1 .. Len(history[p]) = {}
    BY <1>1
  <1> QED
    BY <1>1, <1>2 DEF HistoryIsExact, Exact

(* The ranks rise to the one of the row.                                   *)
LEMMA NoneIsBeyondTheRow ==
    ASSUME NEW row \in RowType, NEW h \in Seq(EventType), Exact(row, h)
    PROVE  \A j \in 1 .. Len(h) : PaymentRank(h[j].status) <= PaymentRank(row.status)
  <1> TAKE j \in 1 .. Len(h)
  <1>1. Len(h) \in Nat /\ Len(h) \in 1 .. Len(h) /\ h # <<>>
    OBVIOUS
  <1>2. h[Len(h)].status = row.status
    BY <1>1 DEF Exact
  <1>3. h[j] \in EventType /\ h[Len(h)] \in EventType
    BY <1>1
  <1>4. PaymentRank(h[j].status) \in 1 .. 3 /\ PaymentRank(h[Len(h)].status) \in 1 .. 3
    BY <1>3, Ranks DEF EventType
  <1>5. CASE j = Len(h)
    BY <1>2, <1>4, <1>5
  <1>6. CASE j # Len(h)
    <2>1. j \in 1 .. Len(h) - 1
      BY <1>1, <1>6
    <2>2. PaymentRank(h[j].status) < PaymentRank(h[Len(h)].status)
      BY <1>1, <2>1 DEF Exact
    <2> QED
      BY <1>2, <1>4, <2>2
  <1> QED
    BY <1>5, <1>6

(* An event that is next in number and beyond what was told keeps a        *)
(* history exact, of the row that is written with it.                      *)
LEMMA HistoryGrows ==
    ASSUME NEW h \in Seq(EventType), NEW row \in RowType, NEW e \in EventType,
           e.version = Len(h) + 1, e.version = row.version,
           e.ref = row.ref, e.status = row.status,
           \A i \in 1 .. Len(h) :
              /\ h[i].version = i
              /\ h[i].ref = row.ref
              /\ \A j \in 1 .. i - 1 : PaymentRank(h[j].status) < PaymentRank(h[i].status)
              /\ PaymentRank(h[i].status) < PaymentRank(e.status)
    PROVE  Exact(row, Append(h, e))
  <1> DEFINE g == Append(h, e)
  <1>1. Len(h) \in Nat /\ Len(g) = Len(h) + 1 /\ g[Len(h) + 1] = e
    OBVIOUS
  <1>2. \A i \in 1 .. Len(h) : g[i] = h[i]
    OBVIOUS
  <1> HIDE DEF g
  <1>3. ASSUME NEW i \in 1 .. Len(g)
        PROVE  /\ g[i].version = i
               /\ g[i].ref = row.ref
               /\ \A j \in 1 .. i - 1 : PaymentRank(g[j].status) < PaymentRank(g[i].status)
    <2>1. CASE i \in 1 .. Len(h)
      <3>1. \A j \in 1 .. i - 1 : j \in 1 .. Len(h) /\ g[j] = h[j]
        BY <1>1, <1>2, <2>1
      <3> QED
        BY <1>2, <2>1, <3>1
    <2>2. CASE i = Len(h) + 1
      <3>1. \A j \in 1 .. i - 1 : j \in 1 .. Len(h) /\ g[j] = h[j]
        BY <1>1, <1>2, <2>2
      <3> QED
        BY <1>1, <2>2, <3>1
    <2> QED
      BY <1>1, <2>1, <2>2
  <1>4. Len(g) = row.version /\ g[Len(g)].status = row.status
    BY <1>1
  <1>5. Exact(row, g)
    BY <1>3, <1>4 DEF Exact
  <1> QED
    BY <1>5 DEF g

(* An announced change of a payment with a history is beyond its status.   *)
LEMMA ChangesMoveOn ==
    ASSUME StoreTypeOK, NEW r \in ResourceType, SavePayment(r),
           ~Stale(r), Changed(r), Known(r.id), resources[r.id].version # 0
    PROVE  PaymentRank(resources[r.id].status) < PaymentRank(r.status)
  <1>1. resources[r.id] \in RowType /\ r.revision \in Int /\ r.status \in Statuses
    BY RowIsKnown DEF ResourceType
  <1>2. /\ resources[r.id].revision \in Int
        /\ resources[r.id].status \in Statuses
        /\ resources[r.id].status # r.status
    BY <1>1 DEF RowType, Changed
  <1>3. ~Conflicts(r)
    BY DEF SavePayment
  <1>4. r.revision > resources[r.id].revision
    BY <1>1, <1>2, <1>3 DEF Conflicts, Stale
  <1>5. ~(PaymentRank(r.status) < PaymentRank(resources[r.id].status))
    BY <1>3, <1>4 DEF Conflicts
  <1>6. /\ PaymentRank(r.status) \in 1 .. 3
        /\ PaymentRank(resources[r.id].status) \in 1 .. 3
        /\ PaymentRank(r.status) # PaymentRank(resources[r.id].status)
    BY <1>1, <1>2, Ranks
  <1> QED
    BY <1>5, <1>6

(* Saving a snapshot keeps the history of its payment exact.               *)
LEMMA SaveIsExact ==
    ASSUME StoreTypeOK, HistoryIsExact, NEW r \in ResourceType, SavePayment(r)
    PROVE  Exact(resources'[r.id], history'[r.id])
  <1> DEFINE e == [ref |-> r.ref, status |-> r.status, version |-> Version(r)]
             h == history[r.id]
  <1>1. r.id \in Payments /\ r.ref \in References /\ r.status \in Statuses
    BY DEF ResourceType
  <1>2. h \in Seq(EventType)
    BY <1>1 DEF StoreTypeOK
  <1>3. IF Known(r.id) THEN Exact(resources[r.id], h) ELSE h = <<>>
    BY <1>1, HistoriesOneByOne
  <1>4. Row(r) \in RowType /\ Version(r) \in Nat
    BY RowIsARow
  <1>5. CASE resources'[r.id] = resources[r.id] /\ Known(r.id) /\ history'[r.id] = h
    BY <1>3, <1>5
  <1>6. CASE ~Stale(r) /\ ~Changed(r) /\ resources'[r.id] = Row(r) /\ history'[r.id] = h
    <2>1. Known(r.id) /\ resources[r.id].status = r.status
      BY <1>6 DEF Changed
    <2>2. resources[r.id].ref = r.ref
      BY <2>1 DEF SavePayment, Conflicts
    <2>3. Version(r) = resources[r.id].version
      BY <1>6, <2>1 DEF Version
    <2>4. /\ Row(r).version = resources[r.id].version
          /\ Row(r).status = resources[r.id].status
          /\ Row(r).ref = resources[r.id].ref
      BY <2>1, <2>2, <2>3 DEF Row
    <2>5. Exact(Row(r), h)
      BY <1>3, <2>1, <2>4 DEF Exact
    <2> QED
      BY <1>6, <2>5
  <1>7. CASE ~Stale(r) /\ Changed(r) /\ resources'[r.id] = Row(r)
             /\ history'[r.id] = Append(h, e)
    <2>1. /\ e \in EventType /\ e.version = Row(r).version
          /\ e.ref = Row(r).ref /\ e.status = Row(r).status
          /\ e.status = r.status /\ e.version = Version(r) /\ e.ref = r.ref
      BY <1>1, <1>4 DEF Row, EventType
    <2>2. CASE h = <<>>
      <3>1. Known(r.id) => resources[r.id].version = 0
        BY <1>3, <2>2 DEF Exact
      <3>2. Version(r) = 1
        BY <1>7, <3>1 DEF Version
      <3>3. Len(h) = 0 /\ \A i \in 1 .. Len(h) : FALSE
        BY <2>2
      <3>4. Exact(Row(r), Append(h, e))
        <4>1. e.version = Len(h) + 1
          BY <2>1, <3>2, <3>3
        <4> HIDE DEF e, h
        <4> QED
          BY <1>2, <1>4, <2>1, <3>3, <4>1, HistoryGrows
      <3> QED
        BY <1>7, <3>4
    <2>3. CASE h # <<>>
      <3>1. Known(r.id) /\ Exact(resources[r.id], h)
        BY <1>3, <2>3
      <3>2. resources[r.id] \in RowType
        BY <1>1, <3>1, RowIsKnown
      <3>3. resources[r.id].version = Len(h) /\ Len(h) # 0
        BY <1>2, <2>3, <3>1 DEF Exact
      <3>4. Version(r) = Len(h) + 1
        BY <1>7, <3>1, <3>3 DEF Version
      <3>5. PaymentRank(resources[r.id].status) < PaymentRank(r.status)
        BY <1>7, <3>1, <3>3, ChangesMoveOn
      <3>6. resources[r.id].ref = r.ref
        BY <3>1 DEF SavePayment, Conflicts
      <3>7. \A j \in 1 .. Len(h) : PaymentRank(h[j].status) <= PaymentRank(resources[r.id].status)
        <4> HIDE DEF h
        <4> QED
          BY <1>2, <3>1, <3>2, NoneIsBeyondTheRow
      <3>8. \A j \in 1 .. Len(h) : PaymentRank(h[j].status) \in 1 .. 3
        <4> HIDE DEF e, h
        <4> TAKE j \in 1 .. Len(h)
        <4>1. h[j] \in EventType
          BY <1>2
        <4>2. h[j].status \in Statuses
          BY <4>1 DEF EventType
        <4> QED
          BY <4>2, Ranks
      <3>9. /\ PaymentRank(resources[r.id].status) \in 1 .. 3
            /\ PaymentRank(r.status) \in 1 .. 3
        BY <1>1, <3>2, Ranks DEF RowType
      <3>10. \A i \in 1 .. Len(h) :
                /\ h[i].version = i
                /\ h[i].ref = Row(r).ref
                /\ \A j \in 1 .. i - 1 : PaymentRank(h[j].status) < PaymentRank(h[i].status)
        <4> HIDE DEF h
        <4> QED
          BY <2>1, <3>1, <3>6 DEF Exact, Row
      <3>11. \A i \in 1 .. Len(h) : PaymentRank(h[i].status) < PaymentRank(e.status)
        <4> HIDE DEF h, e
        <4> QED
          BY <2>1, <3>5, <3>7, <3>8, <3>9
      <3>12. Exact(Row(r), Append(h, e))
        <4> HIDE DEF h, e
        <4> QED
          BY <1>2, <1>4, <2>1, <3>4, <3>10, <3>11, HistoryGrows
      <3> QED
        BY <1>7, <3>12
    <2> QED
      BY <2>2, <2>3
  <1> QED
    BY <1>5, <1>6, <1>7, SaveTells

LEMMA InitIsExact == StoreInit => HistoryIsExact
  <1> SUFFICES ASSUME StoreInit PROVE HistoryIsExact
    OBVIOUS
  <1>1. PICK old \in [Legacy -> LegacyRow] :
          resources = [p \in Payments |-> IF p \in Legacy THEN old[p] ELSE None]
    BY DEF StoreInit
  <1>2. \A p \in Payments : history[p] = <<>>
    BY DEF StoreInit
  <1>3. \A p \in Payments : Known(p) => resources[p].version = 0
    BY <1>1 DEF Known, LegacyRow
  <1>4. \A p \in Payments : Len(history[p]) = 0
    <2>1. Len(<<>>) = 0
      OBVIOUS
    <2> QED
      BY <1>2, <2>1
  <1>5. ASSUME NEW p \in Payments, Known(p)
        PROVE  Exact(resources[p], history[p])
    BY <1>2, <1>3, <1>4, <1>5 DEF Exact
  <1> QED
    BY <1>2, <1>5, HistoriesOneByOne, InitIsTyped

LEMMA SaveKeepsHistories ==
    ASSUME StoreTypeOK, StoreTypeOK', HistoryIsExact,
           NEW r \in ResourceType, SavePayment(r)
    PROVE  HistoryIsExact'
  <1>1. \A p \in Payments : IF Known(p) THEN Exact(resources[p], history[p])
                                      ELSE history[p] = <<>>
    BY HistoriesOneByOne
  <1>2. r.id \in Payments
    BY DEF ResourceType
  <1>3. Exact(resources'[r.id], history'[r.id]) /\ resources'[r.id] # None
    BY SaveIsExact, SaveMovesOn
  <1>4. \A p \in Payments : p # r.id =>
            resources'[p] = resources[p] /\ history'[p] = history[p]
    BY SaveMovesOn, SaveTells
  <1>5. \A p \in Payments : IF resources'[p] # None THEN Exact(resources'[p], history'[p])
                                                  ELSE history'[p] = <<>>
    BY <1>1, <1>3, <1>4 DEF Known
  <1>6. history' \in [Payments -> Seq(EventType)]
    BY DEF StoreTypeOK
  <1>7. \A p \in Payments : history'[p] = <<>> => 1 .. Len(history'[p]) = {}
    BY <1>6
  <1> QED
    BY <1>5, <1>6, <1>7 DEF HistoryIsExact, Exact, Known

LEMMA StepIsExact ==
    StoreTypeOK /\ StoreTypeOK' /\ HistoryIsExact /\ [StoreNext]_storeVars => HistoryIsExact'
  <1> SUFFICES ASSUME StoreTypeOK, StoreTypeOK', HistoryIsExact, [StoreNext]_storeVars
               PROVE  HistoryIsExact'
    OBVIOUS
  <1>1. CASE UNCHANGED storeVars
    BY <1>1 DEF storeVars, HistoryIsExact, Known
  <1>2. CASE StoreNext
    <2>1. PICK r \in ResourceType :
              \/ \E k \in Keys, request \in RequestType : Execute(k, request, r)
              \/ \E d \in Deliveries : ApplyCallback(d, r)
      BY <1>2, StoreSteps
    <2>2. SavePayment(r)
      BY <2>1 DEF Execute, ApplyCallback
    <2> QED
      BY <2>2, SaveKeepsHistories
  <1> QED
    BY <1>1, <1>2

(* Whatever its app says, the events of a payment are numbered without a   *)
(* gap, of one identity, rising, and the last one tells the stored status  *)
(* (savePayment).                                                          *)
THEOREM HistoriesAreExact == StoreSpec => []HistoryIsExact
  <1>1. StoreInit => StoreTypeOK /\ HistoryIsExact
    BY InitIsTyped, InitIsExact
  <1>2. StoreTypeOK /\ HistoryIsExact /\ [StoreNext]_storeVars
          => StoreTypeOK' /\ HistoryIsExact'
    BY StepIsTyped, StepIsExact
  <1> QED
    BY <1>1, <1>2, PTL DEF StoreSpec

-----------------------------------------------------------------------------
(* The answers and the calls they answer *)

(* A step writes at most one entry, which stays, and moves one payment on. *)
LEMMA PaymentsMoveOn ==
    ASSUME StoreTypeOK, StoreTypeOK', [StoreNext]_storeVars
    PROVE  \A p \in Payments : Known(p) =>
              /\ resources'[p] # None
              /\ resources'[p].ref = resources[p].ref
              /\ resources[p].revision <= resources'[p].revision
              /\ PaymentRank(resources[p].status) <= PaymentRank(resources'[p].status)
  <1> TAKE p \in Payments
  <1> HAVE Known(p)
  <1>1. resources[p] \in RowType
    BY RowIsKnown
  <1>2. PaymentRank(resources[p].status) \in 1 .. 3 /\ resources[p].revision \in Int
    BY <1>1, Ranks DEF RowType
  <1>3. CASE resources'[p] = resources[p]
    BY <1>2, <1>3 DEF Known
  <1>4. CASE resources'[p] # resources[p]
    <2>1. StoreNext
      BY <1>4 DEF storeVars
    <2>2. PICK r \in ResourceType :
              \/ \E k \in Keys, request \in RequestType : Execute(k, request, r)
              \/ \E d \in Deliveries : ApplyCallback(d, r)
      BY <2>1, StoreSteps
    <2>3. SavePayment(r)
      BY <2>2 DEF Execute, ApplyCallback
    <2>4. p = r.id
      BY <1>4, <2>3, SaveMovesOn
    <2> QED
      BY <2>3, <2>4, SaveMovesOn
  <1> QED
    BY <1>3, <1>4

(* The platform never rewrites what it has told.                           *)
LEMMA HistoriesOnlyGrow ==
    ASSUME StoreTypeOK, [StoreNext]_storeVars, NEW p \in Payments
    PROVE  /\ Len(history[p]) \in Nat /\ Len(history'[p]) \in Nat
           /\ Len(history[p]) <= Len(history'[p])
           /\ \A i \in 1 .. Len(history[p]) : history'[p][i] = history[p][i]
  <1>1. history[p] \in Seq(EventType)
    BY DEF StoreTypeOK
  <1>2. CASE history'[p] = history[p]
    BY <1>1, <1>2
  <1>3. CASE history'[p] # history[p]
    <2>1. StoreNext
      BY <1>3 DEF storeVars
    <2>2. PICK r \in ResourceType :
              \/ \E k \in Keys, request \in RequestType : Execute(k, request, r)
              \/ \E d \in Deliveries : ApplyCallback(d, r)
      BY <2>1, StoreSteps
    <2>3. SavePayment(r)
      BY <2>2 DEF Execute, ApplyCallback
    <2>4. p = r.id
      BY <1>3, <2>3, SaveTells
    <2> DEFINE e == [ref |-> r.ref, status |-> r.status, version |-> Version(r)]
    <2>5. history'[p] = Append(history[p], e)
      BY <1>3, <2>3, <2>4, SaveTells
    <2> HIDE DEF e
    <2> QED
      BY <1>1, <2>5
  <1> QED
    BY <1>2, <1>3

LEMMA EntriesStay ==
    ASSUME StoreTypeOK, [StoreNext]_storeVars
    PROVE  \A k \in Keys : idempotency[k] # None => idempotency'[k] = idempotency[k]
  <1> TAKE k \in Keys
  <1> HAVE idempotency[k] # None
  <1>1. CASE UNCHANGED storeVars
    BY <1>1 DEF storeVars
  <1>2. CASE StoreNext
    <2>1. PICK r \in ResourceType :
              \/ \E m \in Keys, request \in RequestType : Execute(m, request, r)
              \/ \E d \in Deliveries : ApplyCallback(d, r)
      BY <1>2, StoreSteps
    <2>2. CASE \E d \in Deliveries : ApplyCallback(d, r)
      BY <2>2 DEF ApplyCallback
    <2>3. CASE \E m \in Keys, request \in RequestType : Execute(m, request, r)
      <3>1. PICK m \in Keys, request \in RequestType : Execute(m, request, r)
        BY <2>3
      <3>2. m # k /\ idempotency' = [idempotency EXCEPT ![m] =
                               [request |-> request, answer |-> Saved(r)]]
        BY <3>1 DEF Execute
      <3> QED
        BY <3>2 DEF StoreTypeOK
    <2> QED
      BY <2>1, <2>2, <2>3
  <1> QED
    BY <1>1, <1>2

(* A new entry gives what is stored with it (Repository.Execute).          *)
LEMMA NewEntriesTellTheRow ==
    ASSUME StoreTypeOK, [StoreNext]_storeVars,
           NEW k \in Keys, idempotency[k] = None, idempotency'[k] # None
    PROVE  \E r \in ResourceType, request \in RequestType :
              /\ Execute(k, request, r)
              /\ idempotency'[k] = [request |-> request, answer |-> Saved(r)]
  <1>1. StoreNext
    BY DEF storeVars
  <1>2. PICK r \in ResourceType :
            \/ \E m \in Keys, request \in RequestType : Execute(m, request, r)
            \/ \E d \in Deliveries : ApplyCallback(d, r)
    BY <1>1, StoreSteps
  <1>3. PICK m \in Keys, request \in RequestType : Execute(m, request, r)
    BY <1>2 DEF ApplyCallback
  <1>4. idempotency' = [idempotency EXCEPT ![m] = [request |-> request, answer |-> Saved(r)]]
    BY <1>3 DEF Execute
  <1>5. idempotency \in [Keys -> EntryType \cup {None}]
    BY DEF StoreTypeOK
  <1>6. m = k
    BY <1>4, <1>5
  <1> QED
    BY <1>3, <1>4, <1>5, <1>6

LEMMA AnswersStayReached ==
    ASSUME StoreTypeOK, StoreTypeOK', AnswersAreReached, [StoreNext]_storeVars
    PROVE  AnswersAreReached'
  <1> SUFFICES ASSUME NEW k \in Keys, idempotency'[k] # None
               PROVE  LET answer == idempotency'[k].answer IN
                      /\ resources'[answer.id] # None
                      /\ answer.ref = resources'[answer.id].ref
                      /\ answer.revision <= resources'[answer.id].revision
                      /\ PaymentRank(answer.status) <= PaymentRank(resources'[answer.id].status)
    BY DEF AnswersAreReached, Known
  <1>1. CASE idempotency[k] # None
    <2> DEFINE answer == idempotency[k].answer
    <2>1. idempotency'[k] = idempotency[k]
      BY <1>1, EntriesStay
    <2>2. idempotency[k] \in EntryType
      BY <1>1 DEF StoreTypeOK
    <2>3. answer \in ResourceType
      BY <2>2 DEF EntryType
    <2>4. answer.id \in Payments /\ answer.revision \in Int
          /\ PaymentRank(answer.status) \in 1 .. 3
      BY <2>3, Ranks DEF ResourceType
    <2>5. /\ Known(answer.id)
          /\ answer.ref = resources[answer.id].ref
          /\ answer.revision <= resources[answer.id].revision
          /\ PaymentRank(answer.status) <= PaymentRank(resources[answer.id].status)
      BY <1>1 DEF AnswersAreReached
    <2>6. /\ resources'[answer.id] # None
          /\ resources'[answer.id].ref = resources[answer.id].ref
          /\ resources[answer.id].revision <= resources'[answer.id].revision
          /\ PaymentRank(resources[answer.id].status) <= PaymentRank(resources'[answer.id].status)
      BY <2>4, <2>5, PaymentsMoveOn
    <2>7. resources[answer.id] \in RowType /\ resources'[answer.id] \in RowType
      BY <2>4, <2>5, <2>6 DEF StoreTypeOK, Known
    <2>8. /\ resources[answer.id].revision \in Int /\ resources'[answer.id].revision \in Int
          /\ PaymentRank(resources[answer.id].status) \in 1 .. 3
          /\ PaymentRank(resources'[answer.id].status) \in 1 .. 3
      BY <2>7, Ranks DEF RowType
    <2> HIDE DEF answer
    <2>9. /\ answer.ref = resources'[answer.id].ref
          /\ answer.revision <= resources'[answer.id].revision
          /\ PaymentRank(answer.status) <= PaymentRank(resources'[answer.id].status)
      BY <2>4, <2>5, <2>6, <2>8
    <2> QED
      BY <2>1, <2>6, <2>9 DEF answer
  <1>2. CASE idempotency[k] = None
    <2>1. PICK r \in ResourceType, request \in RequestType :
              /\ Execute(k, request, r)
              /\ idempotency'[k] = [request |-> request, answer |-> Saved(r)]
      BY <1>2, NewEntriesTellTheRow
    <2>2. SavePayment(r)
      BY <2>1 DEF Execute
    <2>3. Saved(r).id = r.id
      BY SavedIsAResource
    <2>4. /\ resources'[r.id] # None /\ resources'[r.id] \in RowType
          /\ Saved(r).ref = resources'[r.id].ref
          /\ Saved(r).status = resources'[r.id].status
          /\ Saved(r).revision = resources'[r.id].revision
      BY <2>2, SaveMovesOn
    <2>5. resources'[r.id].revision \in Int /\ PaymentRank(resources'[r.id].status) \in 1 .. 3
      BY <2>4, Ranks DEF RowType
    <2>6. idempotency'[k].answer = Saved(r)
      BY <2>1
    <2> QED
      BY <2>3, <2>4, <2>5, <2>6
  <1> QED
    BY <1>1, <1>2

LEMMA InvitationsStay ==
    ASSUME StoreTypeOK, StoreTypeOK', HistoryIsExact, EveryPaymentWasInvited,
           [StoreNext]_storeVars
    PROVE  EveryPaymentWasInvited'
  <1> SUFFICES ASSUME NEW p \in Payments, resources'[p] # None, p \notin Legacy
               PROVE  \E k \in Keys :
                         /\ idempotency'[k] # None
                         /\ idempotency'[k].request.id = None
                         /\ idempotency'[k].answer.id = p
                         /\ idempotency'[k].request.op = "create" =>
                                idempotency'[k].request.ref = resources'[p].ref
                         /\ history'[p] # <<>>
                         /\ idempotency'[k].answer.status = history'[p][1].status
    BY DEF EveryPaymentWasInvited, Known
  <1>1. CASE Known(p)
    <2>1. PICK k \in Keys :
              /\ idempotency[k] # None
              /\ idempotency[k].request.id = None
              /\ idempotency[k].answer.id = p
              /\ idempotency[k].request.op = "create" =>
                     idempotency[k].request.ref = resources[p].ref
              /\ history[p] # <<>>
              /\ idempotency[k].answer.status = history[p][1].status
      BY <1>1 DEF EveryPaymentWasInvited
    <2>2. idempotency'[k] = idempotency[k] /\ resources'[p].ref = resources[p].ref
      BY <1>1, <2>1, EntriesStay, PaymentsMoveOn
    <2>3. history'[p] # <<>> /\ history'[p][1] = history[p][1]
      <3>1. history[p] \in Seq(EventType) /\ history'[p] \in Seq(EventType)
        BY DEF StoreTypeOK
      <3>2. 1 \in 1 .. Len(history[p])
        BY <2>1, <3>1
      <3> QED
        BY <3>1, <3>2, HistoriesOnlyGrow
    <2> QED
      BY <2>1, <2>2, <2>3
  <1>2. CASE ~Known(p)
    <2>1. resources'[p] # resources[p] /\ StoreNext
      BY <1>2 DEF Known, storeVars
    <2>2. PICK r \in ResourceType :
              \/ \E m \in Keys, request \in RequestType : Execute(m, request, r)
              \/ \E d \in Deliveries : ApplyCallback(d, r)
      BY <2>1, StoreSteps
    <2>3. SavePayment(r)
      BY <2>2 DEF Execute, ApplyCallback
    <2>4. p = r.id
      BY <2>1, <2>3, SaveMovesOn
    <2>5. PICK k \in Keys, request \in RequestType : Execute(k, request, r)
      BY <1>2, <2>2, <2>4 DEF ApplyCallback
    <2>6. request.id = None
      BY <1>2, <2>4, <2>5 DEF Execute, Acceptable
    <2>7. request.op = "create" => request.ref = r.ref
      BY <2>5 DEF Execute, Acceptable
    <2>8. idempotency' = [idempotency EXCEPT ![k] = [request |-> request, answer |-> Saved(r)]]
      BY <2>5 DEF Execute
    <2>9. idempotency'[k] = [request |-> request, answer |-> Saved(r)]
      BY <2>8 DEF StoreTypeOK
    <2>10. [request |-> request, answer |-> Saved(r)] # None
      <3>1. [request |-> request, answer |-> Saved(r)] \in EntryType
        BY SavedIsAResource DEF EntryType
      <3> QED
        BY <3>1, StoreNoneAssumption
    <2>11. Saved(r) = r
      BY <1>2, <2>4 DEF Saved, Stale
    <2>12. resources'[p].ref = r.ref
      BY <2>3, <2>4, <2>11, SaveMovesOn
    <2>13. history'[p] # <<>> /\ history'[p][1].status = r.status
      <3> DEFINE e == [ref |-> r.ref, status |-> r.status, version |-> Version(r)]
      <3>1. ~Stale(r) /\ Changed(r)
        BY <1>2, <2>4 DEF Stale, Changed
      <3>2. history[p] = <<>>
        BY <1>2 DEF HistoryIsExact
      <3>3. history'[p] = Append(history[p], e)
        BY <1>2, <2>3, <2>4, <3>1, SaveTells
      <3> HIDE DEF e
      <3>4. history'[p] = <<e>>
        BY <3>2, <3>3
      <3>5. history'[p] # <<>> /\ history'[p][1] = e
        BY <3>4
      <3> QED
        BY <3>5 DEF e
    <2> QED
      BY <2>4, <2>6, <2>7, <2>9, <2>10, <2>11, <2>12, <2>13
  <1> QED
    BY <1>1, <1>2 DEF Known

StoreInv ==
    StoreTypeOK /\ HistoryIsExact /\ AnswersAreReached /\ EveryPaymentWasInvited

LEMMA StoreInvariant == StoreSpec => []StoreInv
  <1>1. StoreInit => StoreInv
    <2> SUFFICES ASSUME StoreInit PROVE StoreInv
      OBVIOUS
    <2>1. PICK old \in [Legacy -> LegacyRow] :
            resources = [p \in Payments |-> IF p \in Legacy THEN old[p] ELSE None]
      BY DEF StoreInit
    <2>2. \A k \in Keys : idempotency[k] = None
      BY DEF StoreInit
    <2>3. AnswersAreReached
      BY <2>2 DEF AnswersAreReached
    <2>4. EveryPaymentWasInvited
      BY <2>1 DEF EveryPaymentWasInvited, Known
    <2> QED
      BY <2>3, <2>4, InitIsTyped, InitIsExact DEF StoreInv
  <1>2. StoreInv /\ [StoreNext]_storeVars => StoreInv'
    BY StepIsTyped, StepIsExact, AnswersStayReached, InvitationsStay DEF StoreInv
  <1> QED
    BY <1>1, <1>2, PTL DEF StoreSpec

(* No payment comes from a callback or from the answer to a call about     *)
(* another payment: an invocation that named none was answered with it,    *)
(* and was told what its history begins with (Repository.ApplyCallback,    *)
(* Repository.Execute, Client.Execute).                                    *)
THEOREM PaymentsAreInvited == StoreSpec => []EveryPaymentWasInvited
  <1>1. StoreInv => EveryPaymentWasInvited
    BY DEF StoreInv
  <1> QED
    BY <1>1, StoreInvariant, PTL

(* Callers are never told of an earlier state of a payment than callers    *)
(* before them (Repository.Execute).                                       *)
THEOREM AnswersMoveOn == StoreSpec => AnswersNeverGoBack
  <1> DEFINE Grows ==
        \A j, k \in Keys :
          /\ idempotency[j] # None /\ idempotency[k] = None /\ idempotency'[k] # None
          /\ idempotency[j].answer.id = idempotency'[k].answer.id
          => LET told == idempotency[j].answer
                 tells == idempotency'[k].answer
             IN  /\ told.ref = tells.ref
                 /\ told.revision <= tells.revision
                 /\ PaymentRank(told.status) <= PaymentRank(tells.status)
  <1>1. StoreInv /\ StoreInv' /\ [StoreNext]_storeVars => [Grows]_storeVars
    <2> SUFFICES ASSUME StoreInv, StoreInv', [StoreNext]_storeVars,
                        NEW j \in Keys, NEW k \in Keys,
                        idempotency[j] # None, idempotency[k] = None, idempotency'[k] # None,
                        idempotency[j].answer.id = idempotency'[k].answer.id
                 PROVE  LET told == idempotency[j].answer
                            tells == idempotency'[k].answer
                        IN  /\ told.ref = tells.ref
                            /\ told.revision <= tells.revision
                            /\ PaymentRank(told.status) <= PaymentRank(tells.status)
      OBVIOUS
    <2>1. StoreTypeOK /\ StoreTypeOK' /\ AnswersAreReached'
      BY DEF StoreInv
    <2>2. PICK r \in ResourceType, request \in RequestType :
              /\ Execute(k, request, r)
              /\ idempotency'[k] = [request |-> request, answer |-> Saved(r)]
      BY <2>1, NewEntriesTellTheRow
    <2>3. SavePayment(r)
      BY <2>2 DEF Execute
    <2>4. /\ Saved(r).id = r.id
          /\ Saved(r).ref = resources'[r.id].ref
          /\ Saved(r).status = resources'[r.id].status
          /\ Saved(r).revision = resources'[r.id].revision
      BY <2>1, <2>3, SavedIsAResource, SaveMovesOn
    <2>5. idempotency'[k].answer = Saved(r)
      BY <2>2
    <2>6. idempotency'[j] = idempotency[j]
      BY <2>1, EntriesStay
    <2>7. /\ idempotency[j].answer.ref = resources'[r.id].ref
          /\ idempotency[j].answer.revision <= resources'[r.id].revision
          /\ PaymentRank(idempotency[j].answer.status) <= PaymentRank(resources'[r.id].status)
      BY <2>1, <2>4, <2>5, <2>6 DEF AnswersAreReached
    <2> QED
      BY <2>4, <2>5, <2>7
  <1>2. StoreSpec => [][Grows]_storeVars
    BY <1>1, StoreInvariant, PTL DEF StoreSpec
  <1> QED
    BY <1>2 DEF AnswersNeverGoBack

-----------------------------------------------------------------------------
(* The ledger *)

LEMMA StoreInitRefines == StoreInit => PlatformLedger!Init
  <1> SUFFICES ASSUME StoreTypeOK PROVE PlatformLedger!Init
    BY InitIsTyped
  <1>1. \A p \in Payments : Known(p) =>
           [ref |-> resources[p].ref, status |-> resources[p].status] \in PlatformLedger!Line
    BY RowIsKnown DEF RowType, PlatformLedger!Line
  <1> QED
    BY <1>1 DEF PlatformLedger!Init, PlatformView

(* A snapshot that is saved is a new line, a line that moves on, or none.  *)
LEMMA SaveRefines ==
    ASSUME StoreTypeOK, NEW r \in ResourceType, SavePayment(r)
    PROVE  PlatformLedger!Next \/ PlatformView' = PlatformView
  <1> DEFINE row == resources'[r.id]
             line == [ref |-> row.ref, status |-> row.status]
  <1>1. r.id \in Payments
    BY DEF ResourceType
  <1>2. row \in RowType /\ row # None
    BY SaveMovesOn
  <1>3. \A p \in Payments : p # r.id => resources'[p] = resources[p]
    BY SaveMovesOn
  <1>4. PlatformView' = [PlatformView EXCEPT ![r.id] = line]
    BY <1>1, <1>2, <1>3 DEF PlatformView, Known
  <1>5. line \in PlatformLedger!Line
    BY <1>2 DEF RowType, PlatformLedger!Line
  <1>6. CASE ~Known(r.id)
    <2>1. PlatformView[r.id] = None
      BY <1>1, <1>6 DEF PlatformView
    <2>2. PlatformLedger!Record(r.id)
      BY <1>4, <1>5, <2>1 DEF PlatformLedger!Record
    <2> QED
      BY <1>1, <2>2 DEF PlatformLedger!Next
  <1>7. CASE Known(r.id) /\ row.status = resources[r.id].status
    <2>1. line = PlatformView[r.id]
      BY <1>1, <1>7, SaveMovesOn DEF PlatformView
    <2>2. PlatformView' = PlatformView
      BY <1>4, <2>1 DEF PlatformView
    <2> QED
      BY <2>2
  <1>8. CASE Known(r.id) /\ row.status # resources[r.id].status
    <2>1. resources[r.id] \in RowType
      BY <1>1, <1>8, RowIsKnown
    <2>2. row.ref = resources[r.id].ref
      BY <1>8, SaveMovesOn
    <2>3. PaymentRank(resources[r.id].status) <= PaymentRank(row.status)
      BY <1>8, SaveMovesOn
    <2>4. PaymentRank(row.status) > PaymentRank(resources[r.id].status)
      <3>1. row.status \in Statuses /\ resources[r.id].status \in Statuses
        BY <1>2, <2>1 DEF RowType
      <3>2. /\ PaymentRank(row.status) \in 1 .. 3
            /\ PaymentRank(resources[r.id].status) \in 1 .. 3
            /\ PaymentRank(row.status) # PaymentRank(resources[r.id].status)
        BY <1>8, <3>1, Ranks
      <3> QED
        BY <2>3, <3>2
    <2>5. PlatformView[r.id] = [ref |-> row.ref, status |-> resources[r.id].status]
      BY <1>1, <1>8, <2>2 DEF PlatformView
    <2>6. PlatformView[r.id] # None
      <3>1. [ref |-> row.ref, status |-> resources[r.id].status] \in PlatformLedger!Line
        BY <1>2, <2>1 DEF RowType, PlatformLedger!Line
      <3> QED
        BY <2>5, <3>1, StoreNoneAssumption DEF PlatformLedger!Line
    <2>7. PlatformView' = [PlatformView EXCEPT ![r.id] = [ref |-> @.ref, status |-> row.status]]
      BY <1>4, <2>5
    <2>8. row.status \in Statuses
      BY <1>2 DEF RowType
    <2>9. PlatformLedger!Advance(r.id)
      <3>1. PlatformView[r.id].status = resources[r.id].status
        BY <2>5
      <3>2. PaymentRank(row.status) > PaymentRank(PlatformView[r.id].status)
        BY <2>4, <3>1
      <3> HIDE DEF row
      <3> QED
        BY <2>6, <2>7, <2>8, <3>2 DEF PlatformLedger!Advance
    <2> QED
      BY <1>1, <2>9 DEF PlatformLedger!Next
  <1> QED
    BY <1>6, <1>7, <1>8

(* Whatever its app says, the platform's copy of the payments is a ledger: *)
(* payments stay, keep their identity and only move on.                    *)
THEOREM StoreIsALedger == StoreSpec => PlatformIsALedger
  <1>1. StoreTypeOK /\ [StoreNext]_storeVars => [PlatformLedger!Next]_PlatformView
    <2> SUFFICES ASSUME StoreTypeOK, [StoreNext]_storeVars
                 PROVE  PlatformLedger!Next \/ PlatformView' = PlatformView
      OBVIOUS
    <2>1. CASE UNCHANGED storeVars
      <3>1. resources' = resources
        BY <2>1 DEF storeVars
      <3>2. PlatformView' = PlatformView
        BY <3>1 DEF PlatformView, Known
      <3> QED
        BY <3>2
    <2>2. CASE StoreNext
      <3>1. PICK r \in ResourceType :
                \/ \E k \in Keys, request \in RequestType : Execute(k, request, r)
                \/ \E d \in Deliveries : ApplyCallback(d, r)
        BY <2>2, StoreSteps
      <3>2. SavePayment(r)
        BY <3>1 DEF Execute, ApplyCallback
      <3> QED
        BY <3>2, SaveRefines
    <2> QED
      BY <2>1, <2>2
  <1>2. StoreSpec => PlatformLedger!Init /\ [][PlatformLedger!Next]_PlatformView
    BY <1>1, StoreInitRefines, StoreTypeCorrect, PTL DEF StoreSpec
  <1> QED
    BY <1>2 DEF PlatformIsALedger, PlatformLedger!Spec

-----------------------------------------------------------------------------
(* Core's copy: Core rejects no event of the platform, shows the newest    *)
(* one it has seen, and is a ledger.                                       *)

(* Only what was published is applied.                                     *)
AppliedIsPublished ==
    \A p \in Payments, i \in Nat : <<p, i>> \in applied => i \in 1 .. Len(history[p])

(* CoreFollows of one payment                                              *)
Follows(p) ==
    /\ core[p] = None <=> \A i \in 1 .. Len(history[p]) : <<p, i>> \notin applied
    /\ core[p] # None =>
          /\ <<p, core[p].version>> \in applied
          /\ core[p].version \in 1 .. Len(history[p])
          /\ core[p] = history[p][core[p].version]
          /\ \A i \in 1 .. Len(history[p]) : <<p, i>> \in applied => i <= core[p].version

CoreInv ==
    /\ StoreTypeOK /\ HistoryIsExact
    /\ CoreTypeOK /\ AppliedIsPublished
    /\ quarantined = {}
    /\ \A p \in Payments : Follows(p)

LEMMA CoreInvImplies == CoreInv => CoreFollows
  BY DEF CoreInv, CoreFollows, Follows

LEMMA CoreInitHolds == Init => CoreInv
  <1> SUFFICES ASSUME Init PROVE CoreInv
    OBVIOUS
  <1>1. StoreTypeOK /\ HistoryIsExact
    BY InitIsTyped, InitIsExact DEF Init
  <1>2. CoreTypeOK /\ AppliedIsPublished
    BY DEF Init, CoreTypeOK, AppliedIsPublished
  <1>3. \A p \in Payments : Follows(p)
    BY DEF Init, Follows
  <1> QED
    BY <1>1, <1>2, <1>3 DEF CoreInv, Init

LEMMA StoreStepKeepsCore ==
    ASSUME CoreInv, [StoreNext]_storeVars, UNCHANGED coreVars
    PROVE  CoreInv'
  <1> USE DEF CoreInv
  <1>1. StoreTypeOK' /\ HistoryIsExact'
    BY StepIsTyped, StepIsExact
  <1>2. core' = core /\ applied' = applied /\ quarantined' = quarantined
    BY DEF coreVars
  <1>3. CoreTypeOK' /\ quarantined' = {}
    BY <1>2 DEF CoreTypeOK
  <1>4. AppliedIsPublished'
    <2> SUFFICES ASSUME NEW p \in Payments, NEW i \in Nat, <<p, i>> \in applied
                 PROVE  i \in 1 .. Len(history'[p])
      BY <1>2 DEF AppliedIsPublished
    <2>1. i \in 1 .. Len(history[p])
      BY DEF AppliedIsPublished
    <2> QED
      BY <2>1, HistoriesOnlyGrow
  <1>5. ASSUME NEW p \in Payments
        PROVE  Follows(p)'
    <2>1. Follows(p) /\ CoreTypeOK /\ AppliedIsPublished
      OBVIOUS
    <2>2. \A i \in 1 .. Len(history'[p]) :
             <<p, i>> \in applied => i \in 1 .. Len(history[p])
      BY <2>1, HistoriesOnlyGrow DEF AppliedIsPublished
    <2>3. \A i \in 1 .. Len(history[p]) : i \in 1 .. Len(history'[p])
      BY HistoriesOnlyGrow
    <2>4. core[p] = None <=> \A i \in 1 .. Len(history'[p]) : <<p, i>> \notin applied
      BY <2>1, <2>2, <2>3 DEF Follows
    <2>5. ASSUME core[p] # None
          PROVE  /\ <<p, core[p].version>> \in applied
                 /\ core[p].version \in 1 .. Len(history'[p])
                 /\ core[p] = history'[p][core[p].version]
                 /\ \A i \in 1 .. Len(history'[p]) :
                       <<p, i>> \in applied => i <= core[p].version
      BY <2>1, <2>2, <2>3, <2>5, HistoriesOnlyGrow DEF Follows
    <2> QED
      BY <1>2, <2>4, <2>5 DEF Follows
  <1> QED
    BY <1>1, <1>3, <1>4, <1>5

(* Core has no reason to contradict an event of the platform.              *)
LEMMA NothingContradicts ==
    ASSUME CoreInv, NEW p \in Payments, NEW i \in 1 .. Len(history[p])
    PROVE  ~Contradicts(p, history[p][i])
  <1> DEFINE h == history[p]
             v == core[p].version
  <1> SUFFICES ASSUME core[p] # None
               PROVE  ~Contradicts(p, h[i])
    BY DEF Contradicts
  <1>1. v \in 1 .. Len(h) /\ core[p] = h[v]
    BY DEF CoreInv, Follows
  <1>2. h \in Seq(EventType) /\ Len(h) \in Nat
    BY DEF CoreInv, StoreTypeOK
  <1>3. /\ h[i].version = i /\ h[v].version = v
        /\ h[i].ref = h[v].ref
        /\ \A j \in 1 .. i - 1 : PaymentRank(h[j].status) < PaymentRank(h[i].status)
    BY <1>1 DEF CoreInv, HistoryIsExact
  <1>4. h[i] \in EventType /\ h[v] \in EventType
    BY <1>1, <1>2
  <1>5. PaymentRank(h[i].status) \in 1 .. 3 /\ PaymentRank(h[v].status) \in 1 .. 3
    BY <1>4, Ranks DEF EventType
  <1>6. v < i => PaymentRank(h[v].status) < PaymentRank(h[i].status)
    BY <1>1, <1>2, <1>3
  <1> HIDE DEF h
  <1>7. core[p].ref = h[i].ref
    BY <1>1, <1>3
  <1>8. core[p].version = h[i].version => core[p].status = h[i].status
    BY <1>1, <1>3
  <1>9. core[p].version < h[i].version =>
           ~(PaymentRank(h[i].status) < PaymentRank(core[p].status))
    BY <1>1, <1>3, <1>5, <1>6
  <1> QED
    BY <1>7, <1>8, <1>9 DEF Contradicts

LEMMA ApplyKeepsCore ==
    ASSUME CoreInv, NEW p \in Payments, NEW i \in 1 .. Len(history[p]), Apply(p, i)
    PROVE  CoreInv'
  <1> DEFINE e == history[p][i]
  <1>1. resources' = resources /\ history' = history /\ idempotency' = idempotency
        /\ inbox' = inbox
    BY DEF Apply, storeVars
  <1>2. StoreTypeOK' /\ HistoryIsExact'
    BY <1>1, StepIsTyped, StepIsExact DEF CoreInv, storeVars
  <1>3. ~Contradicts(p, e)
    BY NothingContradicts
  <1>4. /\ applied' = applied \cup {<<p, i>>} /\ quarantined' = quarantined
        /\ Project(p, e)
    BY <1>3 DEF Apply
  <1>5. history[p] \in Seq(EventType) /\ Len(history[p]) \in Nat /\ i \in Nat \ {0}
    BY DEF CoreInv, StoreTypeOK
  <1>6. e \in EventType /\ e # None
    BY <1>5, CoreNoneAssumption
  <1>7. e.version = i
    BY DEF CoreInv, HistoryIsExact
  <1>8. core \in [Payments -> EventType \cup {None}]
    BY DEF CoreInv, CoreTypeOK
  <1>9. Follows(p)
    BY DEF CoreInv
  <1> HIDE DEF e
  <1>10. \A q \in Payments : q # p => core'[q] = core[q]
    BY <1>4, <1>8 DEF Project
  <1>11. core' \in [Payments -> EventType \cup {None}]
    BY <1>4, <1>6, <1>8 DEF Project
  <1>12. <<p, i>> \in EventIds
    BY <1>5 DEF EventIds
  <1>13. CoreTypeOK'
    BY <1>4, <1>11, <1>12 DEF CoreTypeOK, CoreInv
  <1>14. AppliedIsPublished'
    BY <1>1, <1>4 DEF AppliedIsPublished, CoreInv
  <1>15. ASSUME NEW q \in Payments, q # p
         PROVE  Follows(q)'
    <2>1. core'[q] = core[q] /\ \A j \in Nat : <<q, j>> \in applied' <=> <<q, j>> \in applied
      BY <1>4, <1>10, <1>15
    <2>2. Len(history[q]) \in Nat
      BY DEF CoreInv, StoreTypeOK
    <2>3. Follows(q)
      BY DEF CoreInv
    <2> QED
      BY <1>1, <2>1, <2>2, <2>3 DEF Follows
  <1>16. Follows(p)'
    <2>1. CASE core[p] = None \/ core[p].version < i
      <3>1. core'[p] = e
        BY <1>4, <1>7, <1>8, <2>1 DEF Project
      <3>2. \A j \in 1 .. Len(history[p]) : <<p, j>> \in applied => j <= i
        <4>1. CASE core[p] = None
          BY <1>9, <4>1 DEF Follows
        <4>2. CASE core[p] # None
          <5>1. core[p].version < i /\ core[p].version \in Nat
            BY <1>5, <1>9, <2>1, <4>2 DEF Follows
          <5>2. \A j \in 1 .. Len(history[p]) : <<p, j>> \in applied => j <= core[p].version
            BY <1>9, <4>2 DEF Follows
          <5> QED
            BY <1>5, <5>1, <5>2
        <4> QED
          BY <4>1, <4>2
      <3>3. \A j \in 1 .. Len(history[p]) : <<p, j>> \in applied' => j <= i
        BY <1>4, <1>5, <3>2
      <3>4. e = history[p][i]
        BY DEF e
      <3> QED
        BY <1>1, <1>4, <1>6, <1>7, <3>1, <3>3, <3>4 DEF Follows
    <2>2. CASE core[p] # None /\ ~(core[p].version < i)
      <3>1. core' = core
        BY <1>4, <1>7, <2>2 DEF Project
      <3>2. /\ <<p, core[p].version>> \in applied
            /\ core[p].version \in 1 .. Len(history[p])
            /\ core[p] = history[p][core[p].version]
            /\ \A j \in 1 .. Len(history[p]) : <<p, j>> \in applied => j <= core[p].version
        BY <1>9, <2>2 DEF Follows
      <3>3. i <= core[p].version
        BY <1>5, <2>2, <3>2
      <3>4. \A j \in 1 .. Len(history[p]) : <<p, j>> \in applied' => j <= core[p].version
        BY <1>4, <3>2, <3>3
      <3>5. <<p, core[p].version>> \in applied'
        BY <1>4, <3>2
      <3> QED
        BY <1>1, <2>2, <3>1, <3>2, <3>4, <3>5 DEF Follows
    <2> QED
      BY <2>1, <2>2
  <1> QED
    BY <1>2, <1>4, <1>13, <1>14, <1>15, <1>16 DEF CoreInv

LEMMA CoreInvStep == CoreInv /\ [Next]_vars => CoreInv'
  <1> SUFFICES ASSUME CoreInv, [Next]_vars PROVE CoreInv'
    OBVIOUS
  <1>1. CASE StoreNext /\ UNCHANGED coreVars
    BY <1>1, StoreStepKeepsCore
  <1>2. CASE \E p \in Payments : \E i \in 1 .. Len(history[p]) : Apply(p, i)
    BY <1>2, ApplyKeepsCore
  <1>3. CASE UNCHANGED vars
    <2>1. UNCHANGED storeVars /\ UNCHANGED coreVars
      BY <1>3 DEF vars
    <2> QED
      BY <2>1, StoreStepKeepsCore
  <1> QED
    BY <1>1, <1>2, <1>3 DEF Next, Consume

LEMMA CoreInvariant == Spec => []CoreInv
  BY CoreInitHolds, CoreInvStep, PTL DEF Spec

(* In whatever order its messages come, Core rejects no event of the       *)
(* platform and shows the newest one it has seen (applyPayment).           *)
THEOREM CoreAlwaysFollows == Spec => []CoreFollows
  BY CoreInvariant, CoreInvImplies, PTL

-----------------------------------------------------------------------------
(* The ledger *)

LEMMA CoreStepRefines ==
    ASSUME CoreInv, [Next]_vars
    PROVE  CoreLedger!Next \/ CoreView' = CoreView
  <1>1. CASE core' = core
    BY <1>1 DEF CoreView
  <1>2. CASE core' # core
    <2>1. PICK p \in Payments : \E i \in 1 .. Len(history[p]) : Apply(p, i)
      BY <1>2 DEF Next, Consume, vars, coreVars
    <2>2. PICK i \in 1 .. Len(history[p]) : Apply(p, i)
      BY <2>1
    <2> DEFINE e == history[p][i]
               line == [ref |-> e.ref, status |-> e.status]
    <2>3. core \in [Payments -> EventType \cup {None}] /\ e \in EventType
      BY DEF CoreInv, CoreTypeOK, StoreTypeOK
    <2>4. e.version = i
      BY DEF CoreInv, HistoryIsExact
    <2>5. ~Contradicts(p, e)
      BY NothingContradicts
    <2>6. Project(p, e)
      BY <2>2, <2>5 DEF Apply
    <2> HIDE DEF e
    <2>7. /\ core' = [core EXCEPT ![p] = e]
          /\ core[p] = None \/ core[p].version < e.version
      BY <1>2, <2>6 DEF Project
    <2>8. e # None
      BY <2>3, CoreNoneAssumption
    <2>9. CoreView' = [CoreView EXCEPT ![p] = line]
      BY <2>3, <2>7, <2>8 DEF CoreView, Shown
    <2>10. line \in CoreLedger!Line
      BY <2>3 DEF EventType, CoreLedger!Line
    <2>11. CASE core[p] = None
      <3>1. CoreLedger!Record(p)
        BY <2>9, <2>10, <2>11 DEF CoreLedger!Record, CoreView
      <3> QED
        BY <3>1 DEF CoreLedger!Next
    <2>12. CASE core[p] # None
      <3> DEFINE v == core[p].version
      <3>1. v \in 1 .. Len(history[p]) /\ core[p] = history[p][v]
        BY <2>12 DEF CoreInv, Follows
      <3>2. v < i
        BY <2>4, <2>7, <2>12
      <3>3. /\ history[p][i].ref = history[p][v].ref
            /\ PaymentRank(history[p][v].status) < PaymentRank(history[p][i].status)
        BY <3>1, <3>2 DEF CoreInv, HistoryIsExact
      <3>4. e.ref = core[p].ref /\ PaymentRank(core[p].status) < PaymentRank(e.status)
        BY <3>1, <3>3 DEF e
      <3>5. CoreView[p] = [ref |-> core[p].ref, status |-> core[p].status]
        BY <2>12 DEF CoreView, Shown
      <3>6. CoreView[p] # None
        <4>1. core[p] \in EventType
          BY <2>3, <2>12
        <4>2. CoreView[p] \in [ref : References, status : Statuses]
          BY <3>5, <4>1 DEF EventType
        <4> QED
          BY <4>2, StoreNoneAssumption
      <3>7. CoreView' = [CoreView EXCEPT ![p] = [ref |-> @.ref, status |-> e.status]]
        BY <2>9, <3>4, <3>5
      <3>8. e.status \in Statuses
        BY <2>3 DEF EventType
      <3>9. PaymentRank(CoreView[p].status) = PaymentRank(core[p].status)
        BY <3>5
      <3>10. /\ PaymentRank(core[p].status) \in 1 .. 3
             /\ PaymentRank(e.status) \in 1 .. 3
        BY <2>3, <2>12, <3>8, Ranks DEF EventType
      <3>11. PaymentRank(e.status) > PaymentRank(CoreView[p].status)
        BY <3>4, <3>9, <3>10
      <3>12. CoreLedger!Advance(p)
        BY <3>6, <3>7, <3>8, <3>11 DEF CoreLedger!Advance
      <3> QED
        BY <3>12 DEF CoreLedger!Next
    <2> QED
      BY <2>11, <2>12
  <1> QED
    BY <1>1, <1>2

(* Core's copy of the payments is a ledger too.                            *)
THEOREM CoreKeepsALedger == Spec => CoreIsALedger
  <1>1. Init => CoreLedger!Init
    BY DEF Init, CoreView, CoreLedger!Init
  <1>2. CoreInv /\ [Next]_vars => [CoreLedger!Next]_CoreView
    BY CoreStepRefines
  <1>3. Spec => CoreLedger!Init /\ [][CoreLedger!Next]_CoreView
    BY <1>1, <1>2, CoreInvariant, PTL DEF Spec
  <1> QED
    BY <1>3 DEF CoreIsALedger, CoreLedger!Spec
=============================================================================
