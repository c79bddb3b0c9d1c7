------------------------- MODULE PaymentFlowProofs -------------------------
(***************************************************************************)
(* The payment between the platform and the reference app, for every       *)
(* number of payments, keys, workers and late messages: what the platform  *)
(* knows is behind the app's books, along one chain of snapshots, and what *)
(* it is behind by is on record.                                           *)
(***************************************************************************)
EXTENDS PaymentFlow, TLAPS

USE DEF gateVars, bookVars, queueVars, storeVars

-----------------------------------------------------------------------------
(* The inductive invariant *)

(* A request that is awaited is the only one, of a call without an answer; *)
(* an answer that says ok brings a payment.                                *)
OneAwaited ==
    /\ \A m \in wire : m.live =>
          /\ call # None /\ call.answer = None
          /\ \A n \in wire : n.live => n = m
    /\ call # None /\ call.answer # None /\ call.answer.code = "ok" =>
          call.answer.resource # None

(* A payment changes its status with its revision.                         *)
Numbered ==
    \A p \in Payments : books[p] # None =>
        /\ books[p].id = p
        /\ books[p].revision \in 0 .. PaymentRank(books[p].status)

(* The snapshots that anybody holds or has sent                            *)
IsTold(r) ==
    \/ \E p \in Payments : books[p] = r
    \/ \E k \in AppKeys : seen[k] # None /\ seen[k].answer = r
    \/ \E d \in Deliveries : callbacks[d] # None /\ callbacks[d].snapshot = r
    \/ call # None /\ call.answer # None /\ call.answer.resource = r
    \/ /\ Known(r.id)
       /\ resources[r.id].ref = r.ref
       /\ resources[r.id].status = r.status
       /\ resources[r.id].revision = r.revision

Agree(r, s) ==
    /\ r.ref = s.ref
    /\ r.revision = s.revision => r = s
    /\ r.revision < s.revision => PaymentRank(r.status) < PaymentRank(s.status)

(* All snapshots of a payment are of one chain, which ends in the books.   *)
Chain ==
    \A r \in ResourceType : IsTold(r) =>
        /\ books[r.id] # None
        /\ r.revision \in 0 .. books[r.id].revision
        /\ \A s \in ResourceType : IsTold(s) /\ s.id = r.id => Agree(r, s)

(* Every change of the books has its callback, under its number.           *)
Queued ==
    /\ \A d \in Deliveries : callbacks[d] # None =>
          callbacks[d].snapshot.id = d[1] /\ callbacks[d].snapshot.revision = d[2]
    /\ \A p \in Payments : books[p] # None /\ books[p].revision # 0 =>
          /\ <<p, books[p].revision>> \in Deliveries
          /\ callbacks[<<p, books[p].revision>>] # None
          /\ callbacks[<<p, books[p].revision>>].snapshot = books[p]

(* What is sent is a callback, and what was accepted is behind the row.    *)
Delivered ==
    /\ \A x \in posts : callbacks[x.delivery] # None
    /\ \A d \in Deliveries :
          /\ sending[d] # None => callbacks[d] # None
          /\ sending[d] = "accepted" => d \in inbox
          /\ callbacks[d] # None /\ callbacks[d].status = "delivered" => d \in inbox
          /\ d \in inbox => /\ callbacks[d] # None
                            /\ Known(d[1]) /\ d[2] <= resources[d[1]].revision

(* A payment that is new in the books was ordered under some caller's key. *)
BookedByKey ==
    \A p \in Payments \ Legacy : books[p] # None =>
        \E k \in Keys : /\ seen[k] # None /\ seen[k].answer.id = p
                        /\ seen[k].request.op = "create"

FlowInv ==
    /\ FlowTypeOK
    /\ OneAwaited
    /\ Numbered
    /\ Chain
    /\ Queued
    /\ Delivered
    /\ BookedByKey
    /\ AnswersKeepTheirWord

-----------------------------------------------------------------------------
(* What the invariant says *)

(* The ranks are an order of the statuses (events.PaymentRank).            *)
LEMMA Ranks ==
    \A s, t \in Statuses :
        /\ PaymentRank(s) \in 1 .. 3
        /\ PaymentRank(s) = PaymentRank(t) => s = t
  BY DEF Statuses, PaymentRank

LEMMA BooksAreTold ==
    ASSUME FlowTypeOK, NEW p \in Payments, books[p] # None
    PROVE  books[p] \in ResourceType /\ IsTold(books[p])
  BY DEF FlowTypeOK, IsTold

(* The stored payment as a snapshot, which has been told.                  *)
LEMMA RowsAreTold ==
    ASSUME FlowTypeOK, NEW p \in Payments, Known(p)
    PROVE  \E r \in ResourceType :
              /\ IsTold(r) /\ r.id = p
              /\ resources[p].ref = r.ref
              /\ resources[p].status = r.status
              /\ resources[p].revision = r.revision
  <1>1. resources[p] \in RowType
    BY DEF FlowTypeOK, StoreTypeOK, Known
  <1> DEFINE r == [id |-> p, ref |-> resources[p].ref,
                   status |-> resources[p].status,
                   revision |-> resources[p].revision]
  <1>2. /\ r \in ResourceType /\ r.id = p /\ r.ref = resources[p].ref
        /\ r.status = resources[p].status /\ r.revision = resources[p].revision
    BY <1>1 DEF ResourceType, RowType
  <1> HIDE DEF r
  <1> QED
    BY <1>2 DEF IsTold

LEMMA LagFollows == FlowInv => LagIsOnRecord
  <1> SUFFICES ASSUME FlowInv, NEW p \in Payments, Known(p)
               PROVE  /\ books[p] # None /\ books[p].ref = resources[p].ref
                      /\ resources[p].revision <= books[p].revision
                      /\ resources[p].status # books[p].status =>
                            \E d \in Deliveries :
                                /\ callbacks[d] # None
                                /\ callbacks[d].status # "delivered"
                                /\ callbacks[d].snapshot = books[p]
    BY DEF LagIsOnRecord
  <1>1. PICK r \in ResourceType :
            /\ IsTold(r) /\ r.id = p
            /\ resources[p].ref = r.ref
            /\ resources[p].status = r.status
            /\ resources[p].revision = r.revision
    BY RowsAreTold DEF FlowInv
  <1>2. books[p] # None /\ r.revision \in 0 .. books[p].revision
    BY <1>1 DEF FlowInv, Chain
  <1>3. /\ books[p] \in ResourceType /\ IsTold(books[p]) /\ books[p].id = p
        /\ books[p].revision \in Int
    BY <1>2, BooksAreTold DEF FlowInv, Numbered, ResourceType
  <1>4. Agree(r, books[p])
    BY <1>1, <1>3 DEF FlowInv, Chain
  <1>5. ASSUME resources[p].status # books[p].status
        PROVE  \E d \in Deliveries :
                  /\ callbacks[d] # None
                  /\ callbacks[d].status # "delivered"
                  /\ callbacks[d].snapshot = books[p]
    <2>1. r.revision < books[p].revision /\ books[p].revision # 0
      BY <1>1, <1>2, <1>3, <1>4, <1>5 DEF Agree
    <2>2. PICK d \in Deliveries :
              /\ d = <<p, books[p].revision>>
              /\ callbacks[d] # None /\ callbacks[d].snapshot = books[p]
      BY <1>2, <2>1 DEF FlowInv, Queued
    <2>3. d[1] = p /\ d[2] = books[p].revision
      BY <2>2
    <2>4. d \notin inbox
      BY <1>1, <1>3, <2>1, <2>3 DEF FlowInv, Delivered, ResourceType
    <2> QED
      BY <2>2, <2>4 DEF FlowInv, Delivered
  <1> QED
    BY <1>1, <1>2, <1>3, <1>4, <1>5 DEF Agree

LEMMA BookedOnceFollows == FlowInv => BookedOnce
  BY DEF FlowInv, BookedByKey, BookedOnce

LEMMA InitHolds == Init => FlowInv
  <1> SUFFICES ASSUME Init PROVE FlowInv
    OBVIOUS
  <1>1. PICK old \in [Legacy -> LegacyRow] :
            resources = [p \in Payments |-> IF p \in Legacy THEN old[p] ELSE None]
    BY DEF Init, StoreInit
  <1>2. \A p \in Legacy : old[p] \in RowType /\ old[p].revision = 0
    BY DEF LegacyRow, RowType
  <1>3. \A p \in Payments :
            /\ Known(p) <=> p \in Legacy
            /\ Known(p) => resources[p] \in RowType /\ resources[p].revision = 0
    BY <1>1, <1>2, StoreNoneAssumption DEF Known
  <1>4. \A p \in Payments :
            /\ Known(p) => books[p] = [id |-> p, ref |-> resources[p].ref,
                                       status |-> resources[p].status, revision |-> 0]
            /\ ~Known(p) => books[p] = None
    BY DEF Init
  <1>5. ASSUME NEW p \in Payments, Known(p)
        PROVE  /\ books[p] \in ResourceType /\ books[p] # None
               /\ books[p].id = p /\ books[p].revision = 0
               /\ books[p].ref = resources[p].ref
               /\ books[p].status = resources[p].status
    <2> DEFINE r == [id |-> p, ref |-> resources[p].ref,
                     status |-> resources[p].status, revision |-> 0]
    <2>1. /\ r \in ResourceType /\ r.id = p /\ r.revision = 0
          /\ r.ref = resources[p].ref /\ r.status = resources[p].status
      BY <1>3, <1>5 DEF ResourceType, RowType
    <2>2. books[p] = r
      BY <1>4, <1>5
    <2> HIDE DEF r
    <2> QED
      BY <2>1, <2>2, FlowNoneAssumption
  <1>6. StoreTypeOK
    <2>1. resources \in [Payments -> RowType \cup {None}]
      BY <1>1, <1>2
    <2> QED
      BY <2>1 DEF Init, StoreInit, StoreTypeOK
  <1>7. FlowTypeOK
    <2>1. books \in [Payments -> ResourceType \cup {None}]
      <3>1. \A p \in Payments : books[p] \in ResourceType \cup {None}
        BY <1>4, <1>5
      <3>2. books = [p \in Payments |-> books[p]]
        BY DEF Init
      <3> QED
        BY <3>1, <3>2
    <2>2. /\ active = TRUE /\ connected = TRUE /\ grant = TRUE
          /\ call = None /\ wire = {} /\ posts = {}
          /\ seen = [k \in AppKeys |-> None]
          /\ callbacks = [d \in Deliveries |-> None]
          /\ sending = [d \in Deliveries |-> None]
      BY DEF Init
    <2>3. /\ seen \in [AppKeys -> EntryType \cup {None}]
          /\ callbacks \in [Deliveries -> CallbackType \cup {None}]
          /\ sending \in [Deliveries -> {None, "sent", "accepted", "rejected", "failed"}]
      BY <2>2
    <2>4. active \in BOOLEAN /\ connected \in BOOLEAN /\ grant \in BOOLEAN
      BY <2>2
    <2>5. /\ call \in CallType \cup {None}
          /\ wire \subseteq [key : Keys, request : RequestType, live : BOOLEAN]
          /\ posts \subseteq [delivery : Deliveries, live : BOOLEAN]
      BY <2>2
    <2> QED
      BY <1>6, <2>1, <2>3, <2>4, <2>5 DEF FlowTypeOK
  <1>8. OneAwaited /\ Delivered /\ AnswersKeepTheirWord
    <2>1. /\ call = None /\ wire = {} /\ posts = {} /\ inbox = {}
          /\ \A k \in Keys : idempotency[k] = None
          /\ \A d \in Deliveries : callbacks[d] = None /\ sending[d] = None
      BY DEF Init, StoreInit
    <2>2. OneAwaited /\ AnswersKeepTheirWord
      BY <2>1 DEF OneAwaited, AnswersKeepTheirWord
    <2>3. Delivered
      BY <2>1, FlowNoneAssumption DEF Delivered
    <2> QED
      BY <2>2, <2>3
  <1>9. Numbered /\ Queued
    BY <1>4, <1>5, Ranks DEF Init, Numbered, Queued, ResourceType
  <1>10. BookedByKey
    BY <1>3, <1>4 DEF BookedByKey
  <1>11. ASSUME NEW r \in ResourceType, IsTold(r)
         PROVE  Known(r.id) /\ r = books[r.id]
    <2>1. CASE \E p \in Payments : books[p] = r
      <3>1. PICK p \in Payments : books[p] = r
        BY <2>1
      <3>2. Known(p)
        BY <1>4, <3>1, FlowNoneAssumption
      <3> QED
        BY <1>5, <3>1, <3>2
    <2>2. CASE ~\E p \in Payments : books[p] = r
      <3>1. /\ Known(r.id)
            /\ resources[r.id].ref = r.ref
            /\ resources[r.id].status = r.status
            /\ resources[r.id].revision = r.revision
        BY <1>11, <2>2 DEF IsTold, Init
      <3> QED
        BY <1>3, <1>4, <3>1 DEF ResourceType
    <2> QED
      BY <2>1, <2>2
  <1>12. Chain
    BY <1>5, <1>11 DEF Chain, Agree, ResourceType
  <1> QED
    BY <1>7, <1>8, <1>9, <1>10, <1>12 DEF FlowInv

-----------------------------------------------------------------------------
(* Steps that leave the store, the books and the callbacks alone           *)

LEMMA ToldKeeps ==
    ASSUME FlowInv, UNCHANGED books,
           \A r \in ResourceType : IsTold(r)' => IsTold(r)
    PROVE  Chain'
  BY DEF FlowInv, Chain

LEMMA GateKeeps ==
    ASSUME FlowInv, UNCHANGED <<storeVars, books, seen, queueVars>>,
           active' \in BOOLEAN, connected' \in BOOLEAN, grant' \in BOOLEAN,
           call' \in CallType \cup {None},
           wire' \subseteq [key : Keys, request : RequestType, live : BOOLEAN],
           OneAwaited',
           \A r \in ResourceType :
              call' # None /\ call'.answer # None /\ call'.answer.resource = r
              => IsTold(r)
    PROVE  FlowInv'
  <1>1. FlowTypeOK'
    BY DEF FlowInv, FlowTypeOK, StoreTypeOK
  <1>2. Chain'
    <2>1. ASSUME NEW r \in ResourceType, IsTold(r)'
          PROVE  IsTold(r)
      BY <2>1 DEF IsTold, Known
    <2> QED
      BY <2>1, ToldKeeps
  <1>3. Numbered' /\ Queued' /\ BookedByKey' /\ AnswersKeepTheirWord'
    BY DEF FlowInv, Numbered, Queued, BookedByKey, AnswersKeepTheirWord
  <1>4. Delivered'
    BY DEF FlowInv, Delivered, Known
  <1> QED
    BY <1>1, <1>2, <1>3, <1>4 DEF FlowInv

(* Nobody waits any more.                                                  *)
LEMMA AbandonedAreLate ==
    ASSUME NEW messages, NEW message, NEW kept,
           kept \in Abandoned(messages, message)
    PROVE  \A m \in kept : \/ m \in messages \ message
                           \/ \E n \in message : m = [n EXCEPT !.live = FALSE]
  BY DEF Abandoned

LEMMA CallsAreTyped ==
    ASSUME FlowInv, call # None
    PROVE  /\ call \in CallType
           /\ call.key \in Keys /\ call.request \in RequestType
           /\ call.answer # None => call.answer \in AnswerType
  BY DEF FlowInv, FlowTypeOK, CallType

LEMMA BeginKeeps ==
    ASSUME FlowInv, NEW c \in Calls, Begin(c[1], c[2])
    PROVE  FlowInv'
  <1>1. PICK k \in Keys, request \in RequestType : k = c[1] /\ request = c[2]
    BY FlowAssumption
  <1> DEFINE begun == [key |-> k, request |-> request, answer |-> None]
             sent == [key |-> k, request |-> request, live |-> TRUE]
  <1>2. /\ call = None /\ call' = begun /\ wire' = wire \cup {sent}
        /\ UNCHANGED <<storeVars, active, connected, bookVars, queueVars>>
    BY <1>1 DEF Begin, Routed, GateFree
  <1>3. begun \in CallType /\ begun.answer = None
    BY DEF CallType
  <1>4. sent \in [key : Keys, request : RequestType, live : BOOLEAN] /\ sent.live
    OBVIOUS
  <1> HIDE DEF begun, sent
  <1>5. begun # None
    BY <1>3, FlowNoneAssumption
  <1>6. \A m \in wire : ~m.live
    BY <1>2 DEF FlowInv, OneAwaited
  <1>7. OneAwaited'
    BY <1>2, <1>3, <1>4, <1>5, <1>6 DEF OneAwaited
  <1>8. /\ active' \in BOOLEAN /\ connected' \in BOOLEAN /\ grant' \in BOOLEAN
        /\ wire' \subseteq [key : Keys, request : RequestType, live : BOOLEAN]
    BY <1>2, <1>4 DEF FlowInv, FlowTypeOK
  <1> QED
    BY <1>2, <1>3, <1>7, <1>8, GateKeeps

(* A call ends without a trace in the store.                               *)
LEMMA EndKeeps ==
    ASSUME FlowInv, Reject \/ Disconnect
    PROVE  FlowInv'
  <1>1. /\ call # None /\ call.answer # None /\ call' = None
        /\ UNCHANGED <<storeVars, active, wire, bookVars, queueVars>>
        /\ connected' \in BOOLEAN
    BY DEF Reject, Disconnect, Answered, FlowInv, FlowTypeOK
  <1>2. \A m \in wire : ~m.live
    BY <1>1 DEF FlowInv, OneAwaited
  <1>3. OneAwaited'
    BY <1>1, <1>2 DEF OneAwaited
  <1> QED
    BY <1>1, <1>3, GateKeeps DEF FlowInv, FlowTypeOK

LEMMA GiveUpKeeps ==
    ASSUME FlowInv, GiveUp
    PROVE  FlowInv'
  <1> DEFINE Message == [key : Keys, request : RequestType, live : BOOLEAN]
  <1>1. wire \subseteq Message
    BY DEF FlowInv, FlowTypeOK
  <1>2. ASSUME NEW m \in wire' PROVE m \in Message /\ ~m.live
    <2>1. \/ m \in wire /\ ~m.live
          \/ \E n \in wire : m = [n EXCEPT !.live = FALSE]
      BY AbandonedAreLate DEF GiveUp
    <2> QED
      BY <1>1, <2>1
  <1>3. OneAwaited'
    BY <1>2 DEF GiveUp, OneAwaited
  <1> QED
    BY <1>2, <1>3, GateKeeps DEF GiveUp, FlowInv, FlowTypeOK

LEMMA SwitchesKeep ==
    ASSUME FlowInv, Uninstall \/ GrantEnds
    PROVE  FlowInv'
  <1>1. /\ UNCHANGED <<storeVars, connected, call, wire, books, seen, queueVars>>
        /\ active' \in BOOLEAN /\ grant' \in BOOLEAN
    BY DEF Uninstall, GrantEnds, FlowInv, FlowTypeOK
  <1>2. OneAwaited'
    BY <1>1 DEF FlowInv, OneAwaited
  <1>3. \A r \in ResourceType :
            call # None /\ call.answer # None /\ call.answer.resource = r => IsTold(r)
    BY DEF IsTold
  <1> QED
    BY <1>1, <1>2, <1>3, GateKeeps DEF FlowInv, FlowTypeOK

(* What an answer does to the call, if anybody waits for it                *)
LEMMA AnswerArrives ==
    ASSUME FlowInv, NEW m \in wire, NEW code \in {"ok", "refused", "unauthenticated"},
           NEW r \in ResourceType \cup {None}, code = "ok" => r # None,
           Answer(m, code, r)
    PROVE  /\ call' \in CallType \cup {None}
           /\ wire' \subseteq [key : Keys, request : RequestType, live : BOOLEAN]
           /\ OneAwaited'
           /\ \A s \in ResourceType :
                 call' # None /\ call'.answer # None /\ call'.answer.resource = s
                 => \/ s = r
                    \/ call # None /\ call.answer # None /\ call.answer.resource = s
  <1>1. wire' = wire \ {m}
    BY DEF Answer
  <1>2. wire' \subseteq [key : Keys, request : RequestType, live : BOOLEAN]
    BY <1>1 DEF FlowInv, FlowTypeOK
  <1>3. CASE m.live
    <2> DEFINE answer == [code |-> code, resource |-> r]
               answered == [call EXCEPT !.answer = answer]
    <2>1. answer \in AnswerType /\ answer.code = code /\ answer.resource = r
      BY DEF AnswerType
    <2>2. call # None /\ \A n \in wire : n.live => n = m
      BY <1>3 DEF FlowInv, OneAwaited
    <2>3. call' = answered
      BY <1>3 DEF Answer
    <2> HIDE DEF answer
    <2>4. answered \in CallType /\ answered.answer = answer
      BY <2>1, <2>2, CallsAreTyped DEF CallType
    <2> HIDE DEF answered
    <2>5. OneAwaited'
      BY <1>1, <2>1, <2>2, <2>3, <2>4 DEF OneAwaited
    <2> QED
      BY <1>2, <2>1, <2>3, <2>4, <2>5
  <1>4. CASE ~m.live
    <2>1. call' = call
      BY <1>4 DEF Answer
    <2>2. OneAwaited'
      BY <1>1, <2>1 DEF FlowInv, OneAwaited
    <2> QED
      BY <1>2, <2>1, <2>2 DEF FlowInv, FlowTypeOK
  <1> QED
    BY <1>3, <1>4

LEMMA RepeatKeeps ==
    ASSUME FlowInv, NEW m \in wire, Repeat(m) \/ Refuse(m)
    PROVE  FlowInv'
  <1>1. m.key \in Keys /\ m.key \in AppKeys
    BY DEF FlowInv, FlowTypeOK, AppKeys
  <1>2. \E code \in {"ok", "refused", "unauthenticated"},
           r \in ResourceType \cup {None} :
              /\ code = "ok" => r # None
              /\ r # None => IsTold(r)
              /\ Answer(m, code, r)
    <2>1. CASE seen[m.key] # None /\ Answer(m, "ok", seen[m.key].answer)
      <3>1. PICK r : r = seen[m.key].answer
        OBVIOUS
      <3>2. r \in ResourceType /\ IsTold(r)
        BY <1>1, <2>1, <3>1 DEF IsTold, FlowInv, FlowTypeOK, EntryType
      <3> QED
        BY <2>1, <3>1, <3>2, FlowNoneAssumption
    <2>2. CASE Answer(m, "refused", None) \/ Answer(m, "unauthenticated", None)
      BY <2>2
    <2> QED
      BY <2>1, <2>2 DEF Repeat, Refuse
  <1>3. PICK code \in {"ok", "refused", "unauthenticated"},
             r \in ResourceType \cup {None} :
                /\ code = "ok" => r # None
                /\ r # None => IsTold(r)
                /\ Answer(m, code, r)
    BY <1>2
  <1>4. /\ call' \in CallType \cup {None}
        /\ wire' \subseteq [key : Keys, request : RequestType, live : BOOLEAN]
        /\ OneAwaited'
        /\ \A s \in ResourceType :
              call' # None /\ call'.answer # None /\ call'.answer.resource = s
              => \/ s = r
                 \/ call # None /\ call.answer # None /\ call.answer.resource = s
    BY <1>3, AnswerArrives
  <1>5. \A s \in ResourceType :
            call' # None /\ call'.answer # None /\ call'.answer.resource = s
            => IsTold(s)
    BY <1>3, <1>4, FlowNoneAssumption DEF IsTold
  <1>6. UNCHANGED <<storeVars, active, connected, bookVars, queueVars>>
    BY <1>3 DEF Answer, Repeat, Refuse
  <1> QED
    BY <1>4, <1>5, <1>6, GateKeeps DEF FlowInv, FlowTypeOK

-----------------------------------------------------------------------------
(* Steps of the callback worker                                            *)

(* What is sent changes its status and nothing it says.                    *)
LEMMA QueueKeeps ==
    ASSUME FlowInv, UNCHANGED <<storeVars, gateVars, wire, bookVars>>,
           callbacks' \in [Deliveries -> CallbackType \cup {None}],
           sending' \in [Deliveries -> {None, "sent", "accepted", "rejected", "failed"}],
           posts' \subseteq [delivery : Deliveries, live : BOOLEAN],
           \A d \in Deliveries :
              IF callbacks[d] = None THEN callbacks'[d] = None
              ELSE /\ callbacks'[d] # None
                   /\ callbacks'[d].snapshot = callbacks[d].snapshot
                   /\ callbacks'[d].status = "delivered" =>
                         callbacks[d].status = "delivered" \/ sending[d] = "accepted",
           \A d \in Deliveries :
              /\ sending'[d] # None => callbacks[d] # None
              /\ sending'[d] = "accepted" => sending[d] = "accepted",
           \A x \in posts' : callbacks[x.delivery] # None
    PROVE  FlowInv'
  <1>1. FlowTypeOK'
    BY DEF FlowInv, FlowTypeOK, StoreTypeOK
  <1>2. Chain'
    <2>1. ASSUME NEW r \in ResourceType, IsTold(r)'
          PROVE  IsTold(r)
      BY <2>1 DEF IsTold, Known
    <2> QED
      BY <2>1, ToldKeeps
  <1>3. OneAwaited' /\ Numbered' /\ BookedByKey' /\ AnswersKeepTheirWord'
    BY DEF FlowInv, OneAwaited, Numbered, BookedByKey, AnswersKeepTheirWord
  <1>4. Queued'
    BY DEF FlowInv, Queued
  <1>5. Delivered'
    <2>1. \A x \in posts' : x.delivery \in Deliveries
      OBVIOUS
    <2>2. \A x \in posts' : callbacks'[x.delivery] # None
      BY <2>1
    <2>3. ASSUME NEW d \in Deliveries
          PROVE  /\ sending'[d] # None => callbacks'[d] # None
                 /\ sending'[d] = "accepted" => d \in inbox
                 /\ callbacks'[d] # None /\ callbacks'[d].status = "delivered"
                        => d \in inbox
                 /\ d \in inbox => callbacks'[d] # None
      BY DEF FlowInv, Delivered
    <2>4. \A d \in Deliveries : d \in inbox =>
              Known(d[1])' /\ d[2] <= resources'[d[1]].revision
      BY DEF FlowInv, Delivered, Known
    <2> QED
      BY <2>2, <2>3, <2>4 DEF Delivered
  <1> QED
    BY <1>1, <1>2, <1>3, <1>4, <1>5 DEF FlowInv

(* A callback gets another status, and perhaps one attempt more.           *)
LEMMA StatusKeeps ==
    ASSUME FlowInv, UNCHANGED <<storeVars, gateVars, wire, bookVars, posts>>,
           NEW d \in Deliveries, callbacks[d] # None,
           NEW told \in CallbackType, told.snapshot = callbacks[d].snapshot,
           told.status = "delivered" => sending[d] = "accepted",
           callbacks' = [callbacks EXCEPT ![d] = told],
           sending' = sending \/ sending' = [sending EXCEPT ![d] = None]
    PROVE  FlowInv'
  <1>1. /\ callbacks \in [Deliveries -> CallbackType \cup {None}]
        /\ sending \in [Deliveries -> {None, "sent", "accepted", "rejected", "failed"}]
        /\ posts \subseteq [delivery : Deliveries, live : BOOLEAN]
    BY DEF FlowInv, FlowTypeOK
  <1>2. callbacks'[d] = told /\ told # None
    BY <1>1, FlowNoneAssumption
  <1>3. \A e \in Deliveries \ {d} : callbacks'[e] = callbacks[e]
    BY <1>1
  <1>4. \A e \in Deliveries : sending'[e] = sending[e] \/ (e = d /\ sending'[e] = None)
    BY <1>1
  <1>5. /\ callbacks' \in [Deliveries -> CallbackType \cup {None}]
        /\ sending' \in [Deliveries -> {None, "sent", "accepted", "rejected", "failed"}]
    BY <1>1
  <1>6. \A e \in Deliveries :
            IF callbacks[e] = None THEN callbacks'[e] = None
            ELSE /\ callbacks'[e] # None
                 /\ callbacks'[e].snapshot = callbacks[e].snapshot
                 /\ callbacks'[e].status = "delivered" =>
                       callbacks[e].status = "delivered" \/ sending[e] = "accepted"
    BY <1>2, <1>3
  <1>7. \A e \in Deliveries :
            /\ sending'[e] # None => callbacks[e] # None
            /\ sending'[e] = "accepted" => sending[e] = "accepted"
    BY <1>4, FlowNoneAssumption DEF FlowInv, Delivered
  <1>8. \A x \in posts' : callbacks[x.delivery] # None
    BY DEF FlowInv, Delivered
  <1> QED
    BY <1>1, <1>5, <1>6, <1>7, <1>8, QueueKeeps

LEMMA PostsAreLate ==
    ASSUME FlowInv, NEW d \in Deliveries, posts' \in Abandoned(posts, Awaited(d))
    PROVE  /\ posts' \subseteq [delivery : Deliveries, live : BOOLEAN]
           /\ \A x \in posts' : callbacks[x.delivery] # None
  <1>1. /\ posts \subseteq [delivery : Deliveries, live : BOOLEAN]
        /\ \A x \in posts : callbacks[x.delivery] # None
    BY DEF FlowInv, FlowTypeOK, Delivered
  <1> SUFFICES ASSUME NEW x \in posts'
               PROVE  /\ x \in [delivery : Deliveries, live : BOOLEAN]
                      /\ callbacks[x.delivery] # None
    OBVIOUS
  <1>2. \/ x \in posts
        \/ \E n \in posts : x = [n EXCEPT !.live = FALSE]
    BY AbandonedAreLate DEF Awaited
  <1> QED
    BY <1>1, <1>2

LEMMA WorkerKeeps ==
    ASSUME FlowInv, CallbackWorker \/ Crashes
    PROVE  FlowInv'
  <1>1. /\ callbacks \in [Deliveries -> CallbackType \cup {None}]
        /\ sending \in [Deliveries -> {None, "sent", "accepted", "rejected", "failed"}]
        /\ posts \subseteq [delivery : Deliveries, live : BOOLEAN]
    BY DEF FlowInv, FlowTypeOK
  <1>2. ASSUME NEW d \in Deliveries, callbacks[d] # None,
               NEW status \in {"dead", "cancelled"}
        PROVE  LET told == [callbacks[d] EXCEPT !.status = status] IN
               /\ told \in CallbackType /\ told.snapshot = callbacks[d].snapshot
               /\ told.status # "delivered"
    BY <1>1, <1>2 DEF CallbackType
  <1>3. ASSUME NEW d \in Deliveries, Send(d)
        PROVE  FlowInv'
    <2>1. CASE grant
      <3> DEFINE x == [delivery |-> d, live |-> TRUE]
      <3>1. /\ callbacks' = callbacks
            /\ sending' = [sending EXCEPT ![d] = "sent"]
            /\ posts' = posts \cup {x}
            /\ callbacks[d] # None
            /\ UNCHANGED <<storeVars, gateVars, wire, bookVars>>
        BY <1>3, <2>1 DEF Send, Pending
      <3>2. x \in [delivery : Deliveries, live : BOOLEAN] /\ x.delivery = d
        OBVIOUS
      <3> HIDE DEF x
      <3>3. \A e \in Deliveries :
                /\ sending'[e] # None => callbacks[e] # None
                /\ sending'[e] = "accepted" => sending[e] = "accepted"
        BY <1>1, <3>1 DEF FlowInv, Delivered
      <3>4. \A y \in posts' : callbacks[y.delivery] # None
        BY <3>1, <3>2 DEF FlowInv, Delivered
      <3>5. /\ sending' \in [Deliveries -> {None, "sent", "accepted", "rejected", "failed"}]
            /\ posts' \subseteq [delivery : Deliveries, live : BOOLEAN]
        BY <1>1, <3>1, <3>2
      <3> QED
        BY <1>1, <3>1, <3>3, <3>4, <3>5, QueueKeeps
    <2>2. CASE ~grant
      <3> DEFINE told == [callbacks[d] EXCEPT !.status = "cancelled"]
      <3>1. /\ callbacks' = [callbacks EXCEPT ![d] = told]
            /\ callbacks[d] # None
            /\ UNCHANGED <<storeVars, gateVars, wire, bookVars, sending, posts>>
        BY <1>3, <2>2 DEF Send, Pending
      <3>2. /\ told \in CallbackType /\ told.snapshot = callbacks[d].snapshot
            /\ told.status # "delivered"
        BY <1>2, <3>1
      <3> HIDE DEF told
      <3> QED
        BY <3>1, <3>2, StatusKeeps
    <2> QED
      BY <2>1, <2>2
  <1>4. ASSUME NEW d \in Deliveries, Expire(d)
        PROVE  FlowInv'
    <2> DEFINE told == [callbacks[d] EXCEPT !.status = "dead"]
    <2>1. /\ callbacks' = [callbacks EXCEPT ![d] = told]
          /\ callbacks[d] # None
          /\ UNCHANGED <<storeVars, gateVars, wire, bookVars, sending, posts>>
      BY <1>4 DEF Expire, Pending
    <2>2. /\ told \in CallbackType /\ told.snapshot = callbacks[d].snapshot
          /\ told.status # "delivered"
      BY <1>2, <2>1
    <2> HIDE DEF told
    <2> QED
      BY <2>1, <2>2, StatusKeeps
  <1>5. ASSUME NEW d \in Deliveries, Settle(d)
        PROVE  FlowInv'
    <2>1. /\ callbacks' = [callbacks EXCEPT ![d] = Settled(d)]
          /\ sending' = [sending EXCEPT ![d] = None]
          /\ sending[d] # None
          /\ UNCHANGED <<storeVars, gateVars, wire, bookVars, posts>>
      BY <1>5 DEF Settle
    <2>2. callbacks[d] # None /\ callbacks[d] \in CallbackType
      BY <1>1, <2>1 DEF FlowInv, Delivered
    <2>3. /\ Settled(d) \in CallbackType
          /\ Settled(d).snapshot = callbacks[d].snapshot
          /\ Settled(d).status = "delivered" => sending[d] = "accepted"
      <3> DEFINE attempts == callbacks[d].attempts + 1
                 status == CASE sending[d] = "accepted" -> "delivered"
                             [] sending[d] = "rejected" -> "dead"
                             [] OTHER -> IF attempts >= MaxAttempts THEN "dead"
                                                                    ELSE "pending"
      <3>1. Settled(d) = [callbacks[d] EXCEPT !.attempts = attempts, !.status = status]
        BY DEF Settled
      <3>2. attempts \in Nat
        BY <2>2 DEF CallbackType
      <3>3. /\ status \in {"pending", "delivered", "dead", "cancelled"}
            /\ status = "delivered" => sending[d] = "accepted"
        OBVIOUS
      <3> HIDE DEF attempts, status
      <3> QED
        BY <2>2, <3>1, <3>2, <3>3 DEF CallbackType
    <2> QED
      BY <2>1, <2>2, <2>3, StatusKeeps
  <1>6. ASSUME NEW d \in Deliveries, TimeOut(d) \/ Crash(d)
        PROVE  FlowInv'
    <2>1. /\ callbacks' = callbacks
          /\ sending[d] # None
          /\ \E stage \in {None, "failed"} : sending' = [sending EXCEPT ![d] = stage]
          /\ posts' \in Abandoned(posts, Awaited(d))
          /\ UNCHANGED <<storeVars, gateVars, wire, bookVars>>
      BY <1>6, FlowNoneAssumption DEF TimeOut, Crash
    <2>2. /\ posts' \subseteq [delivery : Deliveries, live : BOOLEAN]
          /\ \A x \in posts' : callbacks[x.delivery] # None
      BY <2>1, PostsAreLate
    <2>3. \A e \in Deliveries :
              /\ sending'[e] # None => callbacks[e] # None
              /\ sending'[e] = "accepted" => sending[e] = "accepted"
      BY <1>1, <2>1, FlowNoneAssumption DEF FlowInv, Delivered
    <2>4. sending' \in [Deliveries -> {None, "sent", "accepted", "rejected", "failed"}]
      BY <1>1, <2>1
    <2> QED
      BY <1>1, <2>1, <2>2, <2>3, <2>4, QueueKeeps
  <1> QED
    BY <1>3, <1>4, <1>5, <1>6 DEF CallbackWorker, Crashes

-----------------------------------------------------------------------------
(* Steps that save a payment                                               *)

(* The row that is saved is the snapshot, or is as it was; it is known     *)
(* then, not behind the snapshot, and what the caller is given is its.     *)
LEMMA SaveMovesOn ==
    ASSUME StoreTypeOK, NEW r \in ResourceType, SavePayment(r)
    PROVE  /\ resources' \in [Payments -> RowType \cup {None}]
           /\ \A p \in Payments \ {r.id} : resources'[p] = resources[p]
           /\ resources'[r.id] # None /\ r.revision <= resources'[r.id].revision
           /\ Known(r.id) => resources[r.id].revision <= resources'[r.id].revision
           /\ \/ resources' = resources /\ r.revision < resources[r.id].revision
              \/ /\ resources'[r.id].ref = r.ref
                 /\ resources'[r.id].status = r.status
                 /\ resources'[r.id].revision = r.revision
                 /\ Saved(r) = r
  <1>1. /\ r.id \in Payments /\ r.ref \in References /\ r.status \in Statuses
        /\ r.revision \in Int
        /\ resources \in [Payments -> RowType \cup {None}]
    BY DEF StoreTypeOK, ResourceType
  <1>2. Known(r.id) => /\ resources[r.id] \in RowType
                       /\ resources[r.id].revision \in Int
                       /\ resources[r.id].version \in Nat
    BY <1>1 DEF Known, RowType
  <1>3. CASE Stale(r)
    BY <1>1, <1>2, <1>3 DEF SavePayment, Stale, Known
  <1>4. CASE ~Stale(r)
    <2>1. resources' = [resources EXCEPT ![r.id] = Row(r)] /\ Saved(r) = r
      BY <1>4 DEF SavePayment, Saved
    <2>2. Version(r) \in Nat
      BY <1>2 DEF Version
    <2>3. /\ Row(r) \in RowType /\ Row(r).ref = r.ref
          /\ Row(r).status = r.status /\ Row(r).revision = r.revision
      BY <1>1, <2>2 DEF Row, RowType
    <2>4. Known(r.id) => resources[r.id].revision <= r.revision
      BY <1>1, <1>2, <1>4 DEF Stale
    <2>5. resources'[r.id] = Row(r) /\ Row(r) # None
      BY <1>1, <2>1, <2>3, StoreNoneAssumption
    <2>6. /\ resources' \in [Payments -> RowType \cup {None}]
          /\ \A p \in Payments \ {r.id} : resources'[p] = resources[p]
      BY <1>1, <2>1, <2>3
    <2> QED
      BY <1>1, <2>1, <2>3, <2>4, <2>5, <2>6
  <1> QED
    BY <1>3, <1>4

(* What saving does to the histories is typed.                             *)
LEMMA SaveTells ==
    ASSUME StoreTypeOK, NEW r \in ResourceType, SavePayment(r)
    PROVE  history' \in [Payments -> Seq(EventType)]
  <1> DEFINE e == [ref |-> r.ref, status |-> r.status, version |-> Version(r)]
  <1>1. history \in [Payments -> Seq(EventType)] /\ r.id \in Payments
    BY DEF StoreTypeOK, ResourceType
  <1>2. Version(r) \in Nat
    <2>1. Known(r.id) => resources[r.id].version \in Nat
      BY <1>1 DEF StoreTypeOK, Known, RowType
    <2> QED
      BY <2>1 DEF Version
  <1>3. e \in EventType
    BY <1>2 DEF EventType, ResourceType
  <1>4. \/ history' = history
        \/ history' = [history EXCEPT ![r.id] = Append(history[r.id], e)]
    BY DEF SavePayment
  <1> HIDE DEF e
  <1>5. Append(history[r.id], e) \in Seq(EventType)
    BY <1>1, <1>3
  <1> QED
    BY <1>1, <1>4, <1>5

LEMMA SavedIsAResource ==
    ASSUME StoreTypeOK, NEW r \in ResourceType
    PROVE  Saved(r) \in ResourceType
  <1>1. Stale(r) => resources[r.id] \in RowType
    BY DEF Stale, Known, StoreTypeOK, ResourceType
  <1> QED
    BY <1>1 DEF Saved, ResourceType, RowType

(* A snapshot that has been told is saved.                                 *)
LEMMA SaveKeeps ==
    ASSUME FlowInv, NEW r \in ResourceType, IsTold(r), SavePayment(r),
           UNCHANGED <<books, seen, callbacks>>,
           call' = None \/ call' = call
    PROVE  /\ Chain' /\ Numbered' /\ Queued' /\ BookedByKey'
           /\ \A d \in inbox : Known(d[1])' /\ d[2] <= resources'[d[1]].revision
  <1>1. /\ resources \in [Payments -> RowType \cup {None}]
        /\ resources' \in [Payments -> RowType \cup {None}]
        /\ \A p \in Payments \ {r.id} : resources'[p] = resources[p]
        /\ resources'[r.id] # None /\ r.revision <= resources'[r.id].revision
        /\ Known(r.id) => resources[r.id].revision <= resources'[r.id].revision
        /\ \/ resources' = resources
           \/ /\ resources'[r.id].ref = r.ref
              /\ resources'[r.id].status = r.status
              /\ resources'[r.id].revision = r.revision
    BY SaveMovesOn DEF FlowInv, FlowTypeOK, StoreTypeOK
  <1>2. ASSUME NEW s \in ResourceType, IsTold(s)'
        PROVE  IsTold(s)
    <2>1. CASE /\ Known(s.id)'
               /\ resources'[s.id].ref = s.ref
               /\ resources'[s.id].status = s.status
               /\ resources'[s.id].revision = s.revision
      <3>1. CASE s.id = r.id /\ resources' # resources
        <4>1. s = r
          BY <1>1, <2>1, <3>1 DEF ResourceType
        <4> QED
          BY <4>1
      <3>2. CASE s.id # r.id \/ resources' = resources
        <4>1. resources'[s.id] = resources[s.id]
          BY <1>1, <3>2 DEF ResourceType
        <4> QED
          BY <2>1, <4>1 DEF IsTold, Known
      <3> QED
        BY <3>1, <3>2
    <2>2. CASE ~(/\ Known(s.id)'
                 /\ resources'[s.id].ref = s.ref
                 /\ resources'[s.id].status = s.status
                 /\ resources'[s.id].revision = s.revision)
      BY <1>2, <2>2 DEF IsTold
    <2> QED
      BY <2>1, <2>2
  <1>3. Chain'
    BY <1>2, ToldKeeps
  <1>4. Numbered' /\ Queued' /\ BookedByKey'
    BY DEF FlowInv, Numbered, Queued, BookedByKey
  <1>5. ASSUME NEW d \in inbox
        PROVE  Known(d[1])' /\ d[2] <= resources'[d[1]].revision
    <2>1. /\ d \in Deliveries /\ d[1] \in Payments /\ d[2] \in Int
          /\ Known(d[1]) /\ d[2] <= resources[d[1]].revision
      BY FlowAssumption DEF FlowInv, FlowTypeOK, StoreTypeOK, Delivered
    <2>2. resources[d[1]].revision \in Int
      BY <1>1, <2>1 DEF Known, RowType
    <2>3. CASE d[1] = r.id
      <3>1. resources'[d[1]].revision \in Int
        BY <1>1, <2>1, <2>3 DEF RowType
      <3> QED
        BY <1>1, <2>1, <2>2, <2>3, <3>1 DEF Known
    <2>4. CASE d[1] # r.id
      BY <1>1, <2>1, <2>4 DEF Known
    <2> QED
      BY <2>3, <2>4
  <1> QED
    BY <1>3, <1>4, <1>5

LEMMA FinishKeeps ==
    ASSUME FlowInv, Finish
    PROVE  FlowInv'
  <1>1. /\ call # None /\ call.answer # None /\ call.answer.resource # None
        /\ call.key \in Keys /\ call.request \in RequestType
        /\ call.answer \in AnswerType
    BY CallsAreTyped DEF Finish, Answered, FlowInv, OneAwaited
  <1>2. PICK k \in Keys, request \in RequestType, r \in ResourceType :
            /\ k = call.key /\ request = call.request /\ r = call.answer.resource
            /\ Execute(k, request, r)
    BY <1>1 DEF Finish, AnswerType
  <1>3. IsTold(r)
    BY <1>1, <1>2 DEF IsTold
  <1>4. /\ call' = None
        /\ UNCHANGED <<active, connected, wire, bookVars, queueVars, inbox>>
        /\ SavePayment(r) /\ Acceptable(request, r)
        /\ idempotency' = [idempotency EXCEPT ![k] =
                              [request |-> request, answer |-> Saved(r)]]
    BY <1>2 DEF Finish, Execute
  <1>5. /\ Chain' /\ Numbered' /\ Queued' /\ BookedByKey'
        /\ \A d \in inbox : Known(d[1])' /\ d[2] <= resources'[d[1]].revision
    BY <1>3, <1>4, SaveKeeps
  <1> DEFINE entry == [request |-> request, answer |-> Saved(r)]
  <1>6. /\ entry \in EntryType /\ entry.request = request
        /\ entry.answer = Saved(r) /\ entry # None
    BY SavedIsAResource, StoreNoneAssumption DEF FlowInv, FlowTypeOK, EntryType
  <1>7. idempotency' = [idempotency EXCEPT ![k] = entry]
    BY <1>4
  <1> HIDE DEF entry
  <1>8. FlowTypeOK'
    <2>1. /\ resources' \in [Payments -> RowType \cup {None}]
          /\ history' \in [Payments -> Seq(EventType)]
      BY <1>4, SaveMovesOn, SaveTells DEF FlowInv, FlowTypeOK
    <2>2. idempotency' \in [Keys -> EntryType \cup {None}]
      BY <1>6, <1>7 DEF FlowInv, FlowTypeOK, StoreTypeOK
    <2> QED
      BY <1>4, <2>1, <2>2 DEF FlowInv, FlowTypeOK, StoreTypeOK
  <1>9. OneAwaited'
    BY <1>1, <1>4 DEF FlowInv, OneAwaited
  <1>10. Delivered'
    BY <1>4, <1>5 DEF FlowInv, Delivered
  <1>11. /\ request.op = "capture" => PaymentRank(Saved(r).status) >= 2
         /\ request.op = "refund" => Saved(r).status = "refunded"
    <2>1. CASE Saved(r) = r
      BY <1>4, <2>1 DEF Acceptable, PaymentRank
    <2>2. CASE Saved(r) # r
      <3>1. Known(r.id) /\ r.revision < resources[r.id].revision
        BY <2>2 DEF Saved, Stale
      <3>2. r.id \in Payments
        BY DEF ResourceType
      <3>3. PICK s \in ResourceType :
                /\ IsTold(s) /\ s.id = r.id
                /\ resources[r.id].status = s.status
                /\ resources[r.id].revision = s.revision
        BY <3>1, <3>2, RowsAreTold DEF FlowInv
      <3>4. PaymentRank(r.status) < PaymentRank(s.status)
        BY <1>3, <3>1, <3>3 DEF FlowInv, Chain, Agree
      <3>5. Saved(r).status = s.status
        BY <3>1, <3>3 DEF Saved, Stale
      <3>6. PaymentRank(s.status) \in 1 .. 3 /\ PaymentRank(r.status) \in 1 .. 3
        BY Ranks DEF ResourceType
      <3>7. /\ request.op = "capture" => PaymentRank(r.status) = 2
            /\ request.op = "refund" => PaymentRank(r.status) = 3
        BY <1>4 DEF Acceptable, PaymentRank
      <3> QED
        BY <3>4, <3>5, <3>6, <3>7
    <2> QED
      BY <2>1, <2>2
  <1>12. AnswersKeepTheirWord'
    <2>1. ASSUME NEW j \in Keys, idempotency'[j] # None
          PROVE  /\ idempotency'[j].request.op = "capture" =>
                        PaymentRank(idempotency'[j].answer.status) >= 2
                 /\ idempotency'[j].request.op = "refund" =>
                        idempotency'[j].answer.status = "refunded"
      <3>1. CASE j = k
        <4>1. idempotency'[j] = entry
          BY <1>7, <3>1 DEF FlowInv, FlowTypeOK, StoreTypeOK
        <4> QED
          BY <1>6, <1>11, <4>1
      <3>2. CASE j # k
        <4>1. idempotency'[j] = idempotency[j]
          BY <1>7, <3>2 DEF FlowInv, FlowTypeOK, StoreTypeOK
        <4> QED
          BY <2>1, <4>1 DEF FlowInv, AnswersKeepTheirWord
      <3> QED
        BY <3>1, <3>2
    <2> QED
      BY <2>1 DEF AnswersKeepTheirWord
  <1> QED
    BY <1>5, <1>8, <1>9, <1>10, <1>12 DEF FlowInv

LEMMA ReceiveKeeps ==
    ASSUME FlowInv, NEW x \in posts, Receive(x)
    PROVE  FlowInv'
  <1>1. PICK d \in Deliveries : d = x.delivery
    BY DEF FlowInv, FlowTypeOK
  <1>2. /\ posts' = posts \ {x}
        /\ UNCHANGED <<gateVars, wire, bookVars, callbacks>>
        /\ sending' = IF x.live THEN [sending EXCEPT ![d] = Verdict(d)] ELSE sending
        /\ callbacks[d] # None
    BY <1>1 DEF Receive, FlowInv, Delivered
  <1>3. /\ callbacks[d] \in CallbackType /\ callbacks[d].snapshot \in ResourceType
        /\ callbacks[d].snapshot.id = d[1] /\ callbacks[d].snapshot.revision = d[2]
    BY <1>2 DEF FlowInv, FlowTypeOK, CallbackType, Queued
  <1>4. PICK r \in ResourceType : r = callbacks[d].snapshot
    BY <1>3
  <1>5. IsTold(r) /\ r.id = d[1] /\ r.revision = d[2]
    BY <1>2, <1>3, <1>4 DEF IsTold
  <1>6. /\ StoreTypeOK' /\ Chain' /\ Numbered' /\ Queued' /\ BookedByKey'
        /\ UNCHANGED idempotency
        /\ inbox' \subseteq Deliveries /\ inbox \subseteq inbox'
        /\ inbox' \subseteq inbox \cup {d}
        /\ Verdict(d) = "accepted" => d \in inbox'
        /\ \A e \in inbox' : Known(e[1])' /\ e[2] <= resources'[e[1]].revision
    <2>1. CASE Verdict(d) = "accepted" /\ d \notin inbox
      <3>1. /\ SavePayment(r) /\ inbox' = inbox \cup {d} /\ UNCHANGED idempotency
        BY <1>1, <1>4, <2>1 DEF Receive, ApplyCallback
      <3>2. /\ Chain' /\ Numbered' /\ Queued' /\ BookedByKey'
            /\ \A e \in inbox : Known(e[1])' /\ e[2] <= resources'[e[1]].revision
        BY <1>2, <1>5, <3>1, SaveKeeps
      <3>3. /\ resources' \in [Payments -> RowType \cup {None}]
            /\ history' \in [Payments -> Seq(EventType)]
            /\ Known(r.id)' /\ r.revision <= resources'[r.id].revision
        BY <3>1, SaveMovesOn, SaveTells DEF FlowInv, FlowTypeOK, Known
      <3>4. StoreTypeOK'
        BY <3>1, <3>3 DEF FlowInv, FlowTypeOK, StoreTypeOK
      <3>5. inbox \subseteq Deliveries
        BY DEF FlowInv, FlowTypeOK, StoreTypeOK
      <3>6. Known(d[1])' /\ d[2] <= resources'[d[1]].revision
        BY <1>5, <3>3
      <3> QED
        BY <3>1, <3>2, <3>4, <3>5, <3>6
    <2>2. CASE ~(Verdict(d) = "accepted" /\ d \notin inbox)
      <3>1. UNCHANGED storeVars
        BY <1>1, <2>2 DEF Receive
      <3>2. \A s \in ResourceType : IsTold(s)' => IsTold(s)
        BY <1>2, <3>1 DEF IsTold, Known
      <3>3. Chain'
        BY <1>2, <3>2, ToldKeeps
      <3>4. StoreTypeOK' /\ Numbered' /\ Queued' /\ BookedByKey'
        BY <1>2, <3>1
        DEF FlowInv, FlowTypeOK, StoreTypeOK, Numbered, Queued, BookedByKey
      <3>5. inbox \subseteq Deliveries
        BY DEF FlowInv, FlowTypeOK, StoreTypeOK
      <3>6. \A e \in inbox : Known(e[1])' /\ e[2] <= resources'[e[1]].revision
        BY <3>1, <3>5 DEF FlowInv, Delivered, Known
      <3> QED
        BY <2>2, <3>1, <3>3, <3>4, <3>5, <3>6
    <2> QED
      BY <2>1, <2>2
  <1>7. /\ Verdict(d) \in {"accepted", "rejected", "failed"}
        /\ sending \in [Deliveries -> {None, "sent", "accepted", "rejected", "failed"}]
    BY DEF Verdict, FlowInv, FlowTypeOK
  <1>8. FlowTypeOK'
    <2>1. sending' \in [Deliveries -> {None, "sent", "accepted", "rejected", "failed"}]
      BY <1>2, <1>7
    <2> QED
      BY <1>2, <1>6, <2>1 DEF FlowInv, FlowTypeOK
  <1>9. OneAwaited' /\ AnswersKeepTheirWord'
    BY <1>2, <1>6 DEF FlowInv, OneAwaited, AnswersKeepTheirWord
  <1>10. Delivered'
    <2>1. ASSUME NEW e \in Deliveries
          PROVE  /\ sending'[e] # None => callbacks[e] # None
                 /\ sending'[e] = "accepted" => e \in inbox'
      <3>1. CASE e = d /\ x.live
        BY <1>2, <1>6, <1>7, <3>1
      <3>2. CASE ~(e = d /\ x.live)
        <4>1. sending'[e] = sending[e]
          BY <1>2, <1>7, <3>2
        <4> QED
          BY <1>6, <4>1 DEF FlowInv, Delivered
      <3> QED
        BY <3>1, <3>2
    <2>2. ASSUME NEW e \in Deliveries
          PROVE  /\ callbacks[e] # None /\ callbacks[e].status = "delivered" => e \in inbox'
                 /\ e \in inbox' => callbacks[e] # None
      BY <1>2, <1>6 DEF FlowInv, Delivered
    <2>3. \A y \in posts' : callbacks[y.delivery] # None
      BY <1>2 DEF FlowInv, Delivered
    <2> QED
      BY <1>2, <1>6, <2>1, <2>2, <2>3 DEF Delivered
  <1> QED
    BY <1>6, <1>8, <1>9, <1>10 DEF FlowInv

-----------------------------------------------------------------------------
(* Steps of the books                                                      *)

(* What the provider makes of a request is new, the payment as it was, or  *)
(* the payment moved on by one.                                            *)
LEMMA OutcomeShape ==
    ASSUME FlowInv, NEW request \in RequestType, NEW r \in Outcomes(request)
    PROVE  /\ r \in ResourceType
           /\ \/ /\ request.op = "create" /\ books[r.id] = None
                 /\ r.revision = 1
              \/ books[r.id] # None /\ r = books[r.id]
              \/ /\ books[r.id] # None /\ r.ref = books[r.id].ref
                 /\ r.revision = books[r.id].revision + 1
                 /\ PaymentRank(books[r.id].status) < PaymentRank(r.status)
  <1>1. CASE IsOrder(request)
    <2>1. request.ref \in References
      BY <1>1 DEF IsOrder, RequestType, Orders, FollowUps
    <2>2. Unused # {} /\ r = [id |-> CHOOSE p \in Unused : TRUE, ref |-> request.ref,
                              status |-> "authorized", revision |-> 1]
      BY <1>1 DEF Outcomes
    <2>3. PICK p \in Unused : p = CHOOSE q \in Unused : TRUE
      BY <2>2
    <2>4. r = [id |-> p, ref |-> request.ref, status |-> "authorized", revision |-> 1]
      BY <2>2, <2>3
    <2> QED
      BY <1>1, <2>1, <2>4 DEF IsOrder, Unused, ResourceType, Statuses
  <1>2. CASE ~IsOrder(request)
    <2>1. request \in FollowUps /\ IsFollowUp(request)
      BY <1>2 DEF Outcomes, IsFollowUp, RequestType, Orders
    <2>2. PICK p \in Payments : p = request.id
      BY <2>1 DEF FollowUps, IsFollowUp
    <2> DEFINE next == CASE request.op = "capture" -> "captured"
                         [] request.op = "refund" -> "refunded"
                         [] request.op = "status" -> books[p].status
               moved == IF next = books[p].status THEN books[p].revision
                                                  ELSE books[p].revision + 1
    <2>3. /\ books[p] # None
          /\ request.op = "capture" => books[p].status # "refunded"
          /\ request.op = "refund" => books[p].status # "authorized"
          /\ r = [books[p] EXCEPT !.status = next, !.revision = moved]
      BY <1>2, <2>2 DEF Outcomes
    <2>4. /\ books[p] \in ResourceType /\ books[p].id = p
          /\ books[p].revision \in Int /\ books[p].status \in Statuses
      BY <2>3 DEF FlowInv, FlowTypeOK, Numbered, ResourceType
    <2>5. request.op \in {"capture", "refund", "status"}
      BY <2>1 DEF FollowUps
    <2>6. /\ next \in Statuses
          /\ next # books[p].status => PaymentRank(books[p].status) < PaymentRank(next)
      BY <2>3, <2>4, <2>5 DEF Statuses, PaymentRank
    <2> HIDE DEF next
    <2>7. moved \in Int
      BY <2>4
    <2>8. CASE next = books[p].status
      <3>1. moved = books[p].revision
        BY <2>8
      <3> HIDE DEF moved
      <3>2. r = books[p]
        BY <2>3, <2>4, <2>8, <3>1 DEF ResourceType
      <3> QED
        BY <2>3, <2>4, <3>2
    <2>9. CASE next # books[p].status
      <3>1. moved = books[p].revision + 1
        BY <2>9
      <3> HIDE DEF moved
      <3>2. /\ r \in ResourceType /\ r.id = p /\ r.ref = books[p].ref
            /\ r.status = next /\ r.revision = moved
        BY <2>3, <2>4, <2>6, <2>7 DEF ResourceType
      <3> QED
        BY <2>3, <2>6, <2>9, <3>1, <3>2
    <2> QED
      BY <2>8, <2>9
  <1> QED
    BY <1>1, <1>2

(* The new snapshot joins the chain at its end.                            *)
LEMMA BookKeeps ==
    ASSUME FlowInv, NEW key \in AppKeys, NEW request \in RequestType,
           request.op = "create" => key \in Keys,
           NEW r, Book(key, request, r),
           UNCHANGED storeVars, UNCHANGED <<active, connected>>,
           call' \in CallType \cup {None},
           wire' \subseteq [key : Keys, request : RequestType, live : BOOLEAN],
           OneAwaited',
           \A s \in ResourceType :
              call' # None /\ call'.answer # None /\ call'.answer.resource = s
              => s = r \/ IsTold(s)
    PROVE  FlowInv'
  <1>1. /\ r \in Outcomes(request) /\ seen[key] = None
        /\ books' = [books EXCEPT ![r.id] = r]
        /\ seen' = [seen EXCEPT ![key] = [request |-> request, answer |-> r]]
        /\ UNCHANGED <<grant, sending, posts>>
    BY DEF Book
  <1>2. /\ r \in ResourceType
        /\ \/ /\ request.op = "create" /\ books[r.id] = None
              /\ r.revision = 1
           \/ books[r.id] # None /\ r = books[r.id]
           \/ /\ books[r.id] # None /\ r.ref = books[r.id].ref
              /\ r.revision = books[r.id].revision + 1
              /\ PaymentRank(books[r.id].status) < PaymentRank(r.status)
    BY <1>1, OutcomeShape
  <1>3. r.id \in Payments /\ r.status \in Statuses /\ r.revision \in Int /\ r # None
    BY <1>2, FlowNoneAssumption DEF ResourceType
  <1>4. /\ books'[r.id] = r
        /\ \A p \in Payments \ {r.id} : books'[p] = books[p]
        /\ books' \in [Payments -> ResourceType \cup {None}]
    BY <1>1, <1>2, <1>3 DEF FlowInv, FlowTypeOK
  <1>5. books[r.id] # None => /\ books[r.id] \in ResourceType /\ IsTold(books[r.id])
                              /\ books[r.id].id = r.id
                              /\ books[r.id].revision
                                    \in 0 .. PaymentRank(books[r.id].status)
                              /\ PaymentRank(books[r.id].status) \in 1 .. 3
    BY <1>3, BooksAreTold, Ranks DEF FlowInv, Numbered, ResourceType
  <1>6. r.revision \in 0 .. PaymentRank(r.status)
    <2>1. PaymentRank(r.status) \in 1 .. 3
      BY <1>3, Ranks
    <2> QED
      BY <1>2, <1>3, <1>5, <2>1
  <1>7. Numbered'
    BY <1>4, <1>6 DEF FlowInv, Numbered
  <1> DEFINE entry == [request |-> request, answer |-> r]
  <1>8. entry \in EntryType /\ entry.request = request /\ entry.answer = r
    BY <1>2 DEF EntryType
  <1>9. entry # None
    BY <1>8, StoreNoneAssumption
  <1>10. seen' = [seen EXCEPT ![key] = entry]
    BY <1>1
  <1> HIDE DEF entry
  <1>11. /\ seen'[key] = entry
         /\ \A k \in AppKeys \ {key} : seen'[k] = seen[k]
         /\ seen' \in [AppKeys -> EntryType \cup {None}]
    BY <1>8, <1>10 DEF FlowInv, FlowTypeOK
  <1>12. BookedByKey'
    <2>1. ASSUME NEW p \in Payments \ Legacy, books'[p] # None
          PROVE  \E k \in Keys : /\ seen'[k] # None /\ seen'[k].answer.id = p
                                 /\ seen'[k].request.op = "create"
      <3>1. CASE books[p] # None
        <4>1. PICK k \in Keys : /\ seen[k] # None /\ seen[k].answer.id = p
                                /\ seen[k].request.op = "create"
          BY <3>1 DEF FlowInv, BookedByKey
        <4>2. k \in AppKeys /\ seen'[k] = seen[k]
          BY <1>1, <1>11, <4>1 DEF AppKeys
        <4> QED
          BY <4>1, <4>2
      <3>2. CASE books[p] = None
        <4>1. p = r.id /\ request.op = "create"
          BY <1>2, <1>4, <2>1, <3>2
        <4> QED
          BY <1>8, <1>9, <1>11, <4>1
      <3> QED
        BY <3>1, <3>2
    <2> QED
      BY <2>1 DEF BookedByKey
  <1> DEFINE d == <<r.id, r.revision>>
             told == [snapshot |-> r, attempts |-> 0, status |-> "pending"]
  <1>13. told \in CallbackType /\ told.snapshot = r /\ told.status = "pending"
    BY <1>2 DEF CallbackType
  <1>14. told # None
    BY <1>13, FlowNoneAssumption
  <1> HIDE DEF told
  <1>15. \/ callbacks' = callbacks /\ books[r.id] # None /\ r = books[r.id]
         \/ /\ callbacks' = [callbacks EXCEPT ![d] = told]
            /\ r.revision \in 1 .. 3
            /\ callbacks[d] = None
    <2>1. callbacks' = IF books[r.id] = None \/ books[r.id].status # r.status
                       THEN [callbacks EXCEPT ![d] = told] ELSE callbacks
      BY DEF Book, Enqueue, told
    <2>2. CASE books[r.id] # None /\ r = books[r.id]
      BY <2>1, <2>2
    <2>3. CASE ~(books[r.id] # None /\ r = books[r.id])
      <3>1. callbacks' = [callbacks EXCEPT ![d] = told]
        BY <1>2, <1>3, <1>5, <2>1, <2>3
      <3>2. PaymentRank(r.status) \in 1 .. 3
        BY <1>3, Ranks
      <3>3. r.revision \in 1 .. 3
        BY <1>2, <1>3, <1>5, <1>6, <2>3, <3>2
      <3>4. ASSUME callbacks[d] # None
            PROVE  FALSE
        <4>1. d \in Deliveries /\ d[1] = r.id /\ d[2] = r.revision
          BY <1>3, <3>3, FlowAssumption
        <4> HIDE DEF d
        <4>2. PICK s \in ResourceType : s = callbacks[d].snapshot
          BY <3>4, <4>1 DEF FlowInv, FlowTypeOK, CallbackType
        <4>3. IsTold(s) /\ s.id = r.id /\ s.revision = r.revision
          BY <3>4, <4>1, <4>2 DEF IsTold, FlowInv, Queued
        <4>4. books[r.id] # None /\ s.revision \in 0 .. books[r.id].revision
          BY <4>3 DEF FlowInv, Chain
        <4> QED
          BY <1>2, <1>5, <2>3, <4>3, <4>4
      <3> QED
        BY <3>1, <3>3, <3>4
    <2> QED
      BY <2>2, <2>3
  <1>16. r.revision \in 1 .. 3 => d \in Deliveries /\ d[1] = r.id /\ d[2] = r.revision
    BY <1>3, FlowAssumption
  <1> HIDE DEF d
  <1>17. /\ callbacks' \in [Deliveries -> CallbackType \cup {None}]
         /\ \A e \in Deliveries : callbacks[e] # None => callbacks'[e] = callbacks[e]
         /\ \A e \in Deliveries : callbacks'[e] # callbacks[e] =>
               e = d /\ callbacks'[e] = told
    BY <1>13, <1>15 DEF FlowInv, FlowTypeOK
  <1>18. FlowTypeOK'
    BY <1>1, <1>4, <1>11, <1>17 DEF FlowInv, FlowTypeOK, StoreTypeOK
  <1>19. ASSUME NEW s \in ResourceType, IsTold(s)'
         PROVE  s = r \/ IsTold(s)
    <2>1. CASE \E p \in Payments : books'[p] = s
      BY <1>4, <2>1 DEF IsTold
    <2>2. CASE \E k \in AppKeys : seen'[k] # None /\ seen'[k].answer = s
      BY <1>8, <1>11, <2>2 DEF IsTold
    <2>3. CASE \E e \in Deliveries : callbacks'[e] # None /\ callbacks'[e].snapshot = s
      <3>1. PICK e \in Deliveries : callbacks'[e] # None /\ callbacks'[e].snapshot = s
        BY <2>3
      <3> QED
        BY <1>13, <1>17, <3>1 DEF IsTold
    <2>4. CASE /\ Known(s.id)'
               /\ resources'[s.id].ref = s.ref
               /\ resources'[s.id].status = s.status
               /\ resources'[s.id].revision = s.revision
      BY <2>4 DEF IsTold, Known
    <2> QED
      BY <1>19, <2>1, <2>2, <2>3, <2>4 DEF IsTold
  <1>20. ASSUME NEW s \in ResourceType, IsTold(s), s.id = r.id
         PROVE  /\ s.revision \in 0 .. r.revision
                /\ Agree(r, s) /\ Agree(s, r)
    <2>1. PICK b \in ResourceType :
              b = books[r.id] /\ books[r.id] # None /\ s.revision \in 0 .. b.revision
      BY <1>5, <1>20 DEF FlowInv, Chain
    <2>2. IsTold(b) /\ b.id = r.id /\ b.revision \in Int
      BY <1>5, <2>1 DEF ResourceType
    <2>3. Agree(s, b) /\ Agree(b, s)
      BY <1>20, <2>2 DEF FlowInv, Chain
    <2>4. CASE r = b
      BY <2>1, <2>3, <2>4
    <2>5. CASE r # b
      <3>1. /\ r.ref = b.ref /\ r.revision = b.revision + 1
            /\ PaymentRank(b.status) < PaymentRank(r.status)
        BY <1>2, <2>1, <2>5
      <3>2. /\ PaymentRank(b.status) \in 1 .. 3 /\ PaymentRank(r.status) \in 1 .. 3
            /\ PaymentRank(s.status) \in 1 .. 3
        BY <1>3, Ranks DEF ResourceType
      <3>3. s.revision < r.revision /\ s.revision \in 0 .. r.revision
        BY <2>1, <2>2, <3>1
      <3>4. PaymentRank(s.status) < PaymentRank(r.status)
        <4>1. CASE s.revision = b.revision
          BY <2>3, <3>1, <4>1 DEF Agree
        <4>2. CASE s.revision < b.revision
          BY <2>3, <3>1, <3>2, <4>2 DEF Agree
        <4> QED
          BY <2>1, <2>2, <4>1, <4>2
      <3>5. s.revision # r.revision /\ ~(r.revision < s.revision)
        BY <1>3, <3>3
      <3> QED
        BY <2>3, <3>1, <3>3, <3>4, <3>5 DEF Agree
    <2> QED
      BY <2>4, <2>5
  <1>21. Chain'
    <2>1. ASSUME NEW s \in ResourceType, IsTold(s)'
          PROVE  books'[s.id] # None /\ s.revision \in 0 .. books'[s.id].revision
      <3>1. CASE s = r
        BY <1>3, <1>4, <1>6, <3>1
      <3>2. CASE s # r /\ s.id = r.id
        BY <1>3, <1>4, <1>19, <1>20, <2>1, <3>2
      <3>3. CASE s.id # r.id
        <4>1. IsTold(s) /\ books'[s.id] = books[s.id]
          BY <1>4, <1>19, <2>1, <3>3 DEF ResourceType
        <4> QED
          BY <4>1 DEF FlowInv, Chain
      <3> QED
        BY <3>1, <3>2, <3>3
    <2>2. ASSUME NEW s \in ResourceType, IsTold(s)', NEW t \in ResourceType,
                 IsTold(t)', t.id = s.id
          PROVE  Agree(s, t)
      <3>1. Agree(r, r)
        BY <1>3 DEF Agree
      <3>2. (s = r \/ IsTold(s)) /\ (t = r \/ IsTold(t))
        BY <1>19, <2>2
      <3> QED
        BY <1>20, <2>2, <3>1, <3>2 DEF FlowInv, Chain
    <2> QED
      BY <2>1, <2>2 DEF Chain, Agree
  <1>22. Queued'
    <2>1. ASSUME NEW e \in Deliveries, callbacks'[e] # None
          PROVE  callbacks'[e].snapshot.id = e[1] /\ callbacks'[e].snapshot.revision = e[2]
      <3>1. CASE callbacks'[e] = callbacks[e]
        BY <2>1, <3>1 DEF FlowInv, Queued
      <3>2. CASE callbacks'[e] # callbacks[e]
        BY <1>13, <1>15, <1>16, <1>17, <3>2
      <3> QED
        BY <3>1, <3>2
    <2>2. ASSUME NEW p \in Payments, books'[p] # None, books'[p].revision # 0
          PROVE  /\ <<p, books'[p].revision>> \in Deliveries
                 /\ callbacks'[<<p, books'[p].revision>>] # None
                 /\ callbacks'[<<p, books'[p].revision>>].snapshot = books'[p]
      <3>1. CASE books'[p] = books[p]
        BY <1>17, <2>2, <3>1 DEF FlowInv, Queued
      <3>2. CASE books'[p] # books[p]
        <4>1. p = r.id /\ books'[p] = r /\ r # books[r.id]
          BY <1>4, <3>2
        <4>2. callbacks' = [callbacks EXCEPT ![d] = told] /\ d \in Deliveries
          BY <1>15, <1>16, <4>1
        <4>3. callbacks'[d] = told
          BY <4>2 DEF FlowInv, FlowTypeOK
        <4>4. d = <<p, books'[p].revision>>
          BY <4>1 DEF d
        <4> QED
          BY <1>13, <1>14, <4>1, <4>2, <4>3, <4>4
      <3> QED
        BY <3>1, <3>2
    <2> QED
      BY <2>1, <2>2 DEF Queued
  <1>23. Delivered'
    <2>1. ASSUME NEW e \in Deliveries
          PROVE  /\ sending[e] # None => callbacks'[e] # None
                 /\ callbacks'[e] # None /\ callbacks'[e].status = "delivered"
                        => e \in inbox
                 /\ e \in inbox => callbacks'[e] # None
      BY <1>13, <1>17 DEF FlowInv, Delivered
    <2>2. \A x \in posts : callbacks'[x.delivery] # None
      <3>1. \A x \in posts : x.delivery \in Deliveries
        BY DEF FlowInv, FlowTypeOK
      <3> QED
        BY <1>17, <3>1 DEF FlowInv, Delivered
    <2>3. \A e \in Deliveries : e \in inbox =>
              Known(e[1])' /\ e[2] <= resources'[e[1]].revision
      BY DEF FlowInv, Delivered, Known
    <2> QED
      BY <1>1, <2>1, <2>2, <2>3 DEF FlowInv, Delivered
  <1>24. AnswersKeepTheirWord'
    BY DEF FlowInv, AnswersKeepTheirWord
  <1> QED
    BY <1>7, <1>12, <1>18, <1>21, <1>22, <1>23, <1>24 DEF FlowInv

LEMMA PerformKeeps ==
    ASSUME FlowInv, NEW m \in wire, Perform(m)
    PROVE  FlowInv'
  <1>1. m.key \in Keys /\ m.key \in AppKeys /\ m.request \in RequestType
    BY DEF FlowInv, FlowTypeOK, AppKeys
  <1>2. PICK key \in AppKeys, request \in RequestType :
            key = m.key /\ request = m.request /\ key \in Keys
    BY <1>1
  <1>3. PICK r : r \in Outcomes(request) /\ Book(key, request, r) /\ Answer(m, "ok", r)
    BY <1>2 DEF Perform
  <1>4. r \in ResourceType /\ r # None
    BY <1>3, OutcomeShape, FlowNoneAssumption
  <1>5. /\ call' \in CallType \cup {None}
        /\ wire' \subseteq [key : Keys, request : RequestType, live : BOOLEAN]
        /\ OneAwaited'
        /\ \A s \in ResourceType :
              call' # None /\ call'.answer # None /\ call'.answer.resource = s
              => \/ s = r
                 \/ call # None /\ call.answer # None /\ call.answer.resource = s
    BY <1>3, <1>4, AnswerArrives
  <1>6. \A s \in ResourceType :
            call' # None /\ call'.answer # None /\ call'.answer.resource = s
            => s = r \/ IsTold(s)
    BY <1>5 DEF IsTold
  <1>7. UNCHANGED storeVars /\ UNCHANGED <<active, connected>>
    BY <1>3 DEF Answer
  <1> QED
    BY <1>2, <1>3, <1>5, <1>6, <1>7, BookKeeps

LEMMA SimulateKeeps ==
    ASSUME FlowInv, NEW c \in OperatorCalls, Simulate(c)
    PROVE  FlowInv'
  <1>1. c[1] \in AppKeys /\ c[2] \in FollowUps
    BY FlowAssumption DEF AppKeys
  <1>2. PICK key \in AppKeys, request \in RequestType :
            key = c[1] /\ request = c[2] /\ request.op # "create"
    BY <1>1 DEF RequestType, FollowUps
  <1>3. PICK r : Book(key, request, r)
    BY <1>2 DEF Simulate
  <1>4. UNCHANGED <<storeVars, gateVars, wire>>
    BY DEF Simulate
  <1>5. OneAwaited'
    BY <1>4 DEF FlowInv, OneAwaited
  <1>6. \A s \in ResourceType :
            call' # None /\ call'.answer # None /\ call'.answer.resource = s => IsTold(s)
    BY <1>4 DEF IsTold
  <1>7. /\ call' \in CallType \cup {None}
        /\ wire' \subseteq [key : Keys, request : RequestType, live : BOOLEAN]
    BY <1>4 DEF FlowInv, FlowTypeOK
  <1> QED
    BY <1>2, <1>3, <1>4, <1>5, <1>6, <1>7, BookKeeps

-----------------------------------------------------------------------------
(* The theorems                                                            *)

LEMMA FlowInvStep == FlowInv /\ [Next]_vars => FlowInv'
  <1> SUFFICES ASSUME FlowInv, [Next]_vars
               PROVE  FlowInv'
    OBVIOUS
  <1>1. CASE Platform
    BY <1>1, BeginKeeps, FinishKeeps, EndKeeps, GiveUpKeeps, SwitchesKeep
    DEF Platform, Core
  <1>2. CASE App
    BY <1>2, PerformKeeps, RepeatKeeps, SimulateKeeps, SwitchesKeep DEF App
  <1>3. CASE CallbackWorker \/ Crashes
    BY <1>3, WorkerKeeps
  <1>4. CASE Receives
    BY <1>4, ReceiveKeeps DEF Receives
  <1>5. CASE UNCHANGED vars
    <2>1. OneAwaited'
      BY <1>5 DEF vars, FlowInv, OneAwaited
    <2>2. \A r \in ResourceType :
              call' # None /\ call'.answer # None /\ call'.answer.resource = r => IsTold(r)
      BY <1>5 DEF vars, IsTold
    <2> QED
      BY <1>5, <2>1, <2>2, GateKeeps DEF vars, FlowInv, FlowTypeOK
  <1> QED
    BY <1>1, <1>2, <1>3, <1>4, <1>5 DEF Next

LEMMA FlowInvariant == Spec => []FlowInv
  BY InitHolds, FlowInvStep, PTL DEF Spec

(* Every table and message keeps its shape, on the platform and in the     *)
(* app, whatever arrives late.                                             *)
THEOREM FlowTypeCorrect == Spec => []FlowTypeOK
  <1>1. FlowInv => FlowTypeOK
    BY DEF FlowInv
  <1> QED
    BY <1>1, FlowInvariant, PTL

(* The app books one payment for one key, however often an invocation is   *)
(* repeated and however late its first request arrives.                    *)
THEOREM KeysBookOnce == Spec => []BookedOnce
  BY BookedOnceFollows, FlowInvariant, PTL

(* The platform never knows more than the books, and what it does not know *)
(* yet a callback still tells, or has failed to tell on record.            *)
THEOREM NoChangeIsLostSilently == Spec => []LagIsOnRecord
  BY LagFollows, FlowInvariant, PTL

(* A capture or refund is answered with a payment that has got that far.   *)
THEOREM AnswersAreKept == Spec => []AnswersKeepTheirWord
  <1>1. FlowInv => AnswersKeepTheirWord
    BY DEF FlowInv
  <1> QED
    BY <1>1, FlowInvariant, PTL

(* A snapshot on its way is one that a store may be given.                 *)
LEMMA ToldInBounds ==
    ASSUME FlowInv, NEW r \in ResourceType, IsTold(r)
    PROVE  r \in Snapshots
  <1>1. /\ r.id \in Payments /\ books[r.id] # None
        /\ r.revision \in 0 .. books[r.id].revision
    BY DEF FlowInv, Chain, ResourceType
  <1>2. /\ books[r.id].revision \in 0 .. PaymentRank(books[r.id].status)
        /\ PaymentRank(books[r.id].status) \in 1 .. 3
    BY <1>1, Ranks DEF FlowInv, FlowTypeOK, Numbered, ResourceType
  <1>3. r.revision \in 0 .. 3
    BY <1>1, <1>2
  <1> QED
    BY <1>3, FlowAssumption DEF Snapshots, ResourceType

(* The flow is the store with an app that behaves: whatever holds of the   *)
(* store for every app holds of the flow.                                  *)
THEOREM FlowIsAStore == Spec => IsAStore
  <1>1. Init => StoreInit
    BY DEF Init
  <1>2. FlowInv /\ [Next]_vars => [StoreNext]_storeVars
    <2> SUFFICES ASSUME FlowInv, [Next]_vars
                 PROVE  StoreNext \/ UNCHANGED storeVars
      OBVIOUS
    <2>1. ASSUME Finish
          PROVE  StoreNext
      <3>1. /\ call # None /\ call.answer # None /\ call.answer.resource # None
            /\ call.key \in Keys /\ call.request \in RequestType
            /\ call.answer \in AnswerType
        BY <2>1, CallsAreTyped DEF Finish, Answered, FlowInv, OneAwaited
      <3>2. PICK k \in Keys, request \in RequestType, r \in ResourceType :
                r = call.answer.resource /\ Execute(k, request, r)
        BY <2>1, <3>1 DEF Finish, AnswerType
      <3>3. r \in Snapshots
        BY <3>1, <3>2, ToldInBounds DEF IsTold
      <3> QED
        BY <3>2, <3>3 DEF StoreNext
    <2>2. ASSUME NEW x \in posts, Receive(x)
          PROVE  StoreNext \/ UNCHANGED storeVars
      <3>1. PICK d \in Deliveries : d = x.delivery /\ callbacks[d] # None
        BY DEF FlowInv, FlowTypeOK, Delivered
      <3>2. PICK r \in ResourceType : r = callbacks[d].snapshot
        BY <3>1 DEF FlowInv, FlowTypeOK, CallbackType
      <3>3. r \in Snapshots
        BY <3>1, <3>2, ToldInBounds DEF IsTold
      <3>4. ApplyCallback(d, r) \/ UNCHANGED storeVars
        BY <2>2, <3>1, <3>2 DEF Receive
      <3> QED
        BY <3>3, <3>4 DEF StoreNext
    <2>3. ASSUME NEW m \in wire, Perform(m) \/ Repeat(m) \/ Refuse(m)
          PROVE  UNCHANGED storeVars
      BY <2>3 DEF Perform, Repeat, Refuse, Answer
    <2>4. ASSUME CallbackWorker \/ Crashes
          PROVE  UNCHANGED storeVars
      BY <2>4 DEF CallbackWorker, Crashes, Send, Expire, TimeOut, Settle, Crash
    <2>5. ASSUME Platform \/ App
          PROVE  StoreNext \/ UNCHANGED storeVars
      BY <2>1, <2>3, <2>5
      DEF Platform, Core, Begin, Reject, Disconnect, GiveUp, Uninstall, App,
          Simulate, GrantEnds
    <2> QED
      BY <2>2, <2>4, <2>5 DEF Next, Receives, vars
  <1> QED
    BY <1>1, <1>2, FlowInvariant, PTL DEF Spec, IsAStore, StoreSpec
=============================================================================
