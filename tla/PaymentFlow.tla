---------------------------- MODULE PaymentFlow ----------------------------
(***************************************************************************)
(* A payment between the platform and the reference app: invocations,      *)
(* whose requests may outlive them, the app's own books, and the callbacks *)
(* by which the app tells what changed.                                    *)
(*                                                                         *)
(* An invocation holds the tenant's gate while it waits for the app; the   *)
(* app holds a lock of its own while it changes its books, and the lock of *)
(* a callback's row, never both, while it waits for the platform.          *)
(***************************************************************************)
EXTENDS PaymentStore, FiniteSets

CONSTANTS
    Calls,          \* the invocations callers try: <<key, request>>
    OperatorCalls,  \* what the operator of the app simulates
    MaxAttempts,    \* the attempts of a callback (12 in the code)
    Workers,        \* how many processes send callbacks
    MaxLate         \* bound: messages on their way that nobody waits for

ASSUME FlowAssumption ==
    /\ Calls \subseteq Keys \X RequestType
    /\ \A c \in OperatorCalls : c[1] \notin Keys /\ c[2] \in FollowUps /\ c[2].id # None
    /\ Deliveries = Payments \X (1 .. 3)
    /\ MaxAttempts \in Nat \ {0} /\ Workers \in Nat \ {0} /\ MaxLate \in Nat
    /\ 0 .. 3 \subseteq Revisions

VARIABLES
    active,      \* the installation is active
    connected,   \* the platform's connection is connected
    call,        \* the invocation that holds the gate
    wire,        \* requests on their way to the app; live: still awaited
    grant,       \* the app's grant is valid
    books,       \* reference_remote.resources
    seen,        \* reference_remote.idempotency
    callbacks,   \* reference_remote.callbacks
    sending,     \* callbacks whose row a worker has locked, and the answer
    posts        \* callbacks on their way to the platform; live: awaited

gateVars == <<active, connected, call>>
bookVars == <<grant, books, seen>>
queueVars == <<callbacks, sending, posts>>
vars == <<storeVars, gateVars, wire, bookVars, queueVars>>

AppKeys == Keys \cup {c[1] : c \in OperatorCalls}
AnswerType == [code : {"ok", "refused", "unauthenticated"},
               resource : ResourceType \cup {None}]
CallType == [key : Keys, request : RequestType, answer : AnswerType \cup {None}]
CallbackType == [snapshot : ResourceType, attempts : Nat,
                 status : {"pending", "delivered", "dead", "cancelled"}]

(* None is no row of any table, no message's answer and no stage of a      *)
(* callback.                                                               *)
ASSUME FlowNoneAssumption ==
    /\ None \notin ResourceType /\ None \notin AnswerType
    /\ None \notin CallType /\ None \notin CallbackType
    /\ None \notin {"sent", "accepted", "rejected", "failed"}

FlowTypeOK ==
    /\ StoreTypeOK
    /\ active \in BOOLEAN /\ connected \in BOOLEAN /\ grant \in BOOLEAN
    /\ call \in CallType \cup {None}
    /\ wire \subseteq [key : Keys, request : RequestType, live : BOOLEAN]
    /\ books \in [Payments -> ResourceType \cup {None}]
    /\ seen \in [AppKeys -> EntryType \cup {None}]
    /\ callbacks \in [Deliveries -> CallbackType \cup {None}]
    /\ sending \in [Deliveries -> {None, "sent", "accepted", "rejected", "failed"}]
    /\ posts \subseteq [delivery : Deliveries, live : BOOLEAN]

(* A payment from before there were revisions is as old in the books.      *)
Init ==
    /\ StoreInit
    /\ active = TRUE /\ connected = TRUE /\ grant = TRUE
    /\ call = None /\ wire = {} /\ posts = {}
    /\ books = [p \in Payments |->
            IF Known(p) THEN [id |-> p, ref |-> resources[p].ref,
                              status |-> resources[p].status, revision |-> 0]
                        ELSE None]
    /\ seen = [k \in AppKeys |-> None]
    /\ callbacks = [d \in Deliveries |-> None]
    /\ sending = [d \in Deliveries |-> None]

GateFree == call = None

LateMessages == Cardinality({m \in wire : ~m.live}) + Cardinality({x \in posts : ~x.live})

(* Whoever waited for a message has gone: the message is lost, or it is    *)
(* still on its way and will be taken although nobody waits.               *)
Abandoned(messages, message) ==
    {messages \ message} \cup
    IF LateMessages < MaxLate
    THEN {(messages \ message) \cup {[m EXCEPT !.live = FALSE] : m \in message}}
    ELSE {}

Awaited(d) == {x \in posts : x.delivery = d /\ x.live}

-----------------------------------------------------------------------------
(* The platform's side of an invocation *)

(* A call reaches the installation that is active at the time, and holds   *)
(* the workspace's lock from here to its end.                              *)
Routed == GateFree /\ active

Begin(k, request) ==
    /\ Routed /\ connected
    /\ idempotency[k] = None
    /\ request.id # None => Known(request.id)
    /\ call' = [key |-> k, request |-> request, answer |-> None]
    /\ wire' = wire \cup {[key |-> k, request |-> request, live |-> TRUE]}
    /\ UNCHANGED <<storeVars, active, connected, bookVars, queueVars>>

Answered(code) ==
    /\ call # None /\ call.answer # None
    /\ call.answer.code = code

Finish ==
    /\ Answered("ok")
    /\ Execute(call.key, call.request, call.answer.resource)
    /\ call' = None
    /\ UNCHANGED <<active, connected, wire, bookVars, queueVars>>

(* Nothing is stored of an answer that the client does not accept, or that *)
(* the stored payment contradicts.                                         *)
Reject ==
    /\ \/ Answered("refused")
       \/ /\ Answered("ok")
          /\ \/ ~Acceptable(call.request, call.answer.resource)
             \/ Conflicts(call.answer.resource)
    /\ call' = None
    /\ UNCHANGED <<storeVars, active, connected, wire, bookVars, queueVars>>

Disconnect ==
    /\ Answered("unauthenticated")
    /\ connected' = FALSE /\ call' = None
    /\ UNCHANGED <<storeVars, active, wire, bookVars, queueVars>>

(* The request or its commit fails or times out, or the server dies.       *)
GiveUp ==
    /\ call # None
    /\ call' = None
    /\ wire' \in Abandoned(wire, {m \in wire : m.live})
    /\ UNCHANGED <<storeVars, active, connected, bookVars, queueVars>>

Uninstall ==
    /\ GateFree /\ active
    /\ active' = FALSE
    /\ UNCHANGED <<storeVars, connected, call, wire, bookVars, queueVars>>

-----------------------------------------------------------------------------
(* The app's books *)

Unused == {p \in Payments : books[p] = None}

(* An order names no payment, a follow-up names one: the simulator refuses *)
(* what the platform lets through of the rest.                             *)
IsOrder(request) == request.op = "create" /\ request.id = None
IsFollowUp(request) == request.op # "create" /\ request.id # None

(* What the simulated provider makes of a request.  A new payment has an   *)
(* id that was never used; which one makes no difference, and there are as *)
(* many as Payments has (bound).                                           *)
Outcomes(request) ==
    IF IsOrder(request)
    THEN IF Unused = {} THEN {}
         ELSE {[id |-> CHOOSE p \in Unused : TRUE, ref |-> request.ref,
                status |-> "authorized", revision |-> 1]}
    ELSE LET current == books[request.id]
             next == CASE request.op = "capture" -> "captured"
                       [] request.op = "refund" -> "refunded"
                       [] request.op = "status" -> current.status
         IN  IF /\ IsFollowUp(request) /\ current # None
                /\ request.op = "capture" => current.status # "refunded"
                /\ request.op = "refund" => current.status # "authorized"
             THEN {[current EXCEPT !.status = next,
                       !.revision = IF next = current.status THEN @ ELSE @ + 1]}
             ELSE {}

(* Mutant: only new payments are told                                      *)
EnqueueNew(r) ==
    callbacks' = IF books[r.id] = None
                 THEN [callbacks EXCEPT ![<<r.id, r.revision>>] =
                         [snapshot |-> r, attempts |-> 0, status |-> "pending"]]
                 ELSE callbacks

(* A callback for every change of status.                                  *)
Enqueue(r) ==
    callbacks' = IF books[r.id] = None \/ books[r.id].status # r.status
                 THEN [callbacks EXCEPT ![<<r.id, r.revision>>] =
                         [snapshot |-> r, attempts |-> 0, status |-> "pending"]]
                 ELSE callbacks

(* Resource, callback and entry are one transaction under the grant lock.  *)
Book(key, request, r) ==
    /\ grant
    /\ seen[key] = None
    /\ r \in Outcomes(request)
    /\ books' = [books EXCEPT ![r.id] = r]
    /\ Enqueue(r)
    /\ seen' = [seen EXCEPT ![key] = [request |-> request, answer |-> r]]
    /\ UNCHANGED <<grant, sending, posts>>

Answer(m, code, r) ==
    /\ wire' = wire \ {m}
    /\ call' = IF m.live
               THEN [call EXCEPT !.answer = [code |-> code, resource |-> r]]
               ELSE call
    /\ UNCHANGED <<storeVars, active, connected>>

(* Mutant: a repeated key is performed again                               *)
PerformAgain(m) ==
    \E r \in Outcomes(m.request) :
        /\ grant
        /\ books' = [books EXCEPT ![r.id] = r]
        /\ Enqueue(r)
        /\ seen' = [seen EXCEPT ![m.key] = [request |-> m.request, answer |-> r]]
        /\ UNCHANGED <<grant, sending, posts>>
        /\ Answer(m, "ok", r)

Perform(m) ==
    \E r \in Outcomes(m.request) : Book(m.key, m.request, r) /\ Answer(m, "ok", r)

Repeat(m) ==
    /\ grant /\ seen[m.key] # None
    /\ IF seen[m.key].request = m.request
       THEN Answer(m, "ok", seen[m.key].answer)
       ELSE Answer(m, "refused", None)
    /\ UNCHANGED <<bookVars, queueVars>>

Refuse(m) ==
    /\ \/ ~grant /\ Answer(m, "unauthenticated", None)
       \/ /\ grant /\ seen[m.key] = None
          /\ ~IsOrder(m.request) /\ Outcomes(m.request) = {}
          /\ Answer(m, "refused", None)
    /\ UNCHANGED <<bookVars, queueVars>>

(* The operator of the app captures or refunds without the platform.       *)
Simulate(c) ==
    /\ \E r \in Outcomes(c[2]) : Book(c[1], c[2], r)
    /\ UNCHANGED <<storeVars, gateVars, wire>>

(* The grant expires, or the platform's cleanup has it revoked.            *)
GrantEnds ==
    /\ grant
    /\ grant' = FALSE
    /\ UNCHANGED <<storeVars, gateVars, wire, books, seen, queueVars>>

-----------------------------------------------------------------------------
(* The app's callbacks *)

Pending(d) == callbacks[d] # None /\ callbacks[d].status = "pending"

Send(d) ==
    /\ Pending(d) /\ sending[d] = None
    /\ Cardinality({e \in Deliveries : sending[e] # None}) < Workers
    /\ IF grant
       THEN /\ sending' = [sending EXCEPT ![d] = "sent"]
            /\ posts' = posts \cup {[delivery |-> d, live |-> TRUE]}
            /\ UNCHANGED callbacks
       ELSE /\ callbacks' = [callbacks EXCEPT ![d].status = "cancelled"]
            /\ UNCHANGED <<sending, posts>>
    /\ UNCHANGED <<storeVars, gateVars, wire, bookVars>>

(* A day after it was written a callback is not sent any more.             *)
Expire(d) ==
    /\ Pending(d) /\ sending[d] = None /\ grant
    /\ callbacks' = [callbacks EXCEPT ![d].status = "dead"]
    /\ UNCHANGED <<storeVars, gateVars, wire, bookVars, sending, posts>>

(* Behind the gate: an installation that is not active or connected, and a *)
(* contradiction, are refusals for good; a payment that is not known yet   *)
(* is one to be repeated.                                                  *)
Verdict(d) ==
    LET r == callbacks[d].snapshot IN
    IF ~active \/ ~connected THEN "rejected"
    ELSE IF d \in inbox THEN "accepted"
    ELSE IF ~Known(r.id) THEN "failed"
    ELSE IF Conflicts(r) THEN "rejected" ELSE "accepted"

Receive(x) ==
    LET d == x.delivery IN
    /\ GateFree
    /\ posts' = posts \ {x}
    /\ IF Verdict(d) = "accepted" /\ d \notin inbox
       THEN ApplyCallback(d, callbacks[d].snapshot)
       ELSE UNCHANGED storeVars
    /\ sending' = IF x.live THEN [sending EXCEPT ![d] = Verdict(d)] ELSE sending
    /\ UNCHANGED <<gateVars, wire, bookVars, callbacks>>

(* The answer is lost or late; the platform may still process the post.    *)
TimeOut(d) ==
    /\ sending[d] = "sent"
    /\ sending' = [sending EXCEPT ![d] = "failed"]
    /\ posts' \in Abandoned(posts, Awaited(d))
    /\ UNCHANGED <<storeVars, gateVars, wire, bookVars, callbacks>>

(* Mutant: a callback whose attempts are used up starts again              *)
SettledRestarted(d) ==
    LET attempts == callbacks[d].attempts + 1 IN
    [callbacks[d] EXCEPT !.attempts = IF attempts >= MaxAttempts THEN 0 ELSE attempts,
        !.status = CASE sending[d] = "accepted" -> "delivered"
                     [] sending[d] = "rejected" -> "dead"
                     [] OTHER -> "pending"]

Settled(d) ==
    LET attempts == callbacks[d].attempts + 1 IN
    [callbacks[d] EXCEPT !.attempts = attempts,
        !.status = CASE sending[d] = "accepted" -> "delivered"
                     [] sending[d] = "rejected" -> "dead"
                     [] OTHER -> IF attempts >= MaxAttempts THEN "dead" ELSE "pending"]

Settle(d) ==
    /\ sending[d] \notin {None, "sent"}
    /\ callbacks' = [callbacks EXCEPT ![d] = Settled(d)]
    /\ sending' = [sending EXCEPT ![d] = None]
    /\ UNCHANGED <<storeVars, gateVars, wire, bookVars, posts>>

(* The app dies, or its commit fails: the row is as it was.                *)
Crash(d) ==
    /\ sending[d] # None
    /\ sending' = [sending EXCEPT ![d] = None]
    /\ posts' \in Abandoned(posts, Awaited(d))
    /\ UNCHANGED <<storeVars, gateVars, wire, bookVars, callbacks>>

-----------------------------------------------------------------------------

Core == \E c \in Calls : Begin(c[1], c[2])

Platform ==
    \/ Core
    \/ Finish \/ Reject \/ Disconnect \/ GiveUp \/ Uninstall

App ==
    \/ \E m \in wire : Perform(m) \/ Repeat(m) \/ Refuse(m)
    \/ \E c \in OperatorCalls : Simulate(c)
    \/ GrantEnds

CallbackWorker == \E d \in Deliveries : Send(d) \/ Expire(d) \/ TimeOut(d) \/ Settle(d)

Crashes == \E d \in Deliveries : Crash(d)

Receives == \E x \in posts : Receive(x)

Next == Platform \/ App \/ CallbackWorker \/ Crashes \/ Receives

Spec == Init /\ [][Next]_vars

(* The callback worker ticks every second and its client times out; the    *)
(* app may die any number of times, but some time it stays up.             *)
FairSpec == Spec /\ WF_vars(CallbackWorker) /\ <>[][~Crashes]_vars

-----------------------------------------------------------------------------
(* Properties *)

(* However often an invocation is repeated after a lost answer, and however *)
(* late its first request arrives, the app books one payment for one key    *)
(* (Client.Execute derives the app's key from the caller's, Server.execute  *)
(* looks it up under the lock).                                             *)
BookedOnce ==
    \A p, q \in Payments \ Legacy :
        books[p] # None /\ books[q] # None /\ p # q
        => \E j, k \in Keys : /\ j # k /\ seen[j] # None /\ seen[k] # None
                              /\ seen[j].answer.id = p /\ seen[k].answer.id = q
                              /\ seen[j].request.op = "create"
                              /\ seen[k].request.op = "create"

(* The platform's payment agrees with the app's books, unless a callback   *)
(* that tells the books' last status is pending, or has been given up in a *)
(* way that is on record (dead or cancelled): no change of the app's is    *)
(* lost silently, whatever the order of invocations and callbacks.  And    *)
(* the platform never knows more than the books.                           *)
LagIsOnRecord ==
    \A p \in Payments : Known(p) =>
        /\ books[p] # None /\ books[p].ref = resources[p].ref
        /\ resources[p].revision <= books[p].revision
        /\ resources[p].status # books[p].status =>
              \E d \in Deliveries :
                  /\ callbacks[d] # None /\ callbacks[d].status # "delivered"
                  /\ callbacks[d].snapshot = books[p]

(* Who was answered a capture or a refund was told a payment that has got  *)
(* that far, also when the app's answer was an old one and the platform    *)
(* put its own payment in its place (savePayment, "stale").                *)
AnswersKeepTheirWord ==
    \A k \in Keys : idempotency[k] # None =>
        LET entry == idempotency[k] IN
        /\ entry.request.op = "capture" => PaymentRank(entry.answer.status) >= 2
        /\ entry.request.op = "refund" => entry.answer.status = "refunded"

(* Every callback is delivered, cancelled or dead in the end: its attempts *)
(* are limited, and no invocation and no callback waits for the other      *)
(* (Server.DeliverOne).                                                    *)
EveryCallbackSettles == \A d \in Deliveries : Pending(d) ~> ~Pending(d)

(* The platform's side of the flow is the store with an app that behaves.  *)
IsAStore == StoreSpec
=============================================================================
