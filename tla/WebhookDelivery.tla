-------------------------- MODULE WebhookDelivery --------------------------
(***************************************************************************)
(* Webhooks of a remote app: routed events become deliveries, workers send *)
(* them under the merchant's lifecycle lock, the app's inbox receives      *)
(* them, operator and owner bring dead ones back, and the installation may *)
(* go away or be connected anew at any time.                               *)
(*                                                                         *)
(* OutboxRelay brings an event here at least once, in no order.            *)
(***************************************************************************)
EXTENDS Naturals

CONSTANTS
    Events,         \* capability events
    Installations,  \* installation ids of a merchant's remote app
    Workers,
    MaxAttempts,    \* the delivery budget (12 in the code)
    MaxHooks,       \* bound: connections of an installation
    MaxRevision,    \* bound: nothing is replayed from this revision on
    None

ASSUME DeliveryAssumption ==
    /\ MaxAttempts \in Nat \ {0}
    /\ MaxHooks \in Nat /\ MaxRevision \in Nat

VARIABLES
    rows,         \* status of each installation
    connections,  \* the webhook secret the platform keeps of it
    hooks,        \* number of grants the remote app made; the last one's
                  \* number is its webhook secret
    granted,      \* installations whose last grant is alive
    events,       \* the installation each event is about
    inbox,        \* platform_webhook.inbox
    deliveries,   \* platform_webhook.deliveries
    workers,      \* the candidate each worker has picked
    gate,         \* the delivery that holds the lock and waits for an answer
    requests,     \* POSTs on their way to the remote app
    receipts,     \* effects in reference_remote.webhook_inbox
    readings      \* revisions an owner has seen of a dead delivery

installation == <<rows, connections, hooks, granted>>
queue == <<events, inbox, deliveries>>
vars == <<installation, queue, workers, gate, requests, receipts, readings>>

DeliveryType ==
    [status : {"pending", "delivered", "dead", "cancelled"}, attempts : Nat,
     due : BOOLEAN, old : BOOLEAN, revision : Nat]
RequestType == [event : Events, hook : Nat]
GateType == [worker : Workers, request : RequestType,
             answer : {None, "ok", "failed"}]

(* None stands for a missing row, candidate, holder or answer only.        *)
ASSUME NoneAssumption ==
    /\ None \notin Events /\ None \notin Installations
    /\ None \notin DeliveryType /\ None \notin GateType
    /\ None \notin {"ok", "failed"}
    /\ None \notin {"pending", "delivered", "dead", "cancelled"}

TypeOK ==
    /\ rows \in [Installations ->
            {"absent", "active", "disabling", "uninstalled", "replaced"}]
    /\ connections \in [Installations -> Nat \cup {None}]
    /\ hooks \in [Installations -> Nat]
    /\ granted \subseteq Installations
    /\ events \in [Events -> Installations \cup {None}]
    /\ inbox \subseteq Events
    /\ deliveries \in [Events -> DeliveryType \cup {None}]
    /\ workers \in [Workers -> Events \cup {None}]
    /\ gate \in GateType \cup {None}
    /\ requests \subseteq RequestType
    /\ receipts \in [Events -> Nat]
    /\ readings \subseteq [event : Events, revision : Nat]

Init ==
    /\ rows = [i \in Installations |-> "absent"]
    /\ connections = [i \in Installations |-> None]
    /\ hooks = [i \in Installations |-> 0]
    /\ granted = {}
    /\ events = [e \in Events |-> None]
    /\ inbox = {} /\ requests = {} /\ readings = {}
    /\ deliveries = [e \in Events |-> None]
    /\ workers = [w \in Workers |-> None]
    /\ gate = None
    /\ receipts = [e \in Events |-> 0]

GateFree == gate = None
Status(e) == IF deliveries[e] = None THEN None ELSE deliveries[e].status
Due(e) == Status(e) = "pending" /\ deliveries[e].due

-----------------------------------------------------------------------------
(* The installation, as far as deliveries depend on it *)

(* A remote app is active after it was connected.                          *)
Activate(i) ==
    /\ GateFree /\ rows[i] = "absent"
    /\ \A j \in Installations \ {i} : rows[j] \in {"absent", "replaced"}
    /\ rows' = [rows EXCEPT ![i] = "active"]
    /\ hooks' = [hooks EXCEPT ![i] = 1]
    /\ connections' = [connections EXCEPT ![i] = 1]
    /\ granted' = granted \cup {i}
    /\ UNCHANGED <<queue, workers, gate, requests, receipts, readings>>

(* A new connection, or one whose answer never came: then the platform     *)
(* keeps the secret of a grant that is dead.                               *)
Reconnect(i) ==
    /\ GateFree /\ rows[i] = "active" /\ hooks[i] < MaxHooks
    /\ hooks' = [hooks EXCEPT ![i] = @ + 1]
    /\ granted' = granted \cup {i}
    /\ \/ connections' = [connections EXCEPT ![i] = hooks'[i]]
       \/ UNCHANGED connections
    /\ UNCHANGED <<rows, queue, workers, gate, requests, receipts, readings>>

Disconnect(i) ==
    /\ GateFree /\ connections[i] # None
    /\ connections' = [connections EXCEPT ![i] = None]
    /\ UNCHANGED <<rows, hooks, granted, queue, workers, gate, requests,
                   receipts, readings>>

GrantEnds(i) ==
    /\ i \in granted
    /\ granted' = granted \ {i}
    /\ UNCHANGED <<rows, connections, hooks, queue, workers, gate, requests,
                   receipts, readings>>

Uninstall(i) ==
    /\ GateFree /\ rows[i] = "active"
    /\ rows' = [rows EXCEPT ![i] = "disabling"]
    /\ UNCHANGED <<connections, hooks, granted, queue, workers, gate,
                   requests, receipts, readings>>

(* Mutant: the cleanup does not wait for the remote app                    *)
CompleteUnrevoked(i) ==
    /\ GateFree /\ rows[i] = "disabling"
    /\ rows' = [rows EXCEPT ![i] = "uninstalled"]
    /\ connections' = [connections EXCEPT ![i] = None]
    /\ UNCHANGED <<hooks, granted, queue, workers, gate, requests, receipts,
                   readings>>

(* What RemoteConnection shows of the cleanup: no grant is left.           *)
CompleteCleanup(i) ==
    /\ GateFree /\ rows[i] = "disabling"
    /\ rows' = [rows EXCEPT ![i] = "uninstalled"]
    /\ connections' = [connections EXCEPT ![i] = None]
    /\ granted' = granted \ {i}
    /\ UNCHANGED <<hooks, queue, workers, gate, requests, receipts, readings>>

(* A new installation takes over the row, and the id is gone.              *)
Replace(i) ==
    /\ GateFree /\ rows[i] = "uninstalled"
    /\ rows' = [rows EXCEPT ![i] = "replaced"]
    /\ UNCHANGED <<connections, hooks, granted, queue, workers, gate,
                   requests, receipts, readings>>

-----------------------------------------------------------------------------
(* Events and their routing *)

Invoke(e, i) ==
    /\ GateFree /\ rows[i] = "active"
    /\ events[e] = None
    /\ events' = [events EXCEPT ![e] = i]
    /\ UNCHANGED <<installation, inbox, deliveries, workers, gate, requests,
                   receipts, readings>>

(* The inbox and the delivery are written together, once per event.        *)
Enqueue(e) ==
    /\ e \notin inbox
    /\ inbox' = inbox \cup {e}
    /\ deliveries' = [deliveries EXCEPT ![e] =
            [status |-> "pending", attempts |-> 0, due |-> TRUE,
             old |-> FALSE, revision |-> 0]]

(* An event of an installation that is not active any more is dropped.     *)
Ingest(e) ==
    /\ GateFree
    /\ events[e] # None /\ rows[events[e]] = "active"
    /\ Enqueue(e)
    /\ UNCHANGED <<installation, events, workers, gate, requests, receipts,
                   readings>>

-----------------------------------------------------------------------------
(* The delivery worker *)

(* The candidate is read without a lock.                                   *)
Pick(w, e) ==
    /\ workers[w] = None
    /\ Due(e)
    /\ workers' = [workers EXCEPT ![w] = e]
    /\ UNCHANGED <<installation, queue, gate, requests, receipts, readings>>

(* Every outcome advances the revision.                                    *)
Outcome(e, status, attempts) ==
    [deliveries EXCEPT ![e] =
        [status |-> status, attempts |-> attempts, due |-> FALSE,
         old |-> @.old, revision |-> @.revision + 1]]

(* Mutant: the delivery is not looked at again under the lock              *)
StillPicked(w) == workers[w] # None

Picked(w) == workers[w] # None /\ Due(workers[w])

Skip(w) ==
    /\ workers[w] # None /\ ~Picked(w)
    /\ workers' = [workers EXCEPT ![w] = None]
    /\ UNCHANGED <<installation, queue, gate, requests, receipts, readings>>

(* An installation that is gone or not active cancels the delivery.        *)
Cancel(w) ==
    LET e == workers[w] IN
    /\ GateFree /\ Picked(w)
    /\ rows[events[e]] # "active"
    /\ deliveries' = Outcome(e, "cancelled", deliveries[e].attempts)
    /\ workers' = [workers EXCEPT ![w] = None]
    /\ UNCHANGED <<installation, events, inbox, gate, requests, receipts,
                   readings>>

(* One that is a day old is dead without a further attempt.                *)
Expire(w) ==
    LET e == workers[w] IN
    /\ GateFree /\ Picked(w)
    /\ rows[events[e]] = "active"
    /\ deliveries[e].old
    /\ deliveries' = Outcome(e, "dead", deliveries[e].attempts)
    /\ workers' = [workers EXCEPT ![w] = None]
    /\ UNCHANGED <<installation, events, inbox, gate, requests, receipts,
                   readings>>

(* Mutant: a failed attempt is not counted                                 *)
TriedForEver(e) == [deliveries EXCEPT ![e].due = FALSE]

(* An attempt that failed counts; the last one leaves the delivery dead.   *)
Tried(e) ==
    LET attempts == deliveries[e].attempts + 1 IN
    Outcome(e, IF attempts >= MaxAttempts THEN "dead" ELSE "pending", attempts)

(* Without a connection the delivery waits for its next attempt.           *)
Unconnected(w) ==
    LET e == workers[w] IN
    /\ GateFree /\ Picked(w)
    /\ rows[events[e]] = "active" /\ ~deliveries[e].old
    /\ connections[events[e]] = None
    /\ deliveries' = Tried(e)
    /\ workers' = [workers EXCEPT ![w] = None]
    /\ UNCHANGED <<installation, events, inbox, gate, requests, receipts,
                   readings>>

Post(w) ==
    LET e == workers[w]
        request == [event |-> e, hook |-> connections[events[e]]]
    IN
    /\ GateFree /\ Picked(w)
    /\ rows[events[e]] = "active" /\ ~deliveries[e].old
    /\ connections[events[e]] # None
    /\ gate' = [worker |-> w, request |-> request, answer |-> None]
    /\ requests' = requests \cup {request}
    /\ UNCHANGED <<installation, queue, workers, receipts, readings>>

(* Mutant: a timeout is taken for a delivery                               *)
SettleBlindly ==
    /\ gate # None /\ gate.answer # None
    /\ LET e == gate.request.event IN
       deliveries' = Outcome(e, "delivered", deliveries[e].attempts + 1)
    /\ workers' = [workers EXCEPT ![gate.worker] = None]
    /\ gate' = None
    /\ UNCHANGED <<installation, events, inbox, requests, receipts, readings>>

Settle ==
    /\ gate # None /\ gate.answer # None
    /\ LET e == gate.request.event IN
       deliveries' = IF gate.answer = "ok"
                     THEN Outcome(e, "delivered", deliveries[e].attempts + 1)
                     ELSE Tried(e)
    /\ workers' = [workers EXCEPT ![gate.worker] = None]
    /\ gate' = None
    /\ UNCHANGED <<installation, events, inbox, requests, receipts, readings>>

(* The deadline passes; the request may still arrive.                      *)
GiveUp ==
    /\ gate # None /\ gate.answer = None
    /\ gate' = [gate EXCEPT !.answer = "failed"]
    /\ UNCHANGED <<installation, queue, workers, requests, receipts, readings>>

(* A worker dies with its delivery, the registry fails to verify the       *)
(* release, or the commit fails: nothing was recorded.                     *)
Crash(w) ==
    /\ workers[w] # None
    /\ workers' = [workers EXCEPT ![w] = None]
    /\ gate' = IF gate # None /\ gate.worker = w THEN None ELSE gate
    /\ UNCHANGED <<installation, queue, requests, receipts, readings>>

BackoffEnds(e) ==
    /\ Status(e) = "pending" /\ ~deliveries[e].due
    /\ deliveries' = [deliveries EXCEPT ![e].due = TRUE]
    /\ UNCHANGED <<installation, events, inbox, workers, gate, requests,
                   receipts, readings>>

Age(e) ==
    /\ Status(e) = "pending" /\ ~deliveries[e].old
    /\ deliveries' = [deliveries EXCEPT ![e].old = TRUE]
    /\ UNCHANGED <<installation, events, inbox, workers, gate, requests,
                   receipts, readings>>

-----------------------------------------------------------------------------
(* The receiver *)

Lose(m) ==
    /\ m \in requests
    /\ requests' = requests \ {m}
    /\ UNCHANGED <<installation, queue, workers, gate, receipts, readings>>

(* Mutant: the receiver tells deliveries apart by their attempt            *)
RecordedAlways(e) == [receipts EXCEPT ![e] = @ + 1]

(* Event and delivery are known by their ids, and count once.              *)
Recorded(e) == [receipts EXCEPT ![e] = IF @ = 0 THEN 1 ELSE @]

(* The signature is checked with the secret of the grant that is alive.    *)
Receive(m) ==
    LET i == events[m.event]
        accepted == i \in granted /\ hooks[i] = m.hook
    IN
    /\ m \in requests
    /\ requests' = requests \ {m}
    /\ receipts' = IF accepted THEN Recorded(m.event) ELSE receipts
    /\ gate' = IF gate # None /\ gate.request = m /\ gate.answer = None
               THEN [gate EXCEPT !.answer = IF accepted THEN "ok" ELSE "failed"]
               ELSE gate
    /\ UNCHANGED <<installation, queue, workers, readings>>

-----------------------------------------------------------------------------
(* Recovery *)

(* Mutant: a status that the table does not know                           *)
Queued(e) ==
    [deliveries EXCEPT ![e] =
        [status |-> "queued", attempts |-> 0, due |-> TRUE, old |-> FALSE,
         revision |-> @.revision + 1]]

(* Body, event and delivery id stay; the budget starts again.              *)
Requeued(e) ==
    [deliveries EXCEPT ![e] =
        [status |-> "pending", attempts |-> 0, due |-> TRUE, old |-> FALSE,
         revision |-> @.revision + 1]]

(* Only an active installation's deliveries are worth a retry.             *)
Active(e) == rows[events[e]] = "active"

Replay(e) ==
    /\ Status(e) = "dead" /\ deliveries[e].revision < MaxRevision
    /\ deliveries' = Requeued(e)
    /\ UNCHANGED <<installation, events, inbox, workers, gate, requests,
                   receipts, readings>>

(* The owner sees a dead delivery and its revision.                        *)
Read(e) ==
    /\ Status(e) = "dead" /\ deliveries[e].revision < MaxRevision
    /\ readings' = readings \cup
            {[event |-> e, revision |-> deliveries[e].revision]}
    /\ UNCHANGED <<installation, queue, workers, gate, requests, receipts>>

(* What was read may be out of date when the retry arrives.  A repeated    *)
(* request is answered from its receipt and changes nothing.               *)
RequestReplay(r) ==
    /\ Status(r.event) = "dead" /\ deliveries[r.event].revision = r.revision
    /\ deliveries' = Requeued(r.event)
    /\ UNCHANGED <<installation, events, inbox, workers, gate, requests,
                   receipts>>

Retry(r) ==
    /\ GateFree /\ r \in readings
    /\ Active(r.event)
    /\ RequestReplay(r)
    /\ readings' = readings \ {r}

-----------------------------------------------------------------------------

(* What the workers do of themselves                                       *)
Work ==
    \/ \E w \in Workers :
          \/ \E e \in Events : Pick(w, e)
          \/ Skip(w) \/ Cancel(w) \/ Expire(w) \/ Unconnected(w) \/ Post(w)
    \/ Settle \/ GiveUp
    \/ \E e \in Events : BackoffEnds(e)

Dies == \E w \in Workers : Crash(w)

Owner ==
    \/ \E e \in Events : Read(e)
    \/ \E r \in readings : Retry(r)

Next ==
    \/ Work
    \/ \E i \in Installations :
          \/ Activate(i) \/ Reconnect(i) \/ Disconnect(i) \/ GrantEnds(i)
          \/ Uninstall(i) \/ CompleteCleanup(i) \/ Replace(i)
          \/ \E e \in Events : Invoke(e, i)
    \/ \E e \in Events : Ingest(e) \/ Age(e) \/ Replay(e)
    \/ \E m \in requests : Receive(m) \/ Lose(m)
    \/ Owner
    \/ Dies

Spec == Init /\ [][Next]_vars

(* Workers tick for ever and some time stay up.  The remote app need not   *)
(* answer: its clients' deadlines end every wait.                          *)
FairSpec == Spec /\ WF_vars(Work) /\ <>[][~Dies]_vars

-----------------------------------------------------------------------------
(* Properties *)

(* A delivery that the platform shows as delivered had its effect at the   *)
(* remote app, and no event ever has two, whichever answers were lost,     *)
(* workers died or replays were asked for (send, Server.receive).          *)
DeliveredOnce ==
    \A e \in Events :
        /\ Status(e) = "delivered" => receipts[e] = 1
        /\ receipts[e] <= 1

(* The remote app takes nothing in for an installation whose uninstall is  *)
(* complete, also not a request that was under way before it: the cleanup  *)
(* ends the grants that sign webhooks first.                               *)
NothingAfterUninstall ==
    [][\A e \in Events : receipts'[e] > receipts[e] =>
            rows[events[e]] \in {"active", "disabling"}]_vars

(* Delivered and cancelled are final and dead deliveries come back through *)
(* a recovery only, though candidates are picked without a lock and both   *)
(* operator and owner may act on what they saw earlier.                    *)
OutcomesAreFinal ==
    [][\A e \in Events :
        /\ Status(e) \in {"delivered", "cancelled"} =>
              deliveries'[e] = deliveries[e]
        /\ Status(e) = "dead" =>
              deliveries'[e] = deliveries[e]
              \/ deliveries'[e] = Requeued(e)[e]]_vars

(* Every delivery settles: delivered, cancelled or dead, when nothing is   *)
(* ever connected again and when the remote app never answers.             *)
EveryDeliverySettles ==
    \A e \in Events :
        Status(e) = "pending" ~>
            Status(e) \in {"delivered", "cancelled", "dead"}
=============================================================================
