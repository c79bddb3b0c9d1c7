---------------------------- MODULE OutboxRelay ----------------------------
(***************************************************************************)
(* The way of an event from the transaction that wrote it to the webhook   *)
(* inbox: the outbox table of its module, the relay in the worker process, *)
(* the broker's stream and the webhook router.                             *)
(*                                                                         *)
(* Nothing but the outbox and the inbox is transactional.  A publish that  *)
(* timed out may have been stored, a worker may die with the row locked,   *)
(* and a message whose acknowledgement got lost is delivered again.        *)
(***************************************************************************)
EXTENDS Naturals

CONSTANTS
    Events,
    Oversized,    \* events the publisher refuses for good (ErrPermanent)
    Workers,      \* worker processes, each with a relay and a router
    MaxAttempts,  \* the publish budget (12 in the code)
    MaxReplays,   \* bound: operator replays of one event
    MaxCopies,    \* bound: copies of an event that the stream stores
    None

ASSUME RelayAssumption ==
    /\ Oversized \subseteq Events
    /\ MaxAttempts \in Nat \ {0} /\ MaxReplays \in Nat
    /\ MaxCopies \in Nat \ {0}

VARIABLES
    outbox,   \* <schema>.events
    old,      \* events that occurred more than 24 hours ago
    relays,   \* the row each worker has locked, and the publisher's answer
    sent,     \* publishes on their way to the broker
    stream,   \* messages the router has not acknowledged
    stored,   \* how often the stream stored each event
    recent,   \* message ids in the stream's 24 hours duplicate window
    routers,  \* the message each worker is routing
    ingested  \* events that Ingest has dealt with

broker == <<sent, stream, stored, recent>>
vars == <<outbox, old, relays, broker, routers, ingested>>

RowType == [status : {"pending", "published", "dead"}, attempts : Nat,
            due : BOOLEAN, replays : Nat]
RelayType == [event : Events, answer : {None, "ok", "failed", "invalid"}]
MessageType == [event : Events, copy : Nat]
RouterType == [message : MessageType, routed : BOOLEAN]

ASSUME NoneAssumption ==
    /\ None \notin RowType /\ None \notin RelayType /\ None \notin RouterType
    /\ None # "ok"

TypeOK ==
    /\ outbox \in [Events -> RowType \cup {None}]
    /\ old \subseteq Events
    /\ relays \in [Workers -> RelayType \cup {None}]
    /\ sent \subseteq Events
    /\ stream \subseteq MessageType
    /\ stored \in [Events -> Nat]
    /\ recent \subseteq Events
    /\ routers \in [Workers -> RouterType \cup {None}]
    /\ ingested \subseteq Events

Init ==
    /\ outbox = [e \in Events |-> None]
    /\ old = {} /\ sent = {} /\ stream = {} /\ recent = {} /\ ingested = {}
    /\ stored = [e \in Events |-> 0]
    /\ relays = [w \in Workers |-> None]
    /\ routers = [w \in Workers |-> None]

Has(e, status) == outbox[e] # None /\ outbox[e].status = status

-----------------------------------------------------------------------------
(* The outbox and its relay *)

(* The event is written with the change that it tells.                     *)
Emit(e) ==
    /\ outbox[e] = None
    /\ outbox' = [outbox EXCEPT ![e] =
            [status |-> "pending", attempts |-> 0, due |-> TRUE, replays |-> 0]]
    /\ UNCHANGED <<old, relays, broker, routers, ingested>>

(* FOR UPDATE SKIP LOCKED: a row is with one worker at a time.             *)
Take(w, e) ==
    /\ relays[w] = None
    /\ Has(e, "pending") /\ outbox[e].due
    /\ \A v \in Workers : relays[v] # None => relays[v].event # e
    /\ LET refused == e \in Oversized IN
       /\ relays' = [relays EXCEPT ![w] =
                [event |-> e, answer |-> IF refused THEN "invalid" ELSE None]]
       /\ sent' = IF refused THEN sent ELSE sent \cup {e}
    /\ UNCHANGED <<outbox, old, stream, stored, recent, routers, ingested>>

(* The broker stores a message once per duplicate window, and acknowledges *)
(* it either way to a publisher that still waits.                          *)
Store(e) ==
    /\ e \in sent
    /\ sent' = sent \ {e}
    /\ IF e \in recent
       THEN UNCHANGED <<stream, stored>>
       ELSE /\ stored' = [stored EXCEPT ![e] = @ + 1]
            /\ stream' = stream \cup {[event |-> e, copy |-> stored'[e]]}
    /\ recent' = recent \cup {e}
    /\ relays' = [w \in Workers |->
            IF relays[w] # None /\ relays[w] = [event |-> e, answer |-> None]
            THEN [relays[w] EXCEPT !.answer = "ok"] ELSE relays[w]]
    /\ UNCHANGED <<outbox, old, routers, ingested>>

(* The connection is down, the stream is full, or two seconds are over.    *)
Lose(e) ==
    /\ e \in sent
    /\ sent' = sent \ {e}
    /\ UNCHANGED <<outbox, old, relays, stream, stored, recent, routers, ingested>>

GiveUp(w) ==
    /\ relays[w] # None /\ relays[w].answer = None
    /\ relays' = [relays EXCEPT ![w].answer = "failed"]
    /\ UNCHANGED <<outbox, old, broker, routers, ingested>>

Published(row) == [row EXCEPT !.status = "published", !.attempts = @ + 1]

(* Mutant: a publish that failed is tried again without an end             *)
RetriedForEver(e, answer) ==
    [outbox[e] EXCEPT !.due = FALSE,
                      !.status = IF answer = "invalid" THEN "dead" ELSE @]

(* Twelve attempts, a day, or an invalid event end in the dead letters.    *)
Deferred(e, answer) ==
    LET attempts == outbox[e].attempts + 1
        dead == attempts >= MaxAttempts \/ e \in old \/ answer = "invalid"
    IN  [outbox[e] EXCEPT !.attempts = attempts, !.due = FALSE,
                          !.status = IF dead THEN "dead" ELSE @]

Commit(w) ==
    LET e == relays[w].event IN
    /\ relays[w] # None /\ relays[w].answer # None
    /\ outbox' = [outbox EXCEPT ![e] =
            IF relays[w].answer = "ok" THEN Published(@)
            ELSE Deferred(e, relays[w].answer)]
    /\ relays' = [relays EXCEPT ![w] = None]
    /\ UNCHANGED <<old, broker, routers, ingested>>

(* The worker dies, or its commit fails: the row is as it was.             *)
AbandonRelay(w) ==
    /\ relays[w] # None
    /\ relays' = [relays EXCEPT ![w] = None]
    /\ UNCHANGED <<outbox, old, broker, routers, ingested>>

BackoffEnds(e) ==
    /\ Has(e, "pending") /\ ~outbox[e].due
    /\ outbox' = [outbox EXCEPT ![e].due = TRUE]
    /\ UNCHANGED <<old, relays, broker, routers, ingested>>

(* An operator takes an event out of the dead letters.  It is as old as    *)
(* before, so a single failure puts an event of yesterday back.            *)
Replay(e) ==
    /\ Has(e, "dead") /\ outbox[e].replays < MaxReplays
    /\ outbox' = [outbox EXCEPT ![e] =
            [status |-> "pending", attempts |-> 0, due |-> TRUE,
             replays |-> @.replays + 1]]
    /\ UNCHANGED <<old, relays, broker, routers, ingested>>

(* A day passes.                                                           *)
Age(e) ==
    /\ outbox[e] # None /\ e \notin old
    /\ old' = old \cup {e}
    /\ UNCHANGED <<outbox, relays, broker, routers, ingested>>

(* A day after it was stored the broker forgets the message's id.          *)
WindowEnds(e) ==
    /\ e \in recent /\ e \in old /\ stored[e] < MaxCopies
    /\ recent' = recent \ {e}
    /\ UNCHANGED <<outbox, old, relays, sent, stream, stored, routers, ingested>>

-----------------------------------------------------------------------------
(* The webhook router *)

(* A message is delivered until it is acknowledged, also to two routers.   *)
Fetch(w, m) ==
    /\ routers[w] = None
    /\ m \in stream
    /\ routers' = [routers EXCEPT ![w] = [message |-> m, routed |-> FALSE]]
    /\ UNCHANGED <<outbox, old, relays, broker, ingested>>

(* What Ingest decides behind the gate belongs to WebhookDelivery: a row in *)
(* platform_webhook.inbox, or none because the installation is gone, not   *)
(* active or not subscribed.  The router is done with the event either way. *)
(* A message that does not decode would be terminated; the publisher lets  *)
(* none pass.                                                              *)
Ingest(w) ==
    /\ routers[w] # None /\ ~routers[w].routed
    /\ ingested' = ingested \cup {routers[w].message.event}
    /\ routers' = [routers EXCEPT ![w].routed = TRUE]
    /\ UNCHANGED <<outbox, old, relays, broker>>

(* Mutant: the message is acknowledged as soon as it has arrived           *)
AckOnArrival(w) ==
    /\ routers[w] # None
    /\ stream' = stream \ {routers[w].message}
    /\ IF routers[w].routed THEN routers' = [routers EXCEPT ![w] = None]
                            ELSE UNCHANGED routers
    /\ UNCHANGED <<outbox, old, relays, sent, stored, recent, ingested>>

Ack(w) ==
    /\ routers[w] # None /\ routers[w].routed
    /\ stream' = stream \ {routers[w].message}
    /\ routers' = [routers EXCEPT ![w] = None]
    /\ UNCHANGED <<outbox, old, relays, sent, stored, recent, ingested>>

(* The gate or the registry failed, the acknowledgement was not confirmed, *)
(* or the worker died: the broker will deliver the message again.          *)
AbandonRouting(w) ==
    /\ routers[w] # None
    /\ routers' = [routers EXCEPT ![w] = None]
    /\ UNCHANGED <<outbox, old, relays, broker, ingested>>

-----------------------------------------------------------------------------

(* What the worker and the broker do of themselves; the rest is their      *)
(* environment's.                                                          *)
Work ==
    \/ \E e \in Events : BackoffEnds(e) \/ Store(e)
    \/ \E w \in Workers :
          \/ \E e \in Events : Take(w, e)
          \/ GiveUp(w) \/ Commit(w)
          \/ \E m \in stream : Fetch(w, m)
          \/ Ingest(w) \/ Ack(w)

Dies == \E w \in Workers : AbandonRelay(w) \/ AbandonRouting(w)

Next ==
    \/ Work
    \/ \E e \in Events : Emit(e) \/ Lose(e) \/ WindowEnds(e)
                         \/ Replay(e) \/ Age(e)
    \/ Dies

Spec == Init /\ [][Next]_vars

(* The worker ticks every second; it may die any number of times, but some *)
(* time it stays up.  The broker owes nothing to a publisher; what it      *)
(* stored it delivers until it is acknowledged (MaxDeliver -1).  Retention *)
(* is longer than the outages considered.                                  *)
FairSpec == Spec /\ WF_vars(Work) /\ <>[][~Dies]_vars

-----------------------------------------------------------------------------
(* Properties *)

Reached(e) == e \in ingested \/ \E m \in stream : m.event = e

(* At every moment, whichever worker dies and whichever acknowledgement is *)
(* lost, an event that was written is in the outbox's care (pending or     *)
(* dead, where an operator sees it), in the stream, or has been ingested   *)
(* (Store.DeliverOne marks a row only after the broker's word, RouteBatch  *)
(* acknowledges only after Ingest has returned).                           *)
NothingIsLost == \A e \in Events : Has(e, "published") => Reached(e)

(* An event gets out of the outbox: it is ingested, or it ends in the dead *)
(* letters.  Neither a broker that is down for good nor an event that is   *)
(* never accepted keeps another one waiting.                               *)
EveryEventSettles ==
    \A e \in Events :
        Has(e, "pending") ~> e \in ingested \/ Has(e, "dead")
=============================================================================
