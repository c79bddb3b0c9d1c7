------------------------- MODULE OutboxRelayProofs -------------------------
(***************************************************************************)
(* Theorems about OutboxRelay, for every value of its constants.           *)
(***************************************************************************)
EXTENDS OutboxRelay, TLAPS

USE DEF broker

(* A worker holds a pending row, and no two workers hold the same one.     *)
RowsAreHeld ==
    \A w \in Workers : relays[w] # None =>
        /\ Has(relays[w].event, "pending")
        /\ \A v \in Workers \ {w} :
              relays[v] # None => relays[v].event # relays[w].event

Shape == TypeOK /\ RowsAreHeld

LEMMA ShapeInit == Init => Shape
  BY DEF Init, Shape, TypeOK, RowsAreHeld

-----------------------------------------------------------------------------
(* Each step keeps the shape *)

LEMMA EmitShape ==
    ASSUME Shape, NEW e \in Events, Emit(e)
    PROVE  Shape'
  <1>1. TypeOK'
    BY DEF Shape, TypeOK, Emit, RowType
  <1>2. RowsAreHeld'
    BY DEF Shape, TypeOK, RowsAreHeld, Emit, Has, RelayType
  <1> QED
    BY <1>1, <1>2 DEF Shape

LEMMA TakeShape ==
    ASSUME Shape, NEW w \in Workers, NEW e \in Events, Take(w, e)
    PROVE  Shape'
  <1>1. TypeOK'
    BY DEF Shape, TypeOK, Take, RelayType
  <1>2. \A v \in Workers \ {w} : relays'[v] = relays[v]
    BY DEF Shape, TypeOK, Take
  <1>3. relays'[w].event = e /\ Has(e, "pending")
    BY DEF Shape, TypeOK, Take
  <1> QED
    BY <1>1, <1>2, <1>3 DEF Shape, RowsAreHeld, Take, Has

LEMMA StoreShape ==
    ASSUME Shape, NEW e \in Events, Store(e)
    PROVE  Shape'
  <1>1. \A w \in Workers : relays[w] # None =>
            /\ relays[w] \in RelayType
            /\ [relays[w] EXCEPT !.answer = "ok"] \in RelayType
            /\ [relays[w] EXCEPT !.answer = "ok"].event = relays[w].event
    BY DEF Shape, TypeOK, RelayType
  <1>2. relays' \in [Workers -> RelayType \cup {None}]
    BY <1>1 DEF Shape, TypeOK, Store
  <1>3. stored' \in [Events -> Nat] /\ stream' \subseteq MessageType
    BY DEF Shape, TypeOK, Store, MessageType
  <1>4. TypeOK'
    BY <1>2, <1>3 DEF Shape, TypeOK, Store
  <1>5. \A w \in Workers :
            \/ relays'[w] = relays[w]
            \/ relays[w] # None /\ relays'[w].event = relays[w].event
    BY <1>1 DEF Shape, TypeOK, Store
  <1>6. RowsAreHeld'
    BY <1>5 DEF Shape, RowsAreHeld, Store, Has
  <1> QED
    BY <1>4, <1>6 DEF Shape

LEMMA GiveUpShape ==
    ASSUME Shape, NEW w \in Workers, GiveUp(w)
    PROVE  Shape'
  <1>1. /\ relays[w] \in RelayType /\ relays'[w] \in RelayType
        /\ relays'[w].event = relays[w].event
        /\ \A v \in Workers \ {w} : relays'[v] = relays[v]
        /\ relays' = [v \in Workers |-> relays'[v]]
    BY DEF Shape, TypeOK, GiveUp, RelayType
  <1>2. TypeOK'
    BY <1>1 DEF Shape, TypeOK, GiveUp, RelayType
  <1>3. \A v \in Workers : relays'[v] # None =>
            relays[v] # None /\ relays'[v].event = relays[v].event
    BY <1>1 DEF Shape, TypeOK, GiveUp
  <1> QED
    BY <1>2, <1>3 DEF Shape, RowsAreHeld, GiveUp, Has

LEMMA PublishedRow ==
    ASSUME NEW row \in RowType PROVE Published(row) \in RowType
  <1> DEFINE marked == [row EXCEPT !.status = "published"]
  <1>1. marked \in RowType /\ row.attempts + 1 \in Nat
    BY DEF RowType
  <1>2. [marked EXCEPT !.attempts = row.attempts + 1] \in RowType
    BY <1>1 DEF RowType
  <1>3. [marked EXCEPT !.attempts = row.attempts + 1] = Published(row)
    BY DEF Published, RowType
  <1> QED
    BY <1>2, <1>3

LEMMA DeferredRow ==
    ASSUME NEW e \in Events, outbox[e] \in RowType, NEW answer
    PROVE  Deferred(e, answer) \in RowType
  <1> DEFINE attempts == outbox[e].attempts + 1
             dead == attempts >= MaxAttempts \/ e \in old \/ answer = "invalid"
             status == IF dead THEN "dead" ELSE outbox[e].status
  <1>1. attempts \in Nat /\ status \in {"pending", "published", "dead"}
    BY DEF RowType
  <1>2. Deferred(e, answer) = [outbox[e] EXCEPT !.attempts = attempts,
                                                !.due = FALSE,
                                                !.status = status]
    BY DEF Deferred
  <1> HIDE DEF attempts, dead, status
  <1> DEFINE counted == [outbox[e] EXCEPT !.attempts = attempts]
             delayed == [counted EXCEPT !.due = FALSE]
  <1>3. counted \in RowType
    BY <1>1 DEF RowType
  <1>4. delayed \in RowType
    BY <1>3 DEF RowType
  <1>5. [delayed EXCEPT !.status = status] \in RowType
    BY <1>1, <1>4 DEF RowType
  <1>6. [delayed EXCEPT !.status = status] = Deferred(e, answer)
    BY <1>2 DEF RowType
  <1> QED
    BY <1>5, <1>6

LEMMA CommitShape ==
    ASSUME Shape, NEW w \in Workers, Commit(w)
    PROVE  Shape'
  <1> DEFINE e == relays[w].event
  <1>1. e \in Events /\ outbox[e] \in RowType /\ outbox[e] # None
    BY DEF Shape, TypeOK, RowsAreHeld, Commit, RelayType, Has
  <1>2. Published(outbox[e]) \in RowType
    BY <1>1, PublishedRow
  <1>3. ASSUME NEW answer PROVE Deferred(e, answer) \in RowType
    BY <1>1, DeferredRow
  <1>4. TypeOK'
    BY <1>1, <1>2, <1>3 DEF Shape, TypeOK, Commit
  <1>5. \A v \in Workers : relays'[v] # None =>
            v # w \/ relays'[v] = None
    BY DEF Shape, TypeOK, Commit
  <1>6. \A f \in Events \ {e} : outbox'[f] = outbox[f]
    BY <1>1 DEF Shape, TypeOK, Commit
  <1>7. \A v \in Workers \ {w} : relays'[v] = relays[v]
    BY DEF Shape, TypeOK, Commit
  <1>8. relays'[w] = None
    BY DEF Shape, TypeOK, Commit
  <1>9. \A v \in Workers \ {w} : relays[v] # None =>
            relays[v].event \in Events \ {e}
    BY DEF Shape, TypeOK, RowsAreHeld, RelayType, Commit
  <1>10. RowsAreHeld'
    BY <1>6, <1>7, <1>8, <1>9 DEF Shape, RowsAreHeld, Has
  <1> QED
    BY <1>4, <1>10 DEF Shape

LEMMA RowShape ==
    ASSUME Shape, NEW e \in Events,
           BackoffEnds(e) \/ Replay(e) \/ Age(e) \/ WindowEnds(e) \/ Lose(e)
    PROVE  Shape'
  <1>1. CASE BackoffEnds(e)
    <2>1. /\ outbox[e] \in RowType
          /\ [outbox[e] EXCEPT !.due = TRUE] \in RowType
          /\ outbox' = [outbox EXCEPT ![e] = [outbox[e] EXCEPT !.due = TRUE]]
      BY <1>1 DEF Shape, TypeOK, BackoffEnds, Has, RowType
    <2>2. TypeOK'
      BY <1>1, <2>1 DEF Shape, TypeOK, BackoffEnds, RowType
    <2>3. \A f \in Events : Has(f, "pending") => Has(f, "pending")'
      BY <1>1, <2>1, NoneAssumption DEF Shape, TypeOK, BackoffEnds, Has, RowType
    <2> QED
      BY <1>1, <2>2, <2>3 DEF Shape, TypeOK, RowsAreHeld, BackoffEnds, RelayType
  <1>2. CASE Replay(e)
    <2>1. outbox[e] \in RowType
      BY <1>2 DEF Shape, TypeOK, Replay, Has
    <2>2. TypeOK'
      BY <1>2, <2>1 DEF Shape, TypeOK, Replay, RowType
    <2>3. \A f \in Events : Has(f, "pending") => Has(f, "pending")'
      BY <1>2, <2>1, NoneAssumption DEF Shape, TypeOK, Replay, Has, RowType
    <2> QED
      BY <1>2, <2>2, <2>3 DEF Shape, TypeOK, RowsAreHeld, Replay, RelayType
  <1>3. CASE Age(e) \/ WindowEnds(e) \/ Lose(e)
    BY <1>3 DEF Shape, TypeOK, RowsAreHeld, Age, WindowEnds, Lose, Has
  <1> QED
    BY <1>1, <1>2, <1>3

LEMMA RouterShape ==
    ASSUME Shape, NEW w \in Workers,
           \/ \E m \in stream : Fetch(w, m)
           \/ Ingest(w) \/ Ack(w)
           \/ AbandonRelay(w) \/ AbandonRouting(w)
    PROVE  Shape'
  <1>1. CASE \E m \in stream : Fetch(w, m)
    BY <1>1 DEF Shape, TypeOK, RowsAreHeld, Fetch, RouterType, Has
  <1>2. CASE Ingest(w)
    <2>1. /\ routers[w] \in RouterType
          /\ routers' = [routers EXCEPT ![w] = [@ EXCEPT !.routed = TRUE]]
      BY <1>2 DEF Shape, TypeOK, Ingest
    <2>2. routers' \in [Workers -> RouterType \cup {None}]
      BY <2>1 DEF Shape, TypeOK, RouterType
    <2>3. routers[w].message.event \in Events
      BY <2>1 DEF RouterType, MessageType
    <2> QED
      BY <1>2, <2>2, <2>3 DEF Shape, TypeOK, RowsAreHeld, Ingest, Has
  <1>3. CASE Ack(w) \/ AbandonRelay(w) \/ AbandonRouting(w)
    BY <1>3 DEF Shape, TypeOK, RowsAreHeld, Ack, AbandonRelay, AbandonRouting,
                Has
  <1> QED
    BY <1>1, <1>2, <1>3

LEMMA NextShape == ASSUME Shape, [Next]_vars PROVE Shape'
  <1>1. CASE Next
    BY <1>1, EmitShape, TakeShape, StoreShape, GiveUpShape, CommitShape,
       RowShape, RouterShape DEF Next, Work, Dies
  <1>2. CASE UNCHANGED vars
    BY <1>2 DEF Shape, TypeOK, RowsAreHeld, Has, vars
  <1> QED
    BY <1>1, <1>2

LEMMA ShapeAlways == Spec => []Shape
  <1> QED
    BY ShapeInit, NextShape, PTL DEF Spec

(* Every table keeps its shape, whatever workers, broker and operators do. *)
THEOREM TypeCorrect == Spec => []TypeOK
  <1>1. Shape => TypeOK
    BY DEF Shape
  <1> QED
    BY <1>1, ShapeAlways, PTL

-----------------------------------------------------------------------------
(* Nothing is lost *)

(* What the broker has acknowledged, or remembers, it has stored; what a   *)
(* router acknowledges has been ingested.                                  *)
Tracked ==
    /\ \A w \in Workers :
          relays[w] # None /\ relays[w].answer = "ok" => Reached(relays[w].event)
    /\ \A e \in recent : Reached(e)
    /\ \A w \in Workers :
          routers[w] # None /\ routers[w].routed =>
              routers[w].message.event \in ingested

Safe == Shape /\ Tracked /\ NothingIsLost

LEMMA SafeInit == Init => Safe
  BY ShapeInit DEF Init, Safe, Tracked, NothingIsLost, Has

LEMMA IngestedGrows == ASSUME Safe, [Next]_vars PROVE ingested \subseteq ingested'
  BY DEF Next, Work, Dies, Emit, Take, Store, Lose, GiveUp, Commit,
         AbandonRelay, BackoffEnds, Replay, Age, WindowEnds, Fetch, Ingest,
         Ack, AbandonRouting, vars

(* An event that was within reach stays so: only a message whose event is  *)
(* has been ingested leaves the stream.                                    *)
LEMMA ReachKept ==
    ASSUME Safe, [Next]_vars, NEW e \in Events, Reached(e)
    PROVE  Reached(e)'
  <1>1. ingested \subseteq ingested'
    BY IngestedGrows
  <1>2. \A m \in stream : m \in stream' \/ m.event \in ingested
    <2>1. CASE \E w \in Workers : Ack(w)
      BY <2>1 DEF Ack, Safe, Tracked
    <2>2. CASE stream \subseteq stream'
      BY <2>2
    <2> QED
      BY <2>1, <2>2
      DEF Next, Work, Dies, Emit, Take, Store, Lose, GiveUp, Commit,
          AbandonRelay, BackoffEnds, Replay, Age, WindowEnds, Fetch, Ingest,
          AbandonRouting, vars
  <1> QED
    BY <1>1, <1>2 DEF Reached

(* What the broker stores, or remembers to have stored, is within reach.    *)
LEMMA StoreReaches ==
    ASSUME Safe, NEW e \in Events, Store(e)
    PROVE  Reached(e)'
  <1>1. CASE e \in recent
    BY <1>1 DEF Store, Safe, Tracked, Reached
  <1>2. CASE e \notin recent
    <2>1. [event |-> e, copy |-> stored'[e]] \in stream'
      BY <1>2 DEF Store
    <2> QED
      BY <2>1 DEF Reached
  <1> QED
    BY <1>1, <1>2

LEMMA AnswersAreReached ==
    ASSUME Safe, [Next]_vars, NEW w \in Workers, NEW e \in Events,
           relays'[w] # None, relays'[w].answer = "ok", relays'[w].event = e
    PROVE  Reached(e)'
  <1>1. CASE relays'[w] = relays[w]
    <2>1. Reached(e)
      BY <1>1 DEF Safe, Tracked
    <2> QED
      BY <2>1, ReachKept
  <1>2. ASSUME NEW f \in Events, Store(f), relays'[w] # relays[w]
        PROVE  Reached(e)'
    <2>1. relays[w].event = f /\ relays[w] # None /\ relays'[w].event = f
      BY <1>2 DEF Store, Safe, Shape, TypeOK
    <2> QED
      BY <1>2, <2>1, StoreReaches
  <1>3. ASSUME \/ \E f \in Events : Take(w, f)
               \/ GiveUp(w) \/ Commit(w) \/ AbandonRelay(w)
        PROVE  FALSE
    <2>1. CASE \E f \in Events : Take(w, f)
      BY <2>1, NoneAssumption DEF Safe, Shape, TypeOK, Take
    <2>2. CASE GiveUp(w)
      <3>1. relays[w] \in RelayType
        BY <2>2 DEF GiveUp, Safe, Shape, TypeOK
      <3>2. relays'[w].answer = "failed"
        BY <2>2, <3>1 DEF GiveUp, Safe, Shape, TypeOK, RelayType
      <3> QED
        BY <3>2
    <2>3. CASE Commit(w) \/ AbandonRelay(w)
      BY <2>3 DEF Safe, Shape, TypeOK, Commit, AbandonRelay
    <2> QED
      BY <1>3, <2>1, <2>2, <2>3
  <1>4. ASSUME NEW v \in Workers \ {w},
               \/ \E f \in Events : Take(v, f)
               \/ GiveUp(v) \/ Commit(v) \/ AbandonRelay(v)
        PROVE  relays'[w] = relays[w]
    BY <1>4 DEF Safe, Shape, TypeOK, Take, GiveUp, Commit, AbandonRelay
  <1>5. \/ relays' = relays
        \/ \E f \in Events : Store(f)
        \/ \E v \in Workers : \/ \E f \in Events : Take(v, f)
                               \/ GiveUp(v) \/ Commit(v) \/ AbandonRelay(v)
    BY DEF Next, Work, Dies, Emit, Lose, BackoffEnds, Replay, Age, WindowEnds,
           Fetch, Ingest, Ack, AbandonRouting, vars
  <1> QED
    BY <1>1, <1>2, <1>3, <1>4, <1>5

LEMMA MemoryIsReached ==
    ASSUME Safe, [Next]_vars, NEW e \in recent'
    PROVE  Reached(e)'
  <1>1. CASE e \in recent
    <2>1. e \in Events /\ Reached(e)
      BY <1>1 DEF Safe, Shape, TypeOK, Tracked
    <2> QED
      BY <2>1, ReachKept
  <1>2. CASE e \notin recent
    <2>1. PICK f \in Events : Store(f)
      BY <1>2
      DEF Next, Work, Dies, Emit, Take, Lose, GiveUp, Commit, AbandonRelay,
          BackoffEnds, Replay, Age, WindowEnds, Fetch, Ingest, Ack,
          AbandonRouting, vars
    <2>2. e = f
      BY <1>2, <2>1 DEF Store
    <2> QED
      BY <2>1, <2>2, StoreReaches
  <1> QED
    BY <1>1, <1>2

LEMMA RoutedIsInInbox ==
    ASSUME Safe, [Next]_vars, NEW w \in Workers,
           routers'[w] # None, routers'[w].routed
    PROVE  routers'[w].message.event \in ingested'
  <1>1. CASE routers'[w] = routers[w]
    <2>1. ingested \subseteq ingested'
      BY IngestedGrows
    <2> QED
      BY <1>1, <2>1 DEF Safe, Tracked
  <1>2. CASE Ingest(w)
    <2>1. routers[w] \in RouterType
      BY <1>2 DEF Safe, Shape, TypeOK, Ingest
    <2> QED
      BY <1>2, <2>1 DEF Safe, Shape, TypeOK, RouterType, Ingest
  <1>3. CASE Ack(w) \/ AbandonRouting(w) \/ \E m \in stream : Fetch(w, m)
    BY <1>3 DEF Safe, Shape, TypeOK, Ack, AbandonRouting, Fetch
  <1>4. \A v \in Workers \ {w} :
          (Ingest(v) \/ Ack(v) \/ AbandonRouting(v) \/ \E m \in stream : Fetch(v, m))
          => routers'[w] = routers[w]
    BY DEF Safe, Shape, TypeOK, Ingest, Ack, AbandonRouting, Fetch
  <1> QED
    BY <1>1, <1>2, <1>3, <1>4
    DEF Next, Work, Dies, Emit, Take, Store, Lose, GiveUp, Commit,
        AbandonRelay, BackoffEnds, Replay, Age, WindowEnds, vars

LEMMA RetiredIsReached ==
    ASSUME Safe, [Next]_vars, NEW e \in Events, Has(e, "published")'
    PROVE  Reached(e)'
  <1>1. CASE Has(e, "published")
    BY <1>1, ReachKept DEF Safe, NothingIsLost
  <1>2. CASE ~Has(e, "published") /\ \E w \in Workers : Commit(w)
    <2>1. PICK w \in Workers : Commit(w)
      BY <1>2
    <2> DEFINE f == relays[w].event
    <2>2. f \in Events /\ outbox[f] \in RowType /\ Has(f, "pending")
      BY <2>1 DEF Safe, Shape, TypeOK, RowsAreHeld, Commit, RelayType, Has
    <2>3. e = f
      BY <1>2, <2>1, <2>2 DEF Commit, Safe, Shape, TypeOK, Has
    <2>4. relays[w].answer = "ok"
      <3>1. SUFFICES ASSUME relays[w].answer # "ok" PROVE FALSE
        OBVIOUS
      <3>2. outbox'[f] = Deferred(f, relays[w].answer)
        BY <2>1, <2>2, <3>1 DEF Commit, Safe, Shape, TypeOK
      <3>3. Deferred(f, relays[w].answer).status \in {"pending", "dead"}
        BY <2>2 DEF Deferred, RowType, Has
      <3> QED
        BY <2>3, <3>2, <3>3 DEF Has
    <2> QED
      BY <2>1, <2>2, <2>3, <2>4, ReachKept DEF Safe, Tracked, Commit
  <1>3. \A f \in Events : BackoffEnds(f) /\ outbox'[e] # None =>
            outbox[e] # None /\ outbox'[e].status = outbox[e].status
    BY NoneAssumption DEF BackoffEnds, Safe, Shape, TypeOK, RowType, Has
  <1>4. \A f \in Events : Emit(f) \/ Replay(f) =>
            outbox'[e] = outbox[e] \/ outbox'[e].status = "pending"
    BY DEF Emit, Replay, Safe, Shape, TypeOK, RowType
  <1>5. \/ outbox' = outbox
        \/ \E w \in Workers : Commit(w)
        \/ \E f \in Events : BackoffEnds(f) \/ Emit(f) \/ Replay(f)
    BY DEF Next, Work, Dies, Take, Store, Lose, GiveUp, AbandonRelay, Age,
           WindowEnds, Fetch, Ingest, Ack, AbandonRouting, vars
  <1> QED
    BY <1>1, <1>2, <1>3, <1>4, <1>5 DEF Has

LEMMA NextSafe == ASSUME Safe, [Next]_vars PROVE Safe'
  <1>1. Shape'
    BY NextShape DEF Safe
  <1>2. \A w \in Workers : relays'[w] # None => relays'[w].event \in Events
    BY <1>1 DEF Shape, TypeOK, RelayType
  <1>3. \A w \in Workers : relays'[w] # None /\ relays'[w].answer = "ok"
            => Reached(relays[w].event)'
    <2> SUFFICES ASSUME NEW w \in Workers,
                        relays'[w] # None, relays'[w].answer = "ok",
                        NEW e \in Events, e = relays'[w].event
                 PROVE  Reached(e)'
      BY <1>2 DEF Reached
    <2> QED
      BY AnswersAreReached
  <1>4. Tracked'
    BY <1>3, MemoryIsReached, RoutedIsInInbox DEF Tracked
  <1>5. NothingIsLost'
    BY RetiredIsReached DEF NothingIsLost
  <1> QED
    BY <1>1, <1>4, <1>5 DEF Safe

(* No event that the outbox retired is lost: it is in the stream or has been *)
(* ingested, whichever worker dies and whichever acknowledgement is lost.  *)
THEOREM NoEventIsLost == Spec => []NothingIsLost
  <1>1. Safe => NothingIsLost
    BY DEF Safe
  <1> QED
    BY <1>1, SafeInit, NextSafe, PTL DEF Spec
=============================================================================
