----------------------- MODULE WebhookDeliveryProofs -----------------------
(***************************************************************************)
(* Theorems about WebhookDelivery, for every value of its constants.       *)
(***************************************************************************)
EXTENDS WebhookDelivery, TLAPS

USE DEF installation, queue

(* A delivery exists exactly for the events that were let in, and only for *)
(* events that an installation has emitted.                                *)
DeliveriesAreRouted ==
    \A e \in Events :
        /\ e \in inbox <=> deliveries[e] # None
        /\ deliveries[e] # None => events[e] # None

(* Whoever waits for an answer holds the lock on a delivery that is still  *)
(* due: nobody settles, cancels or expires it meanwhile.                   *)
HolderIsDue ==
    gate # None => /\ workers[gate.worker] = gate.request.event
                   /\ Due(gate.request.event)

(* A live grant belongs to an installation that is in use.                 *)
GrantsAreInUse == \A i \in granted : rows[i] \in {"active", "disabling"}

(* No answer is a delivery that the receiver did not record.               *)
AnswersAreRecorded ==
    gate # None /\ gate.answer = "ok" => receipts[gate.request.event] = 1

Shape == TypeOK /\ DeliveriesAreRouted /\ HolderIsDue /\ GrantsAreInUse

Safe == Shape /\ AnswersAreRecorded /\ DeliveredOnce

LEMMA ShapeInit == Init => Shape
  BY DEF Init, Shape, TypeOK, DeliveriesAreRouted, HolderIsDue, GrantsAreInUse

-----------------------------------------------------------------------------
(* Every change of one delivery keeps the tables in shape *)

(* The row that an update writes, field by field.                          *)
Changed(e, f) ==
    /\ deliveries[e] \in DeliveryType
    /\ f \in DeliveryType
    /\ deliveries' = [deliveries EXCEPT ![e] = f]

LEMMA DueIsRow ==
    ASSUME Shape, NEW e \in Events, Status(e) # None
    PROVE  /\ deliveries[e] \in DeliveryType
           /\ deliveries[e].status = Status(e)
           /\ events[e] \in Installations
  BY NoneAssumption DEF Shape, TypeOK, DeliveriesAreRouted, Status

LEMMA OutcomeChanges ==
    ASSUME Shape, NEW e \in Events, deliveries[e] \in DeliveryType,
           NEW status \in {"pending", "delivered", "dead", "cancelled"},
           NEW attempts \in Nat,
           deliveries' = Outcome(e, status, attempts)
    PROVE  /\ Changed(e, deliveries'[e])
           /\ deliveries'[e].status = status
  <1> DEFINE new == [status |-> status, attempts |-> attempts, due |-> FALSE,
                     old |-> deliveries[e].old,
                     revision |-> deliveries[e].revision + 1]
  <1>1. new \in DeliveryType /\ new.status = status
    BY DEF DeliveryType
  <1>2. deliveries' = [deliveries EXCEPT ![e] = new]
    BY DEF Outcome
  <1> HIDE DEF new
  <1>3. deliveries'[e] = new
    BY <1>2 DEF Shape, TypeOK
  <1> QED
    BY <1>1, <1>2, <1>3 DEF Changed

LEMMA TriedChanges ==
    ASSUME Shape, NEW e \in Events, deliveries[e] \in DeliveryType,
           deliveries' = Tried(e)
    PROVE  /\ Changed(e, deliveries'[e])
           /\ deliveries'[e].status \in {"pending", "dead"}
  <1> DEFINE attempts == deliveries[e].attempts + 1
             status == IF attempts >= MaxAttempts THEN "dead" ELSE "pending"
  <1>1. attempts \in Nat /\ status \in {"pending", "dead"}
    BY DEF DeliveryType
  <1>2. deliveries' = Outcome(e, status, attempts)
    BY DEF Tried
  <1> QED
    BY <1>1, <1>2, OutcomeChanges

LEMMA RequeuedChanges ==
    ASSUME Shape, NEW e \in Events, deliveries[e] \in DeliveryType,
           deliveries' = Requeued(e)
    PROVE  Changed(e, deliveries'[e])
  <1>1. [status |-> "pending", attempts |-> 0, due |-> TRUE, old |-> FALSE,
         revision |-> deliveries[e].revision + 1] \in DeliveryType
    BY DEF DeliveryType
  <1> QED
    BY <1>1 DEF Requeued, Changed, Shape, TypeOK

LEMMA FlagChanges ==
    ASSUME Shape, NEW e \in Events, deliveries[e] \in DeliveryType,
           \/ deliveries' = [deliveries EXCEPT ![e].due = TRUE]
           \/ deliveries' = [deliveries EXCEPT ![e].old = TRUE]
    PROVE  /\ Changed(e, deliveries'[e])
           /\ deliveries'[e].status = deliveries[e].status
           /\ deliveries[e].due => deliveries'[e].due
  <1> DEFINE row == deliveries[e]
  <1>1. /\ [row EXCEPT !.due = TRUE] \in DeliveryType
        /\ [row EXCEPT !.old = TRUE] \in DeliveryType
        /\ [row EXCEPT !.due = TRUE].status = row.status
        /\ [row EXCEPT !.old = TRUE].status = row.status
        /\ [row EXCEPT !.due = TRUE].due
        /\ [row EXCEPT !.old = TRUE].due = row.due
    BY DEF DeliveryType
  <1> QED
    BY <1>1 DEF Changed, Shape, TypeOK

(* An update of a row that nobody waits for keeps the shape.               *)
LEMMA ChangeKeepsRoutes ==
    ASSUME Shape, NEW e \in Events, Changed(e, deliveries'[e]),
           UNCHANGED <<events, inbox>>
    PROVE  /\ deliveries' \in [Events -> DeliveryType \cup {None}]
           /\ DeliveriesAreRouted'
           /\ \A f \in Events \ {e} : deliveries'[f] = deliveries[f]
  BY NoneAssumption DEF Shape, TypeOK, DeliveriesAreRouted, Changed

LEMMA IdleChangeShape ==
    ASSUME Shape, NEW e \in Events, Changed(e, deliveries'[e]),
           UNCHANGED <<events, inbox, installation, requests, receipts>>,
           gate' = None, workers' \in [Workers -> Events \cup {None}],
           readings' \subseteq [event : Events, revision : Nat]
    PROVE  Shape'
  <1>1. TypeOK' /\ DeliveriesAreRouted'
    BY ChangeKeepsRoutes DEF Shape, TypeOK
  <1> QED
    BY <1>1 DEF Shape, HolderIsDue, GrantsAreInUse

-----------------------------------------------------------------------------
(* The installation's steps keep the shape *)

LEMMA QueueStays ==
    ASSUME Shape, TypeOK', UNCHANGED <<queue, workers, gate>>
    PROVE  DeliveriesAreRouted' /\ HolderIsDue'
  BY DEF Shape, DeliveriesAreRouted, HolderIsDue, Due, Status

LEMMA InstallationShape ==
    ASSUME Shape, NEW i \in Installations,
           \/ Activate(i) \/ Reconnect(i) \/ Disconnect(i) \/ GrantEnds(i)
           \/ Uninstall(i) \/ CompleteCleanup(i) \/ Replace(i)
    PROVE  Shape'
  <1>1. CASE Activate(i)
    <2>1. TypeOK' /\ GrantsAreInUse'
      BY <1>1 DEF Activate, Shape, TypeOK, GrantsAreInUse
    <2> QED
      BY <1>1, <2>1, QueueStays DEF Activate, Shape
  <1>2. CASE Reconnect(i)
    <2>1. hooks' = [hooks EXCEPT ![i] = hooks[i] + 1]
          /\ hooks' \in [Installations -> Nat]
      BY <1>2 DEF Reconnect, Shape, TypeOK
    <2>2. TypeOK'
      BY <1>2, <2>1 DEF Reconnect, Shape, TypeOK
    <2>3. GrantsAreInUse'
      BY <1>2 DEF Reconnect, Shape, TypeOK, GrantsAreInUse
    <2> QED
      BY <1>2, <2>2, <2>3, QueueStays DEF Reconnect, Shape
  <1>3. CASE Disconnect(i)
    <2>1. TypeOK' /\ GrantsAreInUse'
      BY <1>3 DEF Disconnect, Shape, TypeOK, GrantsAreInUse
    <2> QED
      BY <1>3, <2>1, QueueStays DEF Disconnect, Shape
  <1>4. CASE GrantEnds(i)
    <2>1. TypeOK' /\ GrantsAreInUse'
      BY <1>4 DEF GrantEnds, Shape, TypeOK, GrantsAreInUse
    <2> QED
      BY <1>4, <2>1, QueueStays DEF GrantEnds, Shape
  <1>5. CASE Uninstall(i)
    <2>1. TypeOK' /\ GrantsAreInUse'
      BY <1>5 DEF Uninstall, Shape, TypeOK, GrantsAreInUse
    <2> QED
      BY <1>5, <2>1, QueueStays DEF Uninstall, Shape
  <1>6. CASE CompleteCleanup(i)
    <2>1. TypeOK' /\ GrantsAreInUse'
      BY <1>6 DEF CompleteCleanup, Shape, TypeOK, GrantsAreInUse
    <2> QED
      BY <1>6, <2>1, QueueStays DEF CompleteCleanup, Shape
  <1>7. CASE Replace(i)
    <2>1. TypeOK' /\ GrantsAreInUse'
      BY <1>7 DEF Replace, Shape, TypeOK, GrantsAreInUse
    <2> QED
      BY <1>7, <2>1, QueueStays DEF Replace, Shape
  <1> QED
    BY <1>1, <1>2, <1>3, <1>4, <1>5, <1>6, <1>7

LEMMA InvokeShape ==
    ASSUME Shape, NEW e \in Events, NEW i \in Installations, Invoke(e, i)
    PROVE  Shape'
  BY NoneAssumption DEF Invoke, GateFree, Shape, TypeOK, DeliveriesAreRouted,
     HolderIsDue, GrantsAreInUse

LEMMA IngestShape ==
    ASSUME Shape, NEW e \in Events, Ingest(e)
    PROVE  Shape'
  <1> DEFINE row == [status |-> "pending", attempts |-> 0, due |-> TRUE,
                     old |-> FALSE, revision |-> 0]
  <1>0. row \in DeliveryType
    BY DEF DeliveryType
  <1>1. row # None
    BY <1>0, NoneAssumption
  <1>2. deliveries' = [deliveries EXCEPT ![e] = row]
    BY DEF Ingest, Enqueue
  <1> HIDE DEF row
  <1>3. TypeOK'
    BY <1>0, <1>2 DEF Ingest, Enqueue, Shape, TypeOK
  <1>4. DeliveriesAreRouted'
    BY <1>0, <1>1, <1>2 DEF Ingest, Enqueue, Shape, TypeOK, DeliveriesAreRouted
  <1> QED
    BY <1>3, <1>4
    DEF Ingest, GateFree, Shape, HolderIsDue, GrantsAreInUse

-----------------------------------------------------------------------------
(* The worker's steps keep the shape *)

LEMMA PickShape ==
    ASSUME Shape, NEW w \in Workers, NEW e \in Events, Pick(w, e)
    PROVE  Shape'
  <1>1. TypeOK' /\ DeliveriesAreRouted' /\ GrantsAreInUse'
    BY DEF Pick, Shape, TypeOK, DeliveriesAreRouted, GrantsAreInUse
  <1>2. HolderIsDue'
    BY NoneAssumption
    DEF Pick, Shape, TypeOK, HolderIsDue, Due, Status, GateType, RequestType
  <1> QED
    BY <1>1, <1>2 DEF Shape

LEMMA SkipShape ==
    ASSUME Shape, NEW w \in Workers, Skip(w)
    PROVE  Shape'
  <1>1. TypeOK' /\ DeliveriesAreRouted' /\ GrantsAreInUse'
    BY DEF Skip, Shape, TypeOK, DeliveriesAreRouted, GrantsAreInUse
  <1>2. gate # None => gate.worker # w
    BY DEF Skip, Picked, Shape, TypeOK, HolderIsDue, GateType
  <1>3. HolderIsDue'
    BY <1>2 DEF Skip, Shape, TypeOK, HolderIsDue, Due, Status
  <1> QED
    BY <1>1, <1>3 DEF Shape

(* What a worker under the lock has picked is a pending row.               *)
LEMMA PickedRow ==
    ASSUME Shape, NEW w \in Workers, Picked(w)
    PROVE  /\ workers[w] \in Events
           /\ deliveries[workers[w]] \in DeliveryType
           /\ deliveries[workers[w]].status = "pending"
           /\ deliveries[workers[w]].due
           /\ events[workers[w]] \in Installations
           /\ [workers EXCEPT ![w] = None]
                 \in [Workers -> Events \cup {None}]
  <1>1. workers[w] \in Events /\ Status(workers[w]) = "pending"
        /\ deliveries[workers[w]].due
    BY DEF Picked, Due, Shape, TypeOK
  <1> QED
    BY <1>1, DueIsRow, NoneAssumption DEF Shape, TypeOK

LEMMA CloseShape ==
    ASSUME Shape, NEW w \in Workers,
           Cancel(w) \/ Expire(w) \/ Unconnected(w)
    PROVE  Shape'
  <1> DEFINE e == workers[w]
  <1>1. Picked(w) /\ gate' = None /\ workers' = [workers EXCEPT ![w] = None]
        /\ UNCHANGED <<events, inbox, installation, requests, receipts,
                       readings>>
    BY DEF Cancel, Expire, Unconnected, GateFree
  <1>2. e \in Events /\ deliveries[e] \in DeliveryType
        /\ workers' \in [Workers -> Events \cup {None}]
    BY <1>1, PickedRow
  <1>3. deliveries[e].attempts \in Nat
    BY <1>2 DEF DeliveryType
  <1>4. Changed(e, deliveries'[e])
    BY <1>2, <1>3, OutcomeChanges, TriedChanges DEF Cancel, Expire, Unconnected
  <1> QED
    BY <1>1, <1>2, <1>4, IdleChangeShape DEF Shape, TypeOK

LEMMA PostShape ==
    ASSUME Shape, NEW w \in Workers, Post(w)
    PROVE  Shape'
  <1> DEFINE e == workers[w]
             request == [event |-> e, hook |-> connections[events[e]]]
             holder == [worker |-> w, request |-> request, answer |-> None]
  <1>1. Picked(w) /\ gate' = holder /\ requests' = requests \cup {request}
        /\ UNCHANGED <<installation, queue, workers, receipts, readings>>
        /\ connections[events[e]] # None
    BY DEF Post
  <1>2. e \in Events /\ connections[events[e]] \in Nat
    BY <1>1, PickedRow DEF Shape, TypeOK
  <1>3. request \in RequestType /\ request.event = e
    BY <1>2 DEF RequestType
  <1> HIDE DEF request
  <1>4. holder \in GateType /\ holder.worker = w /\ holder.request = request
    BY <1>3 DEF GateType
  <1> HIDE DEF holder
  <1>5. TypeOK'
    BY <1>1, <1>3, <1>4 DEF Shape, TypeOK
  <1>6. HolderIsDue'
    BY <1>1, <1>3, <1>4 DEF HolderIsDue, Picked, Due, Status
  <1> QED
    BY <1>1, <1>5, <1>6 DEF Shape, DeliveriesAreRouted, GrantsAreInUse

(* The delivery of a waiting holder is a pending row.                      *)
LEMMA HeldRow ==
    ASSUME Shape, gate # None
    PROVE  /\ gate \in GateType /\ gate.request.event \in Events
           /\ gate.worker \in Workers
           /\ deliveries[gate.request.event] \in DeliveryType
           /\ deliveries[gate.request.event].status = "pending"
           /\ Status(gate.request.event) = "pending"
  <1>1. gate \in GateType /\ gate.request.event \in Events
        /\ gate.worker \in Workers
    BY DEF Shape, TypeOK, GateType, RequestType
  <1>2. Status(gate.request.event) = "pending"
    BY DEF Shape, HolderIsDue, Due
  <1> QED
    BY <1>1, <1>2, DueIsRow, NoneAssumption

(* A delivery is settled as delivered upon an answer, else as tried.       *)
LEMMA SettleChanges ==
    ASSUME Shape, Settle
    PROVE  LET e == gate.request.event IN
           /\ Changed(e, deliveries'[e])
           /\ deliveries'[e].status = "delivered" => gate.answer = "ok"
           /\ deliveries'[e].status # "cancelled"
  <1> DEFINE e == gate.request.event
  <1>1. e \in Events /\ deliveries[e] \in DeliveryType
    BY HeldRow DEF Settle
  <1>2. deliveries[e].attempts + 1 \in Nat
    BY <1>1 DEF DeliveryType
  <1>3. CASE gate.answer = "ok"
    <2>1. deliveries' = Outcome(e, "delivered", deliveries[e].attempts + 1)
      BY <1>3 DEF Settle
    <2> QED
      BY <1>1, <1>2, <1>3, <2>1, OutcomeChanges
  <1>4. CASE gate.answer # "ok"
    <2>1. deliveries' = Tried(e)
      BY <1>4 DEF Settle
    <2> QED
      BY <1>1, <1>4, <2>1, TriedChanges
  <1> QED
    BY <1>3, <1>4

LEMMA SettleShape ==
    ASSUME Shape, Settle
    PROVE  Shape'
  <1> DEFINE e == gate.request.event
  <1>1. e \in Events /\ Changed(e, deliveries'[e])
    BY HeldRow, SettleChanges DEF Settle
  <1>2. workers' \in [Workers -> Events \cup {None}]
    BY HeldRow DEF Settle, Shape, TypeOK
  <1>3. gate' = None
        /\ UNCHANGED <<events, inbox, installation, requests, receipts,
                       readings>>
    BY DEF Settle
  <1> QED
    BY <1>1, <1>2, <1>3, IdleChangeShape DEF Shape, TypeOK

(* An answer, or giving up on one, changes nothing else of the holder.     *)
LEMMA AnsweredGate ==
    ASSUME NEW g \in GateType, NEW answer \in {"ok", "failed"}
    PROVE  LET h == [g EXCEPT !.answer = answer] IN
           /\ h \in GateType /\ h.worker = g.worker
           /\ h.request = g.request /\ h.answer = answer
  BY DEF GateType

LEMMA GiveUpShape ==
    ASSUME Shape, GiveUp
    PROVE  Shape'
  <1>1. gate' \in GateType /\ gate'.worker = gate.worker
        /\ gate'.request = gate.request
    BY HeldRow, AnsweredGate DEF GiveUp
  <1>2. TypeOK' /\ HolderIsDue'
    BY <1>1 DEF GiveUp, Shape, TypeOK, HolderIsDue, Due, Status
  <1> QED
    BY <1>2 DEF GiveUp, Shape, DeliveriesAreRouted, GrantsAreInUse

LEMMA CrashShape ==
    ASSUME Shape, NEW w \in Workers, Crash(w)
    PROVE  Shape'
  <1>1. TypeOK'
    BY DEF Crash, Shape, TypeOK
  <1>2. HolderIsDue'
    BY DEF Crash, Shape, TypeOK, HolderIsDue, Due, Status
  <1> QED
    BY <1>1, <1>2 DEF Crash, Shape, DeliveriesAreRouted, GrantsAreInUse

LEMMA FlagShape ==
    ASSUME Shape, NEW e \in Events, BackoffEnds(e) \/ Age(e)
    PROVE  Shape'
  <1>1. deliveries[e] \in DeliveryType
    BY DueIsRow, NoneAssumption DEF BackoffEnds, Age
  <1>2. /\ Changed(e, deliveries'[e])
        /\ deliveries'[e].status = deliveries[e].status
        /\ deliveries[e].due => deliveries'[e].due
    BY <1>1, FlagChanges DEF BackoffEnds, Age
  <1>3. UNCHANGED <<events, inbox, installation, workers, gate, requests,
                    receipts, readings>>
    BY DEF BackoffEnds, Age
  <1>4. /\ deliveries' \in [Events -> DeliveryType \cup {None}]
        /\ DeliveriesAreRouted'
        /\ \A f \in Events \ {e} : deliveries'[f] = deliveries[f]
    BY <1>2, <1>3, ChangeKeepsRoutes
  <1>5. TypeOK'
    BY <1>3, <1>4 DEF Shape, TypeOK
  <1>6. \A f \in Events : Due(f) => Due(f)'
    BY <1>1, <1>2, <1>4, NoneAssumption DEF Due, Status, Changed
  <1>7. HolderIsDue'
    BY <1>3, <1>6, HeldRow DEF Shape, HolderIsDue
  <1> QED
    BY <1>3, <1>4, <1>5, <1>7 DEF Shape, GrantsAreInUse

-----------------------------------------------------------------------------
(* The receiver's and the owner's steps keep the shape *)

LEMMA LoseShape ==
    ASSUME Shape, NEW m \in requests, Lose(m)
    PROVE  Shape'
  <1>1. TypeOK'
    BY DEF Lose, Shape, TypeOK
  <1> QED
    BY <1>1, QueueStays DEF Lose, Shape, GrantsAreInUse

LEMMA ReceiveShape ==
    ASSUME Shape, NEW m \in requests, Receive(m)
    PROVE  Shape'
  <1>1. m.event \in Events /\ receipts' \in [Events -> Nat]
        /\ requests' \subseteq RequestType
    BY DEF Receive, Recorded, Shape, TypeOK, RequestType
  <1>2. \/ gate' = gate
        \/ /\ gate # None /\ gate' \in GateType
           /\ gate'.worker = gate.worker /\ gate'.request = gate.request
    BY HeldRow, AnsweredGate DEF Receive
  <1>3. UNCHANGED <<installation, queue, workers, readings>>
    BY DEF Receive
  <1>4. TypeOK'
    BY <1>1, <1>2, <1>3 DEF Shape, TypeOK
  <1>5. HolderIsDue'
    BY <1>2, <1>3 DEF Shape, HolderIsDue, Due, Status
  <1> QED
    BY <1>3, <1>4, <1>5 DEF Shape, DeliveriesAreRouted, GrantsAreInUse

LEMMA ReplayShape ==
    ASSUME Shape, NEW e \in Events, Replay(e)
    PROVE  Shape'
  <1>1. Status(e) = "dead" /\ deliveries' = Requeued(e)
        /\ UNCHANGED <<events, inbox, installation, workers, gate, requests,
                       receipts, readings>>
    BY DEF Replay
  <1>2. Changed(e, deliveries'[e])
    BY <1>1, DueIsRow, RequeuedChanges, NoneAssumption
  <1>3. /\ deliveries' \in [Events -> DeliveryType \cup {None}]
        /\ DeliveriesAreRouted'
        /\ \A f \in Events \ {e} : deliveries'[f] = deliveries[f]
    BY <1>1, <1>2, ChangeKeepsRoutes
  <1>4. gate # None => gate.request.event \in Events \ {e}
    BY <1>1, HeldRow
  <1>5. HolderIsDue'
    BY <1>1, <1>3, <1>4 DEF Shape, HolderIsDue, Due, Status
  <1>6. TypeOK'
    BY <1>1, <1>3 DEF Shape, TypeOK
  <1> QED
    BY <1>1, <1>3, <1>5, <1>6 DEF Shape, GrantsAreInUse

LEMMA ReadShape ==
    ASSUME Shape, NEW e \in Events, Read(e)
    PROVE  Shape'
  <1>1. deliveries[e].revision \in Nat
    BY DueIsRow, NoneAssumption DEF Read, DeliveryType
  <1>2. TypeOK'
    BY <1>1 DEF Read, Shape, TypeOK
  <1> QED
    BY <1>2, QueueStays DEF Read, Shape, GrantsAreInUse

LEMMA RetryShape ==
    ASSUME Shape, NEW r \in readings, Retry(r)
    PROVE  Shape'
  <1> DEFINE e == r.event
  <1>1. e \in Events /\ Status(e) = "dead" /\ deliveries' = Requeued(e)
        /\ gate' = None /\ readings' \subseteq readings
        /\ UNCHANGED <<events, inbox, installation, workers, requests,
                       receipts>>
    BY DEF Retry, RequestReplay, GateFree, Shape, TypeOK
  <1>2. Changed(e, deliveries'[e])
    BY <1>1, DueIsRow, RequeuedChanges, NoneAssumption
  <1> QED
    BY <1>1, <1>2, IdleChangeShape DEF Shape, TypeOK

LEMMA NextShape ==
    ASSUME Shape, [Next]_vars
    PROVE  Shape'
  <1>1. CASE Work
    BY <1>1, PickShape, SkipShape, CloseShape, PostShape, SettleShape,
       GiveUpShape, FlagShape DEF Work
  <1>2. CASE \E i \in Installations :
                \/ Activate(i) \/ Reconnect(i) \/ Disconnect(i)
                \/ GrantEnds(i) \/ Uninstall(i) \/ CompleteCleanup(i)
                \/ Replace(i) \/ \E e \in Events : Invoke(e, i)
    BY <1>2, InstallationShape, InvokeShape
  <1>3. CASE \E e \in Events : Ingest(e) \/ Age(e) \/ Replay(e)
    BY <1>3, IngestShape, FlagShape, ReplayShape
  <1>4. CASE \E m \in requests : Receive(m) \/ Lose(m)
    BY <1>4, ReceiveShape, LoseShape
  <1>5. CASE Owner \/ Dies
    BY <1>5, ReadShape, RetryShape, CrashShape DEF Owner, Dies
  <1>6. CASE UNCHANGED vars
    BY <1>6 DEF vars, Shape, TypeOK, DeliveriesAreRouted, HolderIsDue,
       GrantsAreInUse, Due, Status
  <1> QED
    BY <1>1, <1>2, <1>3, <1>4, <1>5, <1>6 DEF Next

LEMMA ShapeAlways == Spec => []Shape
  BY ShapeInit, NextShape, PTL DEF Spec

(* Deliveries, candidates, the holder of the lock and the receiver's inbox *)
(* always have the shape of their tables.                                  *)
THEOREM TypeCorrect == Spec => []TypeOK
  <1>1. Shape => TypeOK
    BY DEF Shape
  <1> QED
    BY <1>1, ShapeAlways, PTL

-----------------------------------------------------------------------------
(* Deliveries and effects *)

LEMMA SafeInit == Init => Safe
  BY ShapeInit, NoneAssumption
  DEF Init, Safe, AnswersAreRecorded, DeliveredOnce, Status

(* A step that changes no status, no answer and no receipt is safe.        *)
LEMMA NothingDelivered ==
    ASSUME Safe, Shape',
           \A e \in Events : Status(e)' = "delivered" =>
                Status(e) = "delivered",
           gate' # None /\ gate'.answer = "ok" =>
                gate # None /\ gate.answer = "ok" /\ gate'.request = gate.request,
           receipts' = receipts
    PROVE  Safe'
  BY DEF Safe, AnswersAreRecorded, DeliveredOnce

LEMMA StatusOfRow ==
    ASSUME NEW e \in Events, deliveries'[e] \in DeliveryType
    PROVE  Status(e)' = deliveries'[e].status
  BY NoneAssumption DEF Status

(* Rows that are written or flagged elsewhere do not become delivered.     *)
LEMMA OtherSafe ==
    ASSUME Safe, [Next]_vars, ~Settle,
           ~\E m \in requests : Receive(m)
    PROVE  Safe'
  <1>0. Shape /\ Shape'
    BY NextShape DEF Safe
  <1>1. receipts' = receipts
    BY DEF Next, Work, Owner, Dies, vars, Activate, Reconnect, Disconnect,
       GrantEnds, Uninstall, CompleteCleanup, Replace, Invoke, Ingest, Pick,
       Skip, Cancel, Expire, Unconnected, Post, GiveUp, Crash, BackoffEnds,
       Age, Lose, Replay, Read, Retry, RequestReplay
  <1>2. ASSUME gate' # None, gate'.answer = "ok"
        PROVE  gate # None /\ gate.answer = "ok" /\ gate'.request = gate.request
    <2>1. CASE UNCHANGED gate
      BY <1>2, <2>1
    <2>2. ASSUME NEW w \in Workers, Post(w) PROVE FALSE
      BY <1>2, <2>2, NoneAssumption DEF Post
    <2>3. ASSUME GiveUp PROVE FALSE
      BY <1>0, <1>2, <2>3, HeldRow, AnsweredGate DEF GiveUp
    <2>4. ASSUME NEW w \in Workers, Crash(w) PROVE UNCHANGED gate
      BY <1>2, <2>4 DEF Crash
    <2> QED
      BY <2>1, <2>2, <2>3, <2>4
      DEF Next, Work, Owner, Dies, vars, Activate, Reconnect, Disconnect,
       GrantEnds, Uninstall, CompleteCleanup, Replace, Invoke, Ingest, Pick,
       Skip, Cancel, Expire, Unconnected, BackoffEnds, Age, Lose, Replay,
       Read, Retry, RequestReplay
  <1>3. ASSUME NEW e \in Events, Status(e)' = "delivered"
        PROVE  Status(e) = "delivered"
    <2>1. CASE UNCHANGED deliveries
      BY <1>3, <2>1 DEF Status
    <2>2. deliveries'[e] \in DeliveryType /\ deliveries'[e].status = "delivered"
      BY <1>0, <1>3, NoneAssumption DEF Shape, TypeOK, Status
    <2>3. ASSUME NEW f \in Events, Ingest(f) PROVE UNCHANGED deliveries[e]
      BY <1>0, <2>2, <2>3 DEF Ingest, Enqueue, Shape, TypeOK
    <2>4. ASSUME NEW w \in Workers, Cancel(w) \/ Expire(w) \/ Unconnected(w)
          PROVE  UNCHANGED deliveries[e]
      <3> DEFINE f == workers[w]
      <3>1. Picked(w)
        BY <2>4 DEF Cancel, Expire, Unconnected
      <3>2. f \in Events /\ deliveries[f] \in DeliveryType
            /\ deliveries[f].attempts \in Nat
        BY <1>0, <3>1, PickedRow DEF DeliveryType
      <3>3. /\ Changed(f, deliveries'[f])
            /\ deliveries'[f].status \in {"pending", "dead", "cancelled"}
        BY <1>0, <2>4, <3>2, OutcomeChanges, TriedChanges
        DEF Cancel, Expire, Unconnected
      <3> QED
        BY <1>0, <2>2, <3>2, <3>3 DEF Changed, Shape, TypeOK
    <2>5. ASSUME NEW f \in Events, BackoffEnds(f) \/ Age(f)
          PROVE  UNCHANGED deliveries[e]
      <3>1. Status(f) = "pending"
        BY <2>5 DEF BackoffEnds, Age
      <3>2. deliveries[f] \in DeliveryType /\ deliveries[f].status = "pending"
        BY <1>0, <3>1, DueIsRow, NoneAssumption
      <3>3. /\ Changed(f, deliveries'[f])
            /\ deliveries'[f].status = "pending"
        BY <1>0, <2>5, <3>2, FlagChanges DEF BackoffEnds, Age
      <3> QED
        BY <1>0, <2>2, <3>3 DEF Changed, Shape, TypeOK
    <2>6. ASSUME NEW f \in Events, deliveries' = Requeued(f)
          PROVE  UNCHANGED deliveries[e]
      BY <1>0, <2>2, <2>6 DEF Requeued, Shape, TypeOK
    <2>7. UNCHANGED deliveries[e]
      <3>1. CASE Work
        BY <3>1, <2>1, <2>4, <2>5
        DEF Work, Pick, Skip, Post, GiveUp
      <3>2. CASE Owner \/ Dies
        BY <3>2, <2>1, <2>6
        DEF Owner, Dies, Read, Retry, RequestReplay, Crash, Shape, TypeOK,
            Safe
      <3>3. CASE \E f \in Events : Ingest(f) \/ Age(f) \/ Replay(f)
        BY <3>3, <2>3, <2>5, <2>6 DEF Replay
      <3>4. CASE \E m \in requests : Receive(m) \/ Lose(m)
        BY <3>4 DEF Lose
      <3> QED
        BY <3>1, <3>2, <3>3, <3>4
        DEF Next, vars, Activate, Reconnect, Disconnect, GrantEnds, Uninstall,
            CompleteCleanup, Replace, Invoke
    <2> QED
      BY <1>3, <2>7 DEF Status
  <1> QED
    BY <1>0, <1>1, <1>2, <1>3, NothingDelivered

LEMMA SettleSafe ==
    ASSUME Safe, Settle
    PROVE  Safe'
  <1>1. Shape /\ Shape' /\ gate.request.event \in Events
    BY SettleShape, HeldRow DEF Safe, Settle
  <1>2. PICK e \in Events : e = gate.request.event
    BY <1>1
  <1>3. /\ Changed(e, deliveries'[e])
        /\ deliveries'[e].status = "delivered" => gate.answer = "ok"
    BY <1>1, <1>2, SettleChanges
  <1>4. gate' = None /\ receipts' = receipts /\ gate # None
    BY DEF Settle
  <1>5. Status(e)' = deliveries'[e].status
    BY <1>1, <1>3, StatusOfRow DEF Changed
  <1>6. \A f \in Events \ {e} : Status(f)' = Status(f)
    BY <1>1, <1>3 DEF Changed, Status, Shape, TypeOK
  <1>7. Status(e)' = "delivered" => receipts[e] = 1
    BY <1>2, <1>3, <1>4, <1>5 DEF Safe, AnswersAreRecorded
  <1>8. DeliveredOnce'
    BY <1>4, <1>6, <1>7 DEF Safe, DeliveredOnce
  <1> QED
    BY <1>1, <1>4, <1>8 DEF Safe, AnswersAreRecorded

LEMMA ReceiveSafe ==
    ASSUME Safe, NEW m \in requests, Receive(m)
    PROVE  Safe'
  <1> DEFINE i == events[m.event]
             accepted == i \in granted /\ hooks[i] = m.hook
  <1>1. Shape /\ Shape' /\ m.event \in Events
    BY ReceiveShape DEF Safe, Shape, TypeOK, RequestType
  <1>2. /\ receipts' = IF accepted THEN Recorded(m.event) ELSE receipts
        /\ UNCHANGED deliveries
        /\ gate' = IF gate # None /\ gate.request = m /\ gate.answer = None
                   THEN [gate EXCEPT !.answer =
                            IF accepted THEN "ok" ELSE "failed"]
                   ELSE gate
    BY DEF Receive
  <1> HIDE DEF accepted
  <1>3. \A e \in Events : /\ receipts'[e] <= 1
                          /\ receipts[e] = 1 => receipts'[e] = 1
    BY <1>1, <1>2 DEF Recorded, Safe, DeliveredOnce, Shape, TypeOK
  <1>4. accepted => receipts'[m.event] = 1
    BY <1>1, <1>2 DEF Recorded, Safe, DeliveredOnce, Shape, TypeOK
  <1>5. AnswersAreRecorded'
    <2> SUFFICES ASSUME gate' # None, gate'.answer = "ok"
                 PROVE  receipts'[gate'.request.event] = 1
      BY DEF AnswersAreRecorded
    <2>1. CASE gate' = gate
      BY <1>1, <1>3, <2>1, HeldRow DEF Safe, AnswersAreRecorded
    <2>2. CASE gate' # gate
      <3>1. gate # None /\ gate.request = m
            /\ gate' = [gate EXCEPT !.answer =
                            IF accepted THEN "ok" ELSE "failed"]
        BY <1>2, <2>2
      <3>2. gate'.request = m /\ accepted
        BY <1>1, <3>1, HeldRow, AnsweredGate
      <3> QED
        BY <1>4, <3>2
    <2> QED
      BY <2>1, <2>2
  <1>6. \A e \in Events : Status(e)' = Status(e)
    BY <1>2 DEF Status
  <1> QED
    BY <1>1, <1>3, <1>5, <1>6 DEF Safe, DeliveredOnce

LEMMA NextSafe ==
    ASSUME Safe, [Next]_vars
    PROVE  Safe'
  BY SettleSafe, ReceiveSafe, OtherSafe

(* A delivery that the platform shows as delivered had its effect at the   *)
(* remote app exactly once, and no event ever has two, for any number of   *)
(* workers, connections and replays (send, Server.receive).                *)
THEOREM DeliveriesTakeEffectOnce == Spec => []DeliveredOnce
  <1>1. Safe => DeliveredOnce
    BY DEF Safe
  <1> QED
    BY <1>1, SafeInit, NextSafe, PTL DEF Spec

-----------------------------------------------------------------------------
(* What no step may do *)

(* Nothing is taken in for an installation whose uninstall is complete:    *)
(* the only signatures the receiver accepts are those of live grants       *)
(* (CompleteCleanup, Server.receive).                                      *)
THEOREM UninstalledTakesNothing == Spec => NothingAfterUninstall
  <1> DEFINE InUse == \A e \in Events : receipts'[e] > receipts[e] =>
                          rows[events[e]] \in {"active", "disabling"}
  <1>1. ASSUME Shape, [Next]_vars, NEW e \in Events, receipts'[e] > receipts[e]
        PROVE  rows[events[e]] \in {"active", "disabling"}
    <2>1. CASE \E m \in requests : Receive(m)
      <3>1. PICK m \in requests : Receive(m)
        BY <2>1
      <3>2. receipts[e] \in Nat /\ receipts' # receipts
        BY <1>1 DEF Shape, TypeOK
      <3>3. events[m.event] \in granted /\ receipts' = Recorded(m.event)
        BY <3>1, <3>2 DEF Receive
      <3>4. e = m.event
        BY <1>1, <3>2, <3>3 DEF Recorded, Shape, TypeOK
      <3> QED
        BY <1>1, <3>3, <3>4 DEF Shape, GrantsAreInUse
    <2>2. CASE receipts' = receipts
      BY <1>1, <2>2 DEF Shape, TypeOK
    <2> QED
      BY <1>1, <2>1, <2>2
      DEF Next, Work, Owner, Dies, vars, Activate, Reconnect, Disconnect,
       GrantEnds, Uninstall, CompleteCleanup, Replace, Invoke, Ingest, Pick,
       Skip, Cancel, Expire, Unconnected, Post, Settle, GiveUp, Crash,
       BackoffEnds, Age, Lose, Replay, Read, Retry, RequestReplay
  <1>2. Shape /\ [Next]_vars => [InUse]_vars
    BY <1>1
  <1> QED
    BY <1>2, ShapeAlways, PTL DEF Spec, NothingAfterUninstall

(* Only a pending delivery is settled or flagged, and only a dead one is   *)
(* queued again.                                                           *)
LEMMA StepsKeepOutcomes ==
    ASSUME Shape, [Next]_vars, NEW e \in Events,
           Status(e) \in {"delivered", "cancelled", "dead"},
           deliveries'[e] # deliveries[e]
    PROVE  Status(e) = "dead" /\ deliveries'[e] = Requeued(e)[e]
  <1>1. ASSUME NEW f \in Events, Changed(f, deliveries'[f]),
               Status(f) = "pending"
        PROVE  FALSE
    BY <1>1 DEF Changed, Shape, TypeOK
  <1>2. ASSUME NEW f \in Events, Status(f) = "dead", deliveries' = Requeued(f)
        PROVE  Status(e) = "dead" /\ deliveries'[e] = Requeued(e)[e]
    BY <1>2 DEF Requeued, Shape, TypeOK
  <1>3. ASSUME NEW w \in Workers, Cancel(w) \/ Expire(w) \/ Unconnected(w)
        PROVE  FALSE
    <2> DEFINE f == workers[w]
    <2>1. Picked(w)
      BY <1>3 DEF Cancel, Expire, Unconnected
    <2>2. f \in Events /\ deliveries[f] \in DeliveryType
          /\ deliveries[f].attempts \in Nat
      BY <2>1, PickedRow DEF DeliveryType
    <2>3. Changed(f, deliveries'[f])
      BY <1>3, <2>2, OutcomeChanges, TriedChanges
      DEF Cancel, Expire, Unconnected
    <2> QED
      BY <1>1, <2>1, <2>2, <2>3 DEF Picked, Due
  <1>4. ASSUME Settle PROVE FALSE
    BY <1>1, <1>4, HeldRow, SettleChanges DEF Settle
  <1>5. ASSUME NEW f \in Events, BackoffEnds(f) \/ Age(f) PROVE FALSE
    <2>1. Status(f) = "pending"
      BY <1>5 DEF BackoffEnds, Age
    <2>2. deliveries[f] \in DeliveryType
      BY <2>1, DueIsRow, NoneAssumption
    <2> QED
      BY <1>1, <1>5, <2>1, <2>2, FlagChanges DEF BackoffEnds, Age
  <1>6. ASSUME NEW f \in Events, Ingest(f) PROVE FALSE
    <2>1. deliveries[f] = None
      BY <1>6 DEF Ingest, Enqueue, Shape, DeliveriesAreRouted
    <2> QED
      BY <1>6, <2>1, NoneAssumption DEF Ingest, Enqueue, Status, Shape, TypeOK
  <1>7. CASE Work
    BY <1>3, <1>4, <1>5, <1>7 DEF Work, Pick, Skip, Post, GiveUp
  <1>8. CASE Owner \/ Dies
    BY <1>2, <1>8
    DEF Owner, Dies, Read, Retry, RequestReplay, Crash, Shape, TypeOK
  <1>9. CASE \E f \in Events : Ingest(f) \/ Age(f) \/ Replay(f)
    BY <1>2, <1>5, <1>6, <1>9 DEF Replay
  <1>10. CASE \E m \in requests : Receive(m) \/ Lose(m)
    BY <1>10 DEF Receive, Lose
  <1> QED
    BY <1>7, <1>8, <1>9, <1>10
    DEF Next, vars, Activate, Reconnect, Disconnect, GrantEnds, Uninstall,
        CompleteCleanup, Replace, Invoke

(* Delivered and cancelled are final, and a dead delivery changes through  *)
(* a replay or a retry only (send, Replay, RequestReplay).                 *)
THEOREM OutcomesNeverChange == Spec => OutcomesAreFinal
  <1>1. ASSUME Shape, [Next]_vars
        PROVE  \A e \in Events :
                 /\ Status(e) \in {"delivered", "cancelled"} =>
                       deliveries'[e] = deliveries[e]
                 /\ Status(e) = "dead" =>
                       deliveries'[e] = deliveries[e]
                       \/ deliveries'[e] = Requeued(e)[e]
    BY <1>1, StepsKeepOutcomes
  <1> QED
    BY <1>1, ShapeAlways, PTL DEF Spec, OutcomesAreFinal

=============================================================================
