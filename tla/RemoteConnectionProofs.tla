---------------------- MODULE RemoteConnectionProofs ----------------------
(***************************************************************************)
(* Theorems about RemoteConnection, for every value of its constants.      *)
(***************************************************************************)
EXTENDS RemoteConnection, TLAPS

USE DEF lifecycle, platform, remote

(* A credential that the remote app gave to installation i, now or before. *)
Granted(table, secret, i) ==
    /\ secret \in Credential
    /\ table[secret.grant] # None
    /\ table[secret.grant].ins = i
    /\ secret.rotation <= table[secret.grant].rotation

(* Codes belong to states, and callbacks and requests to codes and grants. *)
RowsRefer ==
    /\ \A c \in Codes : codes[c] # None => states[codes[c].state] # None
    /\ \A c \in callbacks : codes[c] # None
    /\ \A i \in Installations : connections[i].status = "connected" =>
          Granted(grants, connections[i].secret, i)

CallsRefer ==
    \A k \in Calls : calls[k] # None =>
        /\ calls[k].kind = "exchange" => codes[calls[k].code] # None
        /\ calls[k].kind \in {"refresh", "bearer"} =>
              \E i \in Installations : Granted(grants, calls[k].secret, i)

(* A connection is revoked in a cleanup, and stays so.                     *)
RevokedIsGone ==
    \A i \in Installations :
        /\ connections[i].status = "revoked" =>
              rows[i] \in {"disabling", "uninstalled"}
        /\ rows[i] = "uninstalled" => connections[i].status = "revoked"

(* Who holds the lock works on an installation that is live, or cleans it  *)
(* up; nobody changes that status while the lock is held.                  *)
HolderIsEntitled ==
    gate # None =>
        \/ /\ gate.op = "cleanup" /\ gate.asked \in {None, "revoke"}
           /\ rows[gate.ins] = "disabling"
           /\ connections[gate.ins].status = "revoked"
           /\ gate.worker \in Workers
           /\ workers[gate.worker] # None
           /\ workers[gate.worker].step = "revoking"
        \/ /\ gate.op # "cleanup"
           /\ gate.asked \in {"exchange", "refresh", "bearer"}
           /\ rows[gate.ins] \in Live

(* The request a holder waits for is its own.                              *)
HolderWaits ==
    gate # None /\ gate.call # None =>
        LET request == calls[gate.call] IN
        /\ request # None /\ request.kind = gate.asked
        /\ gate.answer = None
        /\ request.kind = "exchange" => codes[request.code].ins = gate.ins
        /\ request.kind \in {"refresh", "bearer"} =>
              Granted(grants, request.secret, gate.ins)
        /\ request.kind = "revoke" => request.ins = gate.ins

(* What a holder was given, its installation was granted.                  *)
HolderIsGranted ==
    gate # None /\ gate.answer = "ok"
        /\ gate.asked \in {"exchange", "refresh"} =>
            Granted(grants, gate.secret, gate.ins)

Shape ==
    /\ TypeOK /\ RowsRefer /\ CallsRefer /\ RevokedIsGone
    /\ HolderIsEntitled /\ HolderWaits /\ HolderIsGranted

OneLive ==
    \A i \in Installations : \A g, h \in LiveGrants(i) : g = h

(* No grant of the installation is alive, and no request under way can     *)
(* make one.                                                               *)
Cut(i) ==
    /\ LiveGrants(i) = {}
    /\ \A k \in Calls :
          calls[k] # None /\ calls[k].kind = "exchange"
            /\ codes[calls[k].code].ins = i => codes[calls[k].code].used

(* An acknowledged revocation has cut the installation off for good.       *)
RevocationHolds ==
    /\ \A i \in Installations : rows[i] = "uninstalled" => Cut(i)
    /\ gate # None /\ gate.asked = "revoke" /\ gate.answer = "ok" =>
          Cut(gate.ins)

Safe == Shape /\ OneLive /\ RevocationHolds

LEMMA ShapeInit == Init => Shape
  BY NoneAssumption
  DEF Init, Shape, TypeOK, RowsRefer, CallsRefer, RevokedIsGone,
      HolderIsEntitled, HolderWaits, HolderIsGranted, ConnectionType

-----------------------------------------------------------------------------
(* Records *)

LEMMA RequestFields ==
    ASSUME NEW r \in RequestType
    PROVE  /\ r.kind \in {"exchange", "refresh", "bearer", "revoke"}
           /\ r.kind = "exchange" => r.code \in Codes
           /\ r.kind \in {"refresh", "bearer"} => r.secret \in Credential
           /\ r.kind = "revoke" => r.ins \in Installations
  BY DEF RequestType

LEMMA ConnectionFields ==
    ASSUME NEW x \in ConnectionType
    PROVE  /\ x.status \in {"needs_connection", "revoked", "connected"}
           /\ x.status = "connected" => x.secret \in Credential
           /\ x.status = "revoked" => x = [status |-> "revoked", secret |-> None]
  BY DEF ConnectionType

LEMMA EnterFields ==
    ASSUME NEW op \in {"connect", "access", "activate", "cleanup"},
           NEW i \in Installations, NEW w \in Workers \cup {None}
    PROVE  /\ Enter(op, i, w) \in GateType
           /\ Enter(op, i, w).op = op /\ Enter(op, i, w).ins = i
           /\ Enter(op, i, w).worker = w /\ Enter(op, i, w).call = None
           /\ Enter(op, i, w).asked = None /\ Enter(op, i, w).answer = None
  BY DEF Enter, GateType

(* What sending, an answer and a deadline make of a holder.                *)
Sent(h, k, kind) == [h EXCEPT !.call = k, !.asked = kind,
                              !.answer = None, !.secret = None]
Told(h, answer, secret) == [h EXCEPT !.call = None, !.answer = answer,
                                     !.secret = secret]
Failed(h) == [h EXCEPT !.call = None, !.answer = "failed"]

(* A holder that sends a request, or is told of its fate, stays who it is. *)
LEMMA SentHolder ==
    ASSUME NEW h \in GateType, NEW k \in Calls,
           NEW kind \in {"exchange", "refresh", "bearer", "revoke"}
    PROVE  LET n == Sent(h, k, kind) IN
           /\ n \in GateType
           /\ n.op = h.op /\ n.ins = h.ins /\ n.worker = h.worker
           /\ n.call = k /\ n.asked = kind /\ n.answer = None
  <1> DEFINE h1 == [h EXCEPT !.call = k]
             h2 == [h1 EXCEPT !.asked = kind]
             h3 == [h2 EXCEPT !.answer = None]
             h4 == [h3 EXCEPT !.secret = None]
  <1>1. /\ h1 \in GateType /\ h1.call = k
        /\ h1.op = h.op /\ h1.ins = h.ins /\ h1.worker = h.worker
        /\ h1.asked = h.asked /\ h1.answer = h.answer /\ h1.secret = h.secret
    BY DEF GateType, Answers
  <1>2. /\ h2 \in GateType /\ h2.asked = kind
        /\ h2.op = h1.op /\ h2.ins = h1.ins /\ h2.worker = h1.worker
        /\ h2.call = h1.call /\ h2.answer = h1.answer /\ h2.secret = h1.secret
    BY <1>1 DEF GateType, Answers
  <1>3. /\ h3 \in GateType /\ h3.answer = None
        /\ h3.op = h2.op /\ h3.ins = h2.ins /\ h3.worker = h2.worker
        /\ h3.call = h2.call /\ h3.asked = h2.asked /\ h3.secret = h2.secret
    BY <1>2 DEF GateType, Answers
  <1>4. /\ h4 \in GateType /\ h4.secret = None
        /\ h4.op = h3.op /\ h4.ins = h3.ins /\ h4.worker = h3.worker
        /\ h4.call = h3.call /\ h4.asked = h3.asked /\ h4.answer = h3.answer
    BY <1>3 DEF GateType, Answers
  <1>5. h4 = Sent(h, k, kind)
    BY DEF Sent
  <1> HIDE DEF h1, h2, h3, h4
  <1> QED
    BY <1>1, <1>2, <1>3, <1>4, <1>5

LEMMA AnsweredHolder ==
    ASSUME NEW h \in GateType, NEW answer \in Answers,
           NEW secret \in Credential \cup {None}
    PROVE  LET n == Told(h, answer, secret) IN
           /\ n \in GateType
           /\ n.op = h.op /\ n.ins = h.ins /\ n.worker = h.worker
           /\ n.call = None /\ n.asked = h.asked
           /\ n.answer = answer /\ n.secret = secret
  <1> DEFINE h1 == [h EXCEPT !.call = None]
             h2 == [h1 EXCEPT !.answer = answer]
             h3 == [h2 EXCEPT !.secret = secret]
  <1>1. /\ h1 \in GateType /\ h1.call = None
        /\ h1.op = h.op /\ h1.ins = h.ins /\ h1.worker = h.worker
        /\ h1.asked = h.asked /\ h1.answer = h.answer /\ h1.secret = h.secret
    BY DEF GateType, Answers
  <1>2. /\ h2 \in GateType /\ h2.answer = answer
        /\ h2.op = h1.op /\ h2.ins = h1.ins /\ h2.worker = h1.worker
        /\ h2.call = h1.call /\ h2.asked = h1.asked /\ h2.secret = h1.secret
    BY <1>1 DEF GateType, Answers
  <1>3. /\ h3 \in GateType /\ h3.secret = secret
        /\ h3.op = h2.op /\ h3.ins = h2.ins /\ h3.worker = h2.worker
        /\ h3.call = h2.call /\ h3.asked = h2.asked /\ h3.answer = h2.answer
    BY <1>2 DEF GateType, Answers
  <1>4. h3 = Told(h, answer, secret)
    BY DEF Told
  <1> HIDE DEF h1, h2, h3
  <1> QED
    BY <1>1, <1>2, <1>3, <1>4

LEMMA FailedHolder ==
    ASSUME NEW h \in GateType
    PROVE  LET n == Failed(h) IN
           /\ n \in GateType
           /\ n.op = h.op /\ n.ins = h.ins /\ n.worker = h.worker
           /\ n.call = None /\ n.asked = h.asked
           /\ n.answer = "failed"
  <1> DEFINE h1 == [h EXCEPT !.call = None]
             h2 == [h1 EXCEPT !.answer = "failed"]
  <1>1. /\ h1 \in GateType /\ h1.call = None
        /\ h1.op = h.op /\ h1.ins = h.ins /\ h1.worker = h.worker
        /\ h1.asked = h.asked /\ h1.answer = h.answer /\ h1.secret = h.secret
    BY DEF GateType, Answers
  <1>2. /\ h2 \in GateType /\ h2.answer = "failed"
        /\ h2.op = h1.op /\ h2.ins = h1.ins /\ h2.worker = h1.worker
        /\ h2.call = h1.call /\ h2.asked = h1.asked /\ h2.secret = h1.secret
    BY <1>1 DEF GateType, Answers
  <1>3. h2 = Failed(h)
    BY DEF Failed
  <1> HIDE DEF h1, h2
  <1> QED
    BY <1>1, <1>2, <1>3

LEMMA CodeFields ==
    ASSUME NEW x \in CodeType, NEW b \in BOOLEAN, NEW a \in BOOLEAN
    PROVE  /\ [x EXCEPT !.used = b] \in CodeType
           /\ [x EXCEPT !.used = b].state = x.state
           /\ [x EXCEPT !.used = b].ins = x.ins
           /\ [x EXCEPT !.used = b].used = b
           /\ [x EXCEPT !.approved = a, !.used = b] \in CodeType
           /\ [x EXCEPT !.approved = a, !.used = b].state = x.state
           /\ [x EXCEPT !.approved = a, !.used = b].ins = x.ins
           /\ [x EXCEPT !.approved = a, !.used = b].used = b
  <1> DEFINE y == [x EXCEPT !.approved = a]
             m == [x EXCEPT !.used = b]
             n == [y EXCEPT !.used = b]
  <1>1. y \in CodeType /\ y.state = x.state /\ y.ins = x.ins
    BY DEF CodeType
  <1>2. m \in CodeType /\ m.state = x.state /\ m.ins = x.ins /\ m.used = b
    BY DEF CodeType
  <1>3. n \in CodeType /\ n.state = x.state /\ n.ins = x.ins /\ n.used = b
    BY <1>1 DEF CodeType
  <1>4. n = [x EXCEPT !.approved = a, !.used = b]
    OBVIOUS
  <1> HIDE DEF y, m, n
  <1>5. m = [x EXCEPT !.used = b]
    BY DEF m
  <1> QED
    BY <1>2, <1>3, <1>4, <1>5

LEMMA GrantFields ==
    ASSUME NEW x \in GrantType, NEW b \in BOOLEAN
    PROVE  /\ [x EXCEPT !.live = b] \in GrantType
           /\ [x EXCEPT !.live = b].ins = x.ins
           /\ [x EXCEPT !.live = b].rotation = x.rotation
           /\ [x EXCEPT !.live = b].live = b
           /\ [x EXCEPT !.rotation = x.rotation + 1] \in GrantType
           /\ [x EXCEPT !.rotation = x.rotation + 1].ins = x.ins
           /\ [x EXCEPT !.rotation = x.rotation + 1].rotation = x.rotation + 1
           /\ [x EXCEPT !.rotation = x.rotation + 1].live = x.live
  <1>1. [x EXCEPT !.live = b] \in GrantType
    BY DEF GrantType
  <1>2. x.rotation + 1 \in Nat
    BY DEF GrantType
  <1>3. [x EXCEPT !.rotation = x.rotation + 1] \in GrantType
    BY <1>2 DEF GrantType
  <1> QED
    BY <1>1, <1>2, <1>3 DEF GrantType

-----------------------------------------------------------------------------
(* Codes are never forgotten, nor grants, and a grant only rotates onwards *)

StatesGrow == \A s \in States : states[s] # None => states'[s] # None

CodesGrow ==
    \A c \in Codes : codes[c] # None =>
        /\ codes'[c] # None
        /\ codes'[c].state = codes[c].state
        /\ codes'[c].ins = codes[c].ins
        /\ codes[c].used => codes'[c].used

GrantsGrow ==
    \A g \in Grants : grants[g] # None =>
        /\ grants'[g] # None
        /\ grants'[g].ins = grants[g].ins
        /\ grants[g].rotation <= grants'[g].rotation

Grows == StatesGrow /\ CodesGrow /\ GrantsGrow

LEMMA GrantedStays ==
    ASSUME TypeOK, TypeOK', GrantsGrow,
           NEW secret, NEW i, Granted(grants, secret, i)
    PROVE  Granted(grants', secret, i)
  <1>1. secret.grant \in Grants /\ secret.rotation \in Nat
    BY DEF Granted, Credential
  <1>2. grants[secret.grant] \in GrantType /\ grants'[secret.grant] \in GrantType
    BY <1>1 DEF TypeOK, Granted, GrantsGrow
  <1>3. /\ grants[secret.grant].rotation \in Nat
        /\ grants'[secret.grant].rotation \in Nat
    BY <1>2 DEF GrantType
  <1> QED
    BY <1>1, <1>3 DEF Granted, GrantsGrow

(* A step that neither enters nor leaves the lock, nor writes connections. *)
LEMMA QuietShape ==
    ASSUME Shape, TypeOK', Grows, gate' = gate, connections' = connections,
           \A c \in callbacks' : c \in callbacks \/ codes[c] # None,
           \A c \in Codes : codes[c] = None /\ codes'[c] # None =>
                states[codes'[c].state] # None,
           \A k \in Calls : \/ calls'[k] = calls[k]
                            \/ calls'[k] = None /\ (gate # None => gate.call # k),
           gate # None => rows'[gate.ins] = rows[gate.ins],
           \A w \in Workers : workers[w] # None /\ workers[w].step = "revoking"
                => workers'[w] = workers[w],
           \A i \in Installations :
                /\ rows'[i] = "uninstalled" <=> rows[i] = "uninstalled"
                /\ rows[i] = "disabling" => rows'[i] = "disabling"
    PROVE  Shape'
  <1>1. ASSUME NEW secret, NEW i, Granted(grants, secret, i)
        PROVE  Granted(grants', secret, i)
    BY <1>1, GrantedStays DEF Shape, Grows
  <1>2. RowsRefer'
    <2>1. \A c \in Codes : codes'[c] # None => states'[codes'[c].state] # None
      BY DEF Shape, TypeOK, RowsRefer, Grows, CodesGrow, StatesGrow, CodeType
    <2>2. \A c \in callbacks' : codes'[c] # None
      BY DEF Shape, TypeOK, RowsRefer, Grows, CodesGrow
    <2>3. \A i \in Installations : connections'[i].status = "connected" =>
              Granted(grants', connections'[i].secret, i)
      BY <1>1 DEF Shape, RowsRefer
    <2> QED
      BY <2>1, <2>2, <2>3 DEF RowsRefer
  <1>3. CallsRefer'
    <2> SUFFICES ASSUME NEW k \in Calls, calls'[k] # None
                 PROVE  /\ calls'[k].kind = "exchange" =>
                              codes'[calls'[k].code] # None
                        /\ calls'[k].kind \in {"refresh", "bearer"} =>
                              \E i \in Installations :
                                  Granted(grants', calls'[k].secret, i)
      BY DEF CallsRefer
    <2>1. calls'[k] = calls[k] /\ calls[k] \in RequestType
      BY DEF Shape, TypeOK
    <2> QED
      BY <1>1, <2>1, RequestFields DEF Shape, CallsRefer, Grows, CodesGrow
  <1>4. RevokedIsGone'
    BY DEF Shape, TypeOK, RevokedIsGone
  <1>5. HolderIsEntitled'
    BY DEF Shape, TypeOK, HolderIsEntitled, GateType, Live
  <1>6. HolderWaits'
    <2> SUFFICES ASSUME gate # None, gate.call # None
                 PROVE  HolderWaits'
      BY DEF HolderWaits
    <2>1. gate \in GateType /\ gate.call \in Calls
          /\ gate.ins \in Installations
      BY DEF Shape, TypeOK, GateType
    <2>2. calls'[gate.call] = calls[gate.call] /\ calls[gate.call] \in RequestType
      BY <2>1 DEF Shape, TypeOK, HolderWaits
    <2>3. calls[gate.call].kind = "exchange" =>
            codes'[calls[gate.call].code].ins = gate.ins
      BY <2>1, <2>2, RequestFields
      DEF Shape, HolderWaits, CallsRefer, Grows, CodesGrow
    <2>4. calls[gate.call].kind \in {"refresh", "bearer"} =>
              Granted(grants', calls[gate.call].secret, gate.ins)
      BY <1>1, <2>2 DEF Shape, HolderWaits, Granted
    <2> QED
      BY <2>2, <2>3, <2>4 DEF Shape, HolderWaits
  <1>7. HolderIsGranted'
    BY <1>1 DEF Shape, HolderIsGranted, Granted
  <1> QED
    BY <1>2, <1>3, <1>4, <1>5, <1>6, <1>7 DEF Shape

LEMMA RequeueType ==
    ASSUME TypeOK, NEW i \in Installations, NEW attempts \in Nat,
           NEW due \in BOOLEAN, Requeue(i, attempts, due)
    PROVE  cleanup' \in [Installations ->
                            [attempts : Nat, due : BOOLEAN, revision : Nat]]
  <1>1. cleanup[i].revision + 1 \in Nat
    BY DEF TypeOK
  <1>2. [attempts |-> attempts, due |-> due,
         revision |-> cleanup[i].revision + 1]
           \in [attempts : Nat, due : BOOLEAN, revision : Nat]
    BY <1>1
  <1> QED
    BY <1>2 DEF TypeOK, Requeue

LEMMA UnchangedGrows ==
    ASSUME Shape, UNCHANGED <<states, codes, grants>>
    PROVE  Grows
  <1>1. \A g \in Grants : grants[g] # None => grants[g].rotation \in Nat
    BY DEF Shape, TypeOK, GrantType
  <1> QED
    BY <1>1 DEF Grows, StatesGrow, CodesGrow, GrantsGrow

(* The lifecycle and the worker outside the lock                           *)
LEMMA LifecycleShape ==
    ASSUME Shape, NEW i \in Installations,
           Install(i) \/ Uninstall(i) \/ BackoffEnds(i) \/ Recover(i)
    PROVE  Shape'
  <1>1. Grows
    BY UnchangedGrows
    DEF Install, Uninstall, BackoffEnds, Recover, RequestCleanup, RetryCleanup
  <1>2. CASE Install(i)
    <2>1. TypeOK'
      BY <1>2 DEF Install, Shape, TypeOK, Live
    <2> QED
      BY <1>1, <1>2, <2>1, QuietShape DEF Install, GateFree, Shape, TypeOK
  <1>3. CASE Uninstall(i)
    <2>1. TypeOK'
      BY <1>3, RequeueType DEF Uninstall, Shape, TypeOK
    <2> QED
      BY <1>1, <1>3, <2>1, QuietShape
      DEF Uninstall, GateFree, Shape, TypeOK, Live
  <1>4. CASE BackoffEnds(i)
    <2>1. [cleanup[i] EXCEPT !.due = TRUE]
             \in [attempts : Nat, due : BOOLEAN, revision : Nat]
      BY DEF Shape, TypeOK
    <2>2. TypeOK'
      BY <1>4, <2>1 DEF BackoffEnds, Shape, TypeOK
    <2> QED
      BY <1>1, <1>4, <2>2, QuietShape DEF BackoffEnds, Shape
  <1>5. CASE Recover(i)
    <2>1. RetryCleanup(i)
      BY <1>5 DEF Recover, RequestCleanup
    <2>2. TypeOK'
      BY <2>1, RequeueType DEF RetryCleanup, Shape, TypeOK
    <2> QED
      BY <1>1, <2>1, <2>2, QuietShape DEF RetryCleanup, Shape
  <1> QED
    BY <1>2, <1>3, <1>4, <1>5

LEMMA WorkerShape ==
    ASSUME Shape, NEW w \in Workers,
           \/ \E i \in Installations : ListCleanup(w, i)
           \/ SkipCleanup(w) \/ RecordFailure(w)
    PROVE  Shape'
  <1>1. Grows
    BY UnchangedGrows DEF ListCleanup, SkipCleanup, RecordFailure
  <1>2. ASSUME NEW i \in Installations, ListCleanup(w, i) PROVE Shape'
    <2> DEFINE row == [ins |-> i, revision |-> cleanup[i].revision,
                       step |-> "listed"]
    <2>1. row \in WorkerType
      BY DEF Shape, TypeOK, WorkerType
    <2>2. workers' = [workers EXCEPT ![w] = row]
      BY <1>2 DEF ListCleanup
    <2> HIDE DEF row
    <2>3. TypeOK'
      BY <1>2, <2>1, <2>2 DEF ListCleanup, Shape, TypeOK
    <2> QED
      BY <1>1, <1>2, <2>2, <2>3, QuietShape DEF ListCleanup, Shape, TypeOK
  <1>3. CASE SkipCleanup(w)
    <2>1. TypeOK'
      BY <1>3 DEF SkipCleanup, Shape, TypeOK
    <2> QED
      BY <1>1, <1>3, <2>1, QuietShape DEF SkipCleanup, Shape, TypeOK
  <1>4. CASE RecordFailure(w)
    <2>1. workers[w].ins \in Installations
      BY <1>4 DEF RecordFailure, Shape, TypeOK, WorkerType
    <2>2. cleanup[workers[w].ins].attempts + 1 \in Nat
      BY <2>1 DEF Shape, TypeOK
    <2>3. cleanup' \in [Installations ->
                            [attempts : Nat, due : BOOLEAN, revision : Nat]]
      BY <1>4, <2>1, <2>2, RequeueType DEF RecordFailure, Shape, TypeOK
    <2>4. TypeOK'
      BY <1>4, <2>3 DEF RecordFailure, Shape, TypeOK
    <2> QED
      BY <1>1, <1>4, <2>4, QuietShape DEF RecordFailure, Shape, TypeOK
  <1> QED
    BY <1>2, <1>3, <1>4

-----------------------------------------------------------------------------
(* States and codes *)

LEMMA StateUsed ==
    ASSUME NEW x \in StateType
    PROVE  [x EXCEPT !.used = TRUE] \in StateType
  BY DEF StateType

(* A state that is burned stays a row, and nothing else changes.           *)
LEMMA BurnGrows ==
    ASSUME Shape, NEW s \in States, states[s] # None,
           states' = [states EXCEPT ![s].used = TRUE],
           UNCHANGED <<codes, grants>>
    PROVE  /\ states' \in [States -> StateType \cup {None}]
           /\ Grows
  <1>1. states[s] \in StateType
    BY DEF Shape, TypeOK
  <1>2. [states[s] EXCEPT !.used = TRUE] \in StateType
    BY <1>1, StateUsed
  <1>3. states' \in [States -> StateType \cup {None}]
    BY <1>2 DEF Shape, TypeOK
  <1>4. StatesGrow
    BY <1>2, NoneAssumption DEF Shape, TypeOK, StatesGrow
  <1>5. \A g \in Grants : grants[g] # None => grants[g].rotation \in Nat
    BY DEF Shape, TypeOK, GrantType
  <1> QED
    BY <1>3, <1>4, <1>5 DEF Grows, CodesGrow, GrantsGrow

LEMMA ConnectShape ==
    ASSUME Shape, NEW s \in States, NEW i \in Installations,
           BeginConnect(s, i)
    PROVE  Shape'
  <1>1. [ins |-> i, used |-> FALSE] \in StateType
    BY DEF StateType
  <1>2. TypeOK'
    BY <1>1 DEF BeginConnect, Shape, TypeOK
  <1>3. StatesGrow
    BY DEF BeginConnect, StatesGrow, Shape, TypeOK
  <1>4. \A g \in Grants : grants[g] # None => grants[g].rotation \in Nat
    BY DEF Shape, TypeOK, GrantType
  <1>5. Grows
    BY <1>3, <1>4 DEF BeginConnect, Grows, CodesGrow, GrantsGrow
  <1> QED
    BY <1>2, <1>5, QuietShape DEF BeginConnect, Shape

LEMMA BurnShape ==
    ASSUME Shape,
           \/ \E s \in States : StateExpires(s)
           \/ \E c \in Codes : Consume(c)
    PROVE  Shape'
  <1>1. ASSUME NEW s \in States, StateExpires(s) PROVE Shape'
    <2>1. states' \in [States -> StateType \cup {None}] /\ Grows
      BY <1>1, BurnGrows DEF StateExpires
    <2>2. TypeOK'
      BY <1>1, <2>1 DEF StateExpires, Shape, TypeOK
    <2> QED
      BY <1>1, <2>1, <2>2, QuietShape DEF StateExpires, Shape
  <1>2. ASSUME NEW c \in Codes, Consume(c) PROVE Shape'
    <2>1. PICK s \in States : s = codes[c].state /\ states[s] # None
      BY <1>2 DEF Consume, Shape, TypeOK, RowsRefer, CodeType
    <2>2. states' \in [States -> StateType \cup {None}] /\ Grows
      BY <1>2, <2>1, BurnGrows DEF Consume
    <2>3. TypeOK'
      BY <1>2, <2>2 DEF Consume, Shape, TypeOK
    <2> QED
      BY <1>2, <2>2, <2>3, QuietShape DEF Consume, Shape
  <1> QED
    BY <1>1, <1>2

LEMMA AuthorizeShape ==
    ASSUME Shape, NEW c \in Codes, NEW s \in States, Authorize(c, s)
    PROVE  Shape'
  <1> DEFINE code == [state |-> s, ins |-> states[s].ins, approved |-> FALSE,
                      used |-> FALSE]
  <1>1. code \in CodeType /\ code.state = s
    BY DEF Authorize, Shape, TypeOK, StateType, CodeType
  <1>2. codes' = [codes EXCEPT ![c] = code]
    BY DEF Authorize
  <1> HIDE DEF code
  <1>3. TypeOK'
    BY <1>1, <1>2 DEF Authorize, Shape, TypeOK
  <1>4. \A g \in Grants : grants[g] # None => grants[g].rotation \in Nat
    BY DEF Shape, TypeOK, GrantType
  <1>5. Grows
    BY <1>2, <1>4
    DEF Authorize, Shape, TypeOK, Grows, StatesGrow, CodesGrow, GrantsGrow
  <1>6. \A d \in Codes : codes[d] = None /\ codes'[d] # None =>
            states[codes'[d].state] # None
    BY <1>1, <1>2 DEF Authorize, Shape, TypeOK
  <1> QED
    BY <1>3, <1>5, <1>6, QuietShape DEF Authorize, Shape

(* A code that is answered or used up stays a row.                         *)
LEMMA CodeGrows ==
    ASSUME Shape, NEW c \in Codes, codes[c] # None, ~codes[c].used,
           NEW new \in CodeType, new.state = codes[c].state,
           new.ins = codes[c].ins,
           codes' = [codes EXCEPT ![c] = new]
    PROVE  /\ codes' \in [Codes -> CodeType \cup {None}]
           /\ CodesGrow
           /\ \A d \in Codes : codes[d] = None => codes'[d] = None
  BY NoneAssumption DEF Shape, TypeOK, CodesGrow

LEMMA CodeChanges ==
    ASSUME Shape, NEW c \in Codes, Approve(c) \/ CodeExpires(c)
    PROVE  /\ codes' \in [Codes -> CodeType \cup {None}]
           /\ CodesGrow
           /\ \A d \in Codes : codes[d] = None => codes'[d] = None
  <1>1. codes[c] \in CodeType /\ codes[c] # None /\ ~codes[c].used
    BY DEF Approve, CodeExpires, Shape, TypeOK
  <1>2. PICK new \in CodeType : /\ new.state = codes[c].state
                               /\ new.ins = codes[c].ins
                               /\ codes' = [codes EXCEPT ![c] = new]
    <2>1. CASE CodeExpires(c)
      <3>1. codes' = [codes EXCEPT ![c] = [codes[c] EXCEPT !.used = TRUE]]
        BY <2>1 DEF CodeExpires
      <3> QED
        BY <1>1, <3>1, CodeFields
    <2>2. CASE Approve(c)
      <3>1. PICK allow \in BOOLEAN :
                codes' = [codes EXCEPT ![c].approved = allow,
                                       ![c].used = ~allow]
        BY <2>2 DEF Approve
      <3>2. codes' = [codes EXCEPT ![c] =
                        [codes[c] EXCEPT !.approved = allow, !.used = ~allow]]
        BY <3>1 DEF Shape, TypeOK
      <3> QED
        BY <1>1, <3>2, CodeFields
    <2> QED
      BY <2>1, <2>2
  <1> QED
    BY <1>1, <1>2, CodeGrows

LEMMA CodeShape ==
    ASSUME Shape, NEW c \in Codes, Approve(c) \/ CodeExpires(c)
    PROVE  Shape'
  <1>1. /\ codes' \in [Codes -> CodeType \cup {None}]
        /\ CodesGrow
        /\ \A d \in Codes : codes[d] = None => codes'[d] = None
    BY CodeChanges
  <1>2. TypeOK'
    BY <1>1 DEF Approve, CodeExpires, Shape, TypeOK
  <1>3. \A g \in Grants : grants[g] # None => grants[g].rotation \in Nat
    BY DEF Shape, TypeOK, GrantType
  <1>4. Grows
    BY <1>1, <1>3 DEF Approve, CodeExpires, Grows, StatesGrow, GrantsGrow
  <1> QED
    BY <1>1, <1>2, <1>4, QuietShape DEF Approve, CodeExpires, Shape

LEMMA DropShape ==
    ASSUME Shape,
           \/ \E c \in Codes : DropCallback(c)
           \/ \E k \in Calls : Lose(k)
    PROVE  Shape'
  <1>1. Grows
    BY UnchangedGrows DEF DropCallback, Lose
  <1>2. TypeOK'
    BY DEF DropCallback, Lose, Shape, TypeOK
  <1>3. CASE \E c \in Codes : DropCallback(c)
    BY <1>1, <1>2, <1>3, QuietShape DEF DropCallback, Shape
  <1>4. CASE \E k \in Calls : Lose(k)
    BY <1>1, <1>2, <1>4, QuietShape DEF Lose, Shape, TypeOK
  <1> QED
    BY <1>3, <1>4

(* A grant that is rotated or ended stays a row.                           *)
LEMMA GrantGrows ==
    ASSUME Shape, NEW g \in Grants, grants[g] # None,
           NEW new \in GrantType, new.ins = grants[g].ins,
           grants[g].rotation <= new.rotation,
           grants' = [grants EXCEPT ![g] = new]
    PROVE  /\ grants' \in [Grants -> GrantType \cup {None}]
           /\ GrantsGrow
  <1>1. \A h \in Grants : grants[h] # None => grants[h].rotation \in Nat
    BY DEF Shape, TypeOK, GrantType
  <1> QED
    BY <1>1, NoneAssumption DEF Shape, TypeOK, GrantsGrow

LEMMA GrantExpiresShape ==
    ASSUME Shape, NEW g \in Grants, GrantExpires(g)
    PROVE  Shape'
  <1>1. grants[g] \in GrantType /\ grants[g] # None
        /\ grants[g].rotation \in Nat
    BY DEF GrantExpires, Shape, TypeOK, GrantType
  <1>2. PICK new \in GrantType :
            /\ new.ins = grants[g].ins /\ new.rotation = grants[g].rotation
            /\ grants' = [grants EXCEPT ![g] = new]
    <2>1. grants' = [grants EXCEPT ![g] = [grants[g] EXCEPT !.live = FALSE]]
      BY DEF GrantExpires
    <2> QED
      BY <1>1, <2>1, GrantFields
  <1>4. grants' \in [Grants -> GrantType \cup {None}] /\ GrantsGrow
    <2>1. grants[g].rotation <= new.rotation
      BY <1>1, <1>2
    <2> QED
      BY <1>1, <1>2, <2>1, GrantGrows
  <1>5. TypeOK'
    BY <1>4 DEF GrantExpires, Shape, TypeOK
  <1>6. Grows
    BY <1>4 DEF GrantExpires, Grows, StatesGrow, CodesGrow
  <1> QED
    BY <1>5, <1>6, QuietShape DEF GrantExpires, Shape

-----------------------------------------------------------------------------
(* Entering, sending, being answered and leaving *)

ConnectionsRefer ==
    \A i \in Installations : connections[i].status = "connected" =>
        Granted(grants, connections[i].secret, i)

LEMMA LeaveShape ==
    ASSUME Shape, TypeOK', gate' = None, ConnectionsRefer', RevokedIsGone',
           UNCHANGED <<states, callbacks, calls, codes, grants>>
    PROVE  Shape'
  <1>1. RowsRefer'
    BY DEF Shape, RowsRefer, ConnectionsRefer
  <1>2. CallsRefer'
    BY DEF Shape, CallsRefer
  <1> QED
    BY <1>1, <1>2 DEF Shape, HolderIsEntitled, HolderWaits, HolderIsGranted

(* A holder that is entitled to writes a credential that it was granted,   *)
(* or none.                                                                *)
LEMMA SaveShape ==
    ASSUME Shape, gate # None, gate.op # "cleanup",
           \/ /\ Save(gate.ins, "connected", gate.secret)
              /\ Granted(grants, gate.secret, gate.ins)
           \/ Save(gate.ins, "needs_connection", None),
           UNCHANGED <<rows, grants>>
    PROVE  /\ connections' \in [Installations -> ConnectionType]
           /\ ConnectionsRefer' /\ RevokedIsGone'
  <1>1. gate \in GateType /\ gate.ins \in Installations
        /\ rows[gate.ins] \in Live
    BY DEF Shape, TypeOK, GateType, HolderIsEntitled
  <1>2. PICK row \in ConnectionType :
            /\ connections' = [connections EXCEPT ![gate.ins] = row]
            /\ row.status # "revoked"
            /\ row.status = "connected" =>
                  Granted(grants, row.secret, gate.ins)
    <2>1. CASE Save(gate.ins, "connected", gate.secret)
                /\ Granted(grants, gate.secret, gate.ins)
      <3> DEFINE row == [status |-> "connected", secret |-> gate.secret]
      <3>1. row \in ConnectionType
        BY <2>1 DEF ConnectionType, Granted
      <3> QED
        BY <2>1, <3>1 DEF Save
    <2>2. CASE Save(gate.ins, "needs_connection", None)
      <3> DEFINE row == [status |-> "needs_connection", secret |-> None]
      <3>1. row \in ConnectionType
        BY DEF ConnectionType
      <3> QED
        BY <2>2, <3>1 DEF Save
    <2> QED
      BY <2>1, <2>2
  <1>3. connections' \in [Installations -> ConnectionType]
    BY <1>1, <1>2 DEF Shape, TypeOK
  <1>4. ConnectionsRefer'
    BY <1>1, <1>2 DEF Shape, TypeOK, RowsRefer, ConnectionsRefer
  <1>5. RevokedIsGone'
    BY <1>1, <1>2 DEF Shape, TypeOK, RevokedIsGone, Live
  <1> QED
    BY <1>3, <1>4, <1>5

(* A request is about what its holder works on.                            *)
Owns(h, r) ==
    /\ r.kind = "exchange" => codes[r.code] # None /\ codes[r.code].ins = h.ins
    /\ r.kind \in {"refresh", "bearer"} => Granted(grants, r.secret, h.ins)
    /\ r.kind = "revoke" => r.ins = h.ins

Entitled(h, r) ==
    \/ /\ h.op = "cleanup" /\ r.kind = "revoke"
       /\ rows[h.ins] = "disabling"
       /\ connections'[h.ins].status = "revoked"
       /\ h.worker \in Workers /\ workers[h.worker] # None
       /\ workers[h.worker].step = "revoking"
    \/ /\ h.op # "cleanup" /\ r.kind \in {"exchange", "refresh", "bearer"}
       /\ rows[h.ins] \in Live

LEMMA SendShape ==
    ASSUME Shape, NEW h \in GateType, NEW r \in RequestType,
           Send(h, r), Owns(h, r), Entitled(h, r),
           UNCHANGED <<rows, cleanup, workers, codes, grants>>,
           states' \in [States -> StateType \cup {None}], StatesGrow,
           callbacks' \subseteq callbacks,
           connections' \in [Installations -> ConnectionType],
           ConnectionsRefer', RevokedIsGone'
    PROVE  Shape'
  <1>1. PICK k \in Calls :
            /\ calls[k] = None /\ calls' = [calls EXCEPT ![k] = r]
            /\ gate' = [h EXCEPT !.call = k, !.asked = r.kind,
                                 !.answer = None, !.secret = None]
    BY DEF Send
  <1>0. PICK kind \in {"exchange", "refresh", "bearer", "revoke"} :
            kind = r.kind
    BY RequestFields
  <1>2. /\ gate' \in GateType
        /\ gate'.op = h.op /\ gate'.ins = h.ins /\ gate'.worker = h.worker
        /\ gate'.call = k /\ gate'.asked = r.kind /\ gate'.answer = None
    <2>1. gate' = Sent(h, k, kind)
      BY <1>0, <1>1 DEF Sent
    <2> DEFINE n == Sent(h, k, kind)
    <2>2. /\ n \in GateType
          /\ n.op = h.op /\ n.ins = h.ins /\ n.worker = h.worker
          /\ n.call = k /\ n.asked = kind /\ n.answer = None
      BY SentHolder
    <2> QED
      BY <1>0, <2>1, <2>2
  <1>3. TypeOK'
    BY <1>1, <1>2 DEF Shape, TypeOK
  <1>4. RowsRefer'
    <2>1. \A c \in Codes : codes'[c] # None => states'[codes'[c].state] # None
      BY DEF Shape, TypeOK, RowsRefer, StatesGrow, CodeType
    <2> QED
      BY <2>1 DEF Shape, RowsRefer, ConnectionsRefer
  <1>5. h.ins \in Installations
    BY DEF GateType
  <1>6. CallsRefer'
    <2> SUFFICES ASSUME NEW j \in Calls, calls'[j] # None
                 PROVE  /\ calls'[j].kind = "exchange" =>
                              codes'[calls'[j].code] # None
                        /\ calls'[j].kind \in {"refresh", "bearer"} =>
                              \E i \in Installations :
                                  Granted(grants', calls'[j].secret, i)
      BY DEF CallsRefer
    <2>1. CASE j = k
      BY <1>1, <1>5, <2>1 DEF Owns, Shape, TypeOK
    <2>2. CASE j # k
      BY <1>1, <2>2 DEF Shape, TypeOK, CallsRefer
    <2> QED
      BY <2>1, <2>2
  <1>7. HolderIsEntitled'
    BY <1>2, NoneAssumption DEF HolderIsEntitled, Entitled
  <1>8. calls'[k] = r /\ r # None
    BY <1>1, NoneAssumption DEF Shape, TypeOK
  <1>9. HolderWaits'
    BY <1>2, <1>8 DEF HolderWaits, Owns
  <1>10. HolderIsGranted'
    BY <1>2, NoneAssumption DEF HolderIsGranted, Answers
  <1> QED
    BY <1>3, <1>4, <1>6, <1>7, <1>9, <1>10 DEF Shape

(* An answer frees its request, and tells whoever waits for it.            *)
LEMMA AnswerShape ==
    ASSUME Shape, NEW k \in Calls, calls[k] # None,
           NEW answer \in {"ok", "refused"},
           NEW secret \in Credential \cup {None},
           Answer(k, answer, secret),
           codes' \in [Codes -> CodeType \cup {None}],
           grants' \in [Grants -> GrantType \cup {None}],
           Grows, \A c \in Codes : codes[c] = None => codes'[c] = None,
           answer = "ok" =>
              /\ calls[k].kind = "exchange" =>
                    Granted(grants', secret, codes[calls[k].code].ins)
              /\ calls[k].kind = "refresh" =>
                    \A i \in Installations :
                       Granted(grants, calls[k].secret, i) =>
                          Granted(grants', secret, i)
    PROVE  Shape'
  <1>1. /\ calls' = [calls EXCEPT ![k] = None]
        /\ UNCHANGED <<rows, cleanup, states, connections, callbacks, workers>>
        /\ gate' = IF gate # None /\ gate.call = k
                   THEN [gate EXCEPT !.call = None, !.answer = answer,
                                     !.secret = secret]
                   ELSE gate
    BY DEF Answer
  <1>2. CASE gate = None \/ gate.call # k
    <2>1. gate' = gate
      BY <1>1, <1>2
    <2>2. TypeOK'
      BY <1>1, <2>1 DEF Shape, TypeOK
    <2> QED
      BY <1>1, <1>2, <2>1, <2>2, QuietShape DEF Shape, TypeOK
  <1>3. CASE gate # None /\ gate.call = k
    <2>1. gate \in GateType /\ answer \in Answers
      BY <1>3 DEF Shape, TypeOK, Answers
    <2>2. /\ gate' \in GateType /\ gate' # None
          /\ gate'.op = gate.op /\ gate'.ins = gate.ins
          /\ gate'.worker = gate.worker /\ gate'.asked = gate.asked
          /\ gate'.call = None /\ gate'.answer = answer
          /\ gate'.secret = secret
      <3>1. gate' = Told(gate, answer, secret)
        BY <1>1, <1>3 DEF Told
      <3> QED
        BY <2>1, <3>1, AnsweredHolder, NoneAssumption
    <2>3. TypeOK'
      BY <1>1, <2>2 DEF Shape, TypeOK
    <2>4. ASSUME NEW x, NEW i, Granted(grants, x, i)
          PROVE  Granted(grants', x, i)
      BY <2>3, <2>4, GrantedStays DEF Shape, Grows
    <2>5. RowsRefer'
      <3>1. \A c \in Codes : codes'[c] # None =>
                states'[codes'[c].state] # None
        BY <1>1 DEF Shape, RowsRefer, Grows, CodesGrow
      <3>2. \A c \in callbacks' : codes'[c] # None
        BY <1>1 DEF Shape, TypeOK, RowsRefer, Grows, CodesGrow
      <3>3. \A i \in Installations : connections'[i].status = "connected" =>
                Granted(grants', connections'[i].secret, i)
        BY <1>1, <2>4 DEF Shape, RowsRefer
      <3> QED
        BY <3>1, <3>2, <3>3 DEF RowsRefer
    <2>6. CallsRefer'
      <3> SUFFICES ASSUME NEW j \in Calls, calls'[j] # None
                   PROVE  /\ calls'[j].kind = "exchange" =>
                                codes'[calls'[j].code] # None
                          /\ calls'[j].kind \in {"refresh", "bearer"} =>
                                \E i \in Installations :
                                    Granted(grants', calls'[j].secret, i)
        BY DEF CallsRefer
      <3>1. calls'[j] = calls[j] /\ calls[j] \in RequestType
        BY <1>1 DEF Shape, TypeOK
      <3> QED
        BY <2>4, <3>1, RequestFields DEF Shape, CallsRefer, Grows, CodesGrow
    <2>7. RevokedIsGone' /\ HolderIsEntitled'
      BY <1>1, <1>3, <2>2 DEF Shape, RevokedIsGone, HolderIsEntitled
    <2>8. HolderWaits'
      BY <2>2 DEF HolderWaits
    <2>9. HolderIsGranted'
      <3> SUFFICES ASSUME answer = "ok", gate.asked \in {"exchange", "refresh"}
                   PROVE  Granted(grants', secret, gate.ins)
        BY <2>2 DEF HolderIsGranted
      <3>1. /\ calls[k].kind = gate.asked
            /\ calls[k].kind = "exchange" => codes[calls[k].code].ins = gate.ins
            /\ calls[k].kind = "refresh" =>
                    Granted(grants, calls[k].secret, gate.ins)
        BY <1>3, NoneAssumption DEF Shape, TypeOK, HolderWaits
      <3>2. gate.ins \in Installations
        BY <2>1 DEF GateType
      <3> QED
        BY <3>1, <3>2
    <2> QED
      BY <2>3, <2>5, <2>6, <2>7, <2>8, <2>9 DEF Shape
  <1> QED
    BY <1>2, <1>3

-----------------------------------------------------------------------------
(* Connections are made and used *)

LEMMA SecretRequest ==
    ASSUME NEW secret \in Credential, NEW kind \in {"refresh", "bearer"}
    PROVE  [kind |-> kind, secret |-> secret] \in RequestType
  BY DEF RequestType

LEMMA OtherRequest ==
    /\ \A c \in Codes :
          LET r == [kind |-> "exchange", code |-> c] IN
          r \in RequestType /\ r.kind = "exchange" /\ r.code = c
    /\ \A i \in Installations :
          LET r == [kind |-> "revoke", ins |-> i] IN
          r \in RequestType /\ r.kind = "revoke" /\ r.ins = i
  BY DEF RequestType

(* A step that only enters the lock with a request leaves the tables alone.*)
LEMMA StatesStay ==
    ASSUME Shape, UNCHANGED <<rows, states, connections, grants>>
    PROVE  /\ states' \in [States -> StateType \cup {None}] /\ StatesGrow
           /\ connections' \in [Installations -> ConnectionType]
           /\ ConnectionsRefer' /\ RevokedIsGone'
  BY DEF Shape, TypeOK, StatesGrow, ConnectionsRefer, RowsRefer, RevokedIsGone

LEMMA SecretShape ==
    ASSUME Shape, NEW h \in GateType, h.op # "cleanup",
           rows[h.ins] \in Live,
           NEW secret, Granted(grants, secret, h.ins),
           NEW kind \in {"refresh", "bearer"},
           Send(h, [kind |-> kind, secret |-> secret]),
           UNCHANGED <<rows, cleanup, states, callbacks, workers, remote>>,
           connections' \in [Installations -> ConnectionType],
           ConnectionsRefer', RevokedIsGone'
    PROVE  Shape'
  <1>1. PICK r \in RequestType : /\ r = [kind |-> kind, secret |-> secret]
                                /\ r.kind = kind /\ r.secret = secret
    BY SecretRequest DEF Granted
  <1>2. Send(h, r)
    BY <1>1
  <1>3. Owns(h, r) /\ Entitled(h, r)
    BY <1>1 DEF Owns, Entitled
  <1>4. states' \in [States -> StateType \cup {None}] /\ StatesGrow
    BY DEF Shape, TypeOK, StatesGrow
  <1> QED
    BY <1>2, <1>3, <1>4, SendShape

LEMMA UseShape ==
    ASSUME Shape, NEW i \in Installations, BeginActivate(i) \/ BeginAccess(i)
    PROVE  Shape'
  <1>1. PICK op \in {"activate", "access"} :
            /\ \/ Refresh(Enter(op, i, None))
               \/ Probe(Enter(op, i, None), connections[i].secret)
            /\ UNCHANGED <<lifecycle, platform, workers, remote>>
            /\ rows[i] \in Live /\ connections[i].status = "connected"
    BY DEF BeginActivate, BeginAccess, Live
  <1>2. PICK h \in GateType :
            h = Enter(op, i, None) /\ h.op = op /\ h.ins = i
    BY EnterFields
  <1>3. PICK secret : secret = connections[i].secret
                      /\ Granted(grants, secret, i)
    BY <1>1 DEF Shape, RowsRefer
  <1>4. PICK kind \in {"refresh", "bearer"} :
            Send(h, [kind |-> kind, secret |-> secret])
    BY <1>1, <1>2, <1>3 DEF Refresh, Probe
  <1>5. /\ connections' \in [Installations -> ConnectionType]
        /\ ConnectionsRefer' /\ RevokedIsGone'
    BY <1>1, StatesStay
  <1> QED
    BY <1>1, <1>2, <1>3, <1>4, <1>5, SecretShape

LEMMA EnterConnectShape ==
    ASSUME Shape, NEW c \in Codes, EnterConnect(c)
    PROVE  Shape'
  <1>1. /\ codes[c] # None /\ codes[c].ins \in Installations
        /\ rows[codes[c].ins] \in Live
    BY DEF EnterConnect, Attached, Shape, TypeOK, RowsRefer, CodeType
  <1>2. PICK h \in GateType : /\ h = Enter("connect", codes[c].ins, None)
                             /\ h.op = "connect" /\ h.ins = codes[c].ins
    BY <1>1, EnterFields
  <1>3. PICK r \in RequestType : /\ r = [kind |-> "exchange", code |-> c]
                                /\ r.kind = "exchange" /\ r.code = c
    BY OtherRequest
  <1>4. Send(h, r)
    BY <1>2, <1>3 DEF EnterConnect
  <1>5. Owns(h, r) /\ Entitled(h, r)
    BY <1>1, <1>2, <1>3 DEF Owns, Entitled
  <1>6. UNCHANGED <<rows, cleanup, workers, states, connections, codes, grants>>
        /\ callbacks' \subseteq callbacks
    BY DEF EnterConnect
  <1> QED
    BY <1>4, <1>5, <1>6, StatesStay, SendShape

(* A holder that has been answered, and whose answer is not about a        *)
(* revocation, does not clean up.                                          *)
LEMMA AnsweredHolderUses ==
    ASSUME Shape,
           Answered("exchange") \/ Answered("refresh") \/ Answered("bearer")
    PROVE  /\ gate \in GateType /\ gate # None /\ gate.op # "cleanup"
           /\ gate.ins \in Installations /\ rows[gate.ins] \in Live
           /\ gate.answer = "ok" /\ ~Answered("bearer") =>
                 Granted(grants, gate.secret, gate.ins)
  BY NoneAssumption
  DEF Shape, TypeOK, Answered, HolderIsEntitled, HolderIsGranted, GateType

LEMMA FinishRefreshShape ==
    ASSUME Shape, FinishRefresh
    PROVE  Shape'
  <1>1. /\ gate \in GateType /\ gate # None /\ gate.op # "cleanup"
        /\ rows[gate.ins] \in Live
        /\ Granted(grants, gate.secret, gate.ins)
    BY AnsweredHolderUses DEF FinishRefresh, Answered
  <1>2. Save(gate.ins, "connected", gate.secret)
        /\ UNCHANGED <<rows, cleanup, states, callbacks, workers, remote>>
    BY DEF FinishRefresh
  <1>3. /\ connections' \in [Installations -> ConnectionType]
        /\ ConnectionsRefer' /\ RevokedIsGone'
    BY <1>1, <1>2, SaveShape
  <1>4. CASE Probe(gate, gate.secret)
    <2>1. Send(gate, [kind |-> "bearer", secret |-> gate.secret])
      BY <1>4 DEF Probe
    <2> QED
      BY <1>1, <1>2, <1>3, <2>1, SecretShape
  <1>5. CASE gate' = None /\ UNCHANGED calls
    <2>1. TypeOK'
      BY <1>2, <1>3, <1>5 DEF Shape, TypeOK
    <2> QED
      BY <1>2, <1>3, <1>5, <2>1, LeaveShape
  <1> QED
    BY <1>4, <1>5 DEF FinishRefresh

LEMMA FinishSavedShape ==
    ASSUME Shape, FinishDisconnected \/ FinishConnect
    PROVE  Shape'
  <1>1. /\ gate # None /\ gate.op # "cleanup"
        /\ gate' = None
        /\ UNCHANGED <<rows, cleanup, states, callbacks, workers, calls, remote>>
    BY AnsweredHolderUses DEF FinishDisconnected, FinishConnect
  <1>2. \/ /\ Save(gate.ins, "connected", gate.secret)
           /\ Granted(grants, gate.secret, gate.ins)
        \/ Save(gate.ins, "needs_connection", None)
        \/ UNCHANGED connections
    BY AnsweredHolderUses DEF FinishDisconnected, FinishConnect, Answered
  <1>3. /\ connections' \in [Installations -> ConnectionType]
        /\ ConnectionsRefer' /\ RevokedIsGone'
    BY <1>1, <1>2, SaveShape, StatesStay
  <1>4. TypeOK'
    BY <1>1, <1>3 DEF Shape, TypeOK
  <1> QED
    BY <1>1, <1>3, <1>4, LeaveShape

LEMMA FinishOtherShape ==
    ASSUME Shape, FinishActivate \/ FinishUnproved
    PROVE  Shape'
  <1>1. /\ gate # None /\ gate.ins \in Installations
        /\ rows[gate.ins] \in Live /\ gate' = None
        /\ UNCHANGED <<cleanup, platform, workers, calls, remote>>
    BY AnsweredHolderUses DEF FinishActivate, FinishUnproved
  <1>2. rows' = rows \/ rows' = [rows EXCEPT ![gate.ins] = "active"]
    BY DEF FinishActivate, FinishUnproved
  <1>3. TypeOK'
    BY <1>1, <1>2 DEF Shape, TypeOK, Live
  <1>4. ConnectionsRefer'
    BY <1>1 DEF Shape, RowsRefer, ConnectionsRefer
  <1>5. RevokedIsGone'
    BY <1>1, <1>2 DEF Shape, TypeOK, RevokedIsGone, Live
  <1> QED
    BY <1>1, <1>3, <1>4, <1>5, LeaveShape

-----------------------------------------------------------------------------
(* The cleanup *)

LEMMA WorkerStep ==
    ASSUME NEW x \in WorkerType, NEW step \in {"revoking", "failed"}
    PROVE  /\ [x EXCEPT !.step = step] \in WorkerType
           /\ [x EXCEPT !.step = step].step = step
  BY DEF WorkerType

LEMMA EnterCleanupShape ==
    ASSUME Shape, NEW w \in Workers, EnterCleanup(w)
    PROVE  Shape'
  <1>1. PICK i \in Installations :
            /\ i = workers[w].ins /\ rows[i] = "disabling"
            /\ workers[w] \in WorkerType
    BY DEF EnterCleanup, Shape, TypeOK, WorkerType
  <1>2. PICK row \in ConnectionType :
            /\ row.status = "revoked"
            /\ connections' = [connections EXCEPT ![i] = row]
    <2> DEFINE row == [status |-> "revoked", secret |-> None]
    <2>1. row \in ConnectionType
      BY DEF ConnectionType
    <2> QED
      BY <1>1, <2>1 DEF EnterCleanup, Save
  <1>3. PICK x \in WorkerType : /\ workers' = [workers EXCEPT ![w] = x]
                               /\ x.step = "revoking"
    <2>1. workers' = [workers EXCEPT ![w] =
                        [workers[w] EXCEPT !.step = "revoking"]]
      BY DEF EnterCleanup
    <2> QED
      BY <1>1, <2>1, WorkerStep
  <1>4. /\ gate' \in GateType /\ gate'.op = "cleanup" /\ gate'.ins = i
        /\ gate'.worker = w /\ gate'.call = None /\ gate'.asked = None
        /\ gate'.answer = None
    BY <1>1, EnterFields DEF EnterCleanup
  <1>5. UNCHANGED <<rows, cleanup, states, callbacks, calls, codes, grants>>
    BY DEF EnterCleanup
  <1>6. TypeOK'
    BY <1>2, <1>3, <1>4, <1>5 DEF Shape, TypeOK
  <1>7. RowsRefer'
    BY <1>1, <1>2, <1>5 DEF Shape, TypeOK, RowsRefer
  <1>8. CallsRefer'
    BY <1>5 DEF Shape, CallsRefer
  <1>9. RevokedIsGone'
    BY <1>1, <1>2, <1>5 DEF Shape, TypeOK, RevokedIsGone
  <1>10. workers'[w] = x /\ x # None /\ connections'[i].status = "revoked"
    BY <1>2, <1>3, NoneAssumption DEF Shape, TypeOK
  <1>11. HolderIsEntitled'
    BY <1>1, <1>3, <1>4, <1>5, <1>10 DEF HolderIsEntitled
  <1>12. HolderWaits' /\ HolderIsGranted'
    BY <1>4, NoneAssumption DEF HolderWaits, HolderIsGranted, Answers
  <1> QED
    BY <1>6, <1>7, <1>8, <1>9, <1>11, <1>12 DEF Shape

(* The cleanup that holds the lock                                         *)
LEMMA CleanupHolder ==
    ASSUME Shape, gate # None, gate.op = "cleanup"
    PROVE  /\ gate \in GateType /\ gate.ins \in Installations
           /\ gate.worker \in Workers /\ workers[gate.worker] \in WorkerType
           /\ workers[gate.worker] # None
           /\ workers[gate.worker].step = "revoking"
           /\ rows[gate.ins] = "disabling"
           /\ connections[gate.ins].status = "revoked"
           /\ gate.asked \in {None, "revoke"}
  BY DEF Shape, TypeOK, HolderIsEntitled, GateType

LEMMA SendRevokeShape ==
    ASSUME Shape, SendRevoke
    PROVE  Shape'
  <1>1. /\ gate \in GateType /\ gate.ins \in Installations
        /\ gate.worker \in Workers /\ workers[gate.worker] # None
        /\ workers[gate.worker].step = "revoking"
        /\ rows[gate.ins] = "disabling"
        /\ connections[gate.ins].status = "revoked"
    BY CleanupHolder DEF SendRevoke
  <1>2. PICK r \in RequestType : /\ r = [kind |-> "revoke", ins |-> gate.ins]
                                /\ r.kind = "revoke" /\ r.ins = gate.ins
    BY <1>1, OtherRequest
  <1>3. Send(gate, r)
    BY <1>2 DEF SendRevoke
  <1>4. UNCHANGED <<rows, cleanup, connections, callbacks, workers, remote>>
    BY DEF SendRevoke
  <1>5. Owns(gate, r) /\ Entitled(gate, r)
    BY <1>1, <1>2, <1>4 DEF Owns, Entitled, SendRevoke
  <1>6. \A s \in States : states[s] # None =>
            /\ states[s] \in StateType
            /\ [states[s] EXCEPT !.used = TRUE] \in StateType
    BY StateUsed DEF Shape, TypeOK
  <1>7. /\ states' \in [States -> StateType \cup {None}] /\ StatesGrow
    BY <1>6, NoneAssumption DEF SendRevoke, StatesGrow, Shape, TypeOK
  <1>8. /\ connections' \in [Installations -> ConnectionType]
        /\ ConnectionsRefer' /\ RevokedIsGone'
    BY <1>4 DEF Shape, TypeOK, RowsRefer, ConnectionsRefer, RevokedIsGone
  <1> QED
    BY <1>1, <1>3, <1>4, <1>5, <1>7, <1>8, SendShape

LEMMA FinishCleanupShape ==
    ASSUME Shape, CompleteCleanup \/ FailCleanup
    PROVE  Shape'
  <1>1. gate # None /\ gate.op = "cleanup"
    BY NoneAssumption
    DEF CompleteCleanup, FailCleanup, Answered, Shape, HolderIsEntitled
  <1>2. /\ gate.ins \in Installations /\ gate.worker \in Workers
        /\ workers[gate.worker] \in WorkerType
        /\ rows[gate.ins] = "disabling"
        /\ connections[gate.ins].status = "revoked"
    BY <1>1, CleanupHolder
  <1>3. [workers[gate.worker] EXCEPT !.step = "failed"] \in WorkerType
    BY <1>2, WorkerStep
  <1>4. /\ gate' = None
        /\ UNCHANGED <<cleanup, platform, calls, remote>>
        /\ workers' \in [Workers -> WorkerType \cup {None}]
        /\ rows' = rows \/ rows' = [rows EXCEPT ![gate.ins] = "uninstalled"]
    BY <1>3 DEF CompleteCleanup, FailCleanup, Shape, TypeOK
  <1>5. TypeOK'
    BY <1>4 DEF Shape, TypeOK
  <1>6. ConnectionsRefer'
    BY <1>4 DEF Shape, RowsRefer, ConnectionsRefer
  <1>7. RevokedIsGone'
    BY <1>2, <1>4 DEF Shape, TypeOK, RevokedIsGone
  <1> QED
    BY <1>4, <1>5, <1>6, <1>7, LeaveShape

LEMMA CrashShape ==
    ASSUME Shape, Crash
    PROVE  Shape'
  <1>1. TypeOK'
    BY DEF Crash, Shape, TypeOK
  <1>2. ConnectionsRefer' /\ RevokedIsGone'
    BY DEF Crash, Shape, RowsRefer, ConnectionsRefer, RevokedIsGone
  <1> QED
    BY <1>1, <1>2, LeaveShape DEF Crash

LEMMA GiveUpShape ==
    ASSUME Shape, GiveUp
    PROVE  Shape'
  <1>1. gate \in GateType /\ gate # None /\ gate' = Failed(gate)
        /\ UNCHANGED <<lifecycle, platform, workers, calls, remote>>
    BY DEF GiveUp, Failed, Shape, TypeOK
  <1>2. /\ gate' \in GateType
        /\ gate'.op = gate.op /\ gate'.ins = gate.ins
        /\ gate'.worker = gate.worker /\ gate'.asked = gate.asked
        /\ gate'.call = None /\ gate'.answer = "failed"
    BY <1>1, FailedHolder
  <1>3. TypeOK'
    BY <1>1, <1>2 DEF Shape, TypeOK
  <1>4. RowsRefer' /\ CallsRefer' /\ RevokedIsGone'
    BY <1>1 DEF Shape, RowsRefer, CallsRefer, RevokedIsGone
  <1>5. HolderIsEntitled'
    BY <1>1, <1>2 DEF Shape, HolderIsEntitled
  <1>6. HolderWaits' /\ HolderIsGranted'
    BY <1>2 DEF HolderWaits, HolderIsGranted
  <1> QED
    BY <1>3, <1>4, <1>5, <1>6 DEF Shape

-----------------------------------------------------------------------------
(* The remote app *)

LEMMA RefuseShape ==
    ASSUME Shape, NEW k \in Calls, RefuseExchange(k) \/ ServeProbe(k)
    PROVE  Shape'
  <1>1. PICK answer \in {"ok", "refused"} :
            /\ Answer(k, answer, None)
            /\ RefuseExchange(k) => answer = "refused"
    BY DEF RefuseExchange, ServeProbe
  <1>2. /\ calls[k] # None /\ UNCHANGED <<codes, grants>>
        /\ answer = "ok" => calls[k].kind = "bearer"
    BY <1>1 DEF RefuseExchange, ServeProbe, Requested
  <1>3. Grows
    BY <1>1, <1>2, UnchangedGrows DEF Answer
  <1>4. /\ codes' \in [Codes -> CodeType \cup {None}]
        /\ grants' \in [Grants -> GrantType \cup {None}]
    BY <1>2 DEF Shape, TypeOK
  <1> QED
    BY <1>1, <1>2, <1>3, <1>4, AnswerShape

(* The request that a refresh carries names a grant of the remote app.     *)
LEMMA RefreshedGrant ==
    ASSUME Shape, NEW k \in Calls, calls[k] # None, calls[k].kind = "refresh"
    PROVE  LET secret == calls[k].secret IN
           /\ secret \in Credential
           /\ secret.grant \in Grants /\ secret.rotation \in Nat
           /\ grants[secret.grant] \in GrantType
           /\ grants[secret.grant] # None
           /\ grants[secret.grant].rotation \in Nat
  <1>1. calls[k].secret \in Credential /\ grants[calls[k].secret.grant] # None
    BY DEF Shape, CallsRefer, Granted
  <1>2. calls[k].secret.grant \in Grants /\ calls[k].secret.rotation \in Nat
    BY <1>1 DEF Credential
  <1>3. grants[calls[k].secret.grant] \in GrantType
    BY <1>1, <1>2 DEF Shape, TypeOK
  <1> QED
    BY <1>1, <1>2, <1>3 DEF GrantType

LEMMA RotateShape ==
    ASSUME Shape, NEW k \in Calls, Rotate(k)
    PROVE  Shape'
  <1>1. PICK secret \in Credential :
            /\ secret = calls[k].secret
            /\ secret.grant \in Grants /\ secret.rotation \in Nat
            /\ grants[secret.grant] \in GrantType
            /\ grants[secret.grant] # None
            /\ grants[secret.grant].rotation = secret.rotation
            /\ calls[k] # None /\ calls[k].kind = "refresh"
    BY RefreshedGrant DEF Rotate, Requested, Valid
  <1>2. PICK g \in Grants : g = secret.grant
    BY <1>1
  <1>3. PICK new \in GrantType :
            /\ new.ins = grants[g].ins
            /\ new.rotation = secret.rotation + 1
            /\ grants' = [grants EXCEPT ![g] = new]
    <2> DEFINE next == secret.rotation + 1
               new == [grants[g] EXCEPT !.rotation = next]
    <2>1. grants' = [grants EXCEPT ![g] = new]
      BY <1>1, <1>2 DEF Rotate
    <2>2. next \in Nat
      BY <1>1
    <2> HIDE DEF next
    <2>3. new \in GrantType /\ new.ins = grants[g].ins /\ new.rotation = next
      BY <1>1, <1>2, <2>2 DEF GrantType
    <2> HIDE DEF new
    <2> QED
      BY <2>1, <2>3 DEF next
  <1>4. PICK next \in Credential :
            /\ Answer(k, "ok", next)
            /\ next.grant = g /\ next.rotation = secret.rotation + 1
    <2> DEFINE next == [secret EXCEPT !.rotation = secret.rotation + 1]
    <2>1. secret.rotation + 1 \in Nat
      BY <1>1
    <2>2. next \in Credential /\ next.grant = secret.grant
          /\ next.rotation = secret.rotation + 1
      BY <2>1 DEF Credential
    <2>3. Answer(k, "ok", next)
      BY <1>1 DEF Rotate
    <2> QED
      BY <1>2, <2>2, <2>3
  <1>5. grants' \in [Grants -> GrantType \cup {None}] /\ GrantsGrow
    <2>1. grants[g].rotation <= new.rotation
      BY <1>1, <1>2, <1>3
    <2> QED
      BY <1>1, <1>2, <1>3, <2>1, GrantGrows
  <1>6. UNCHANGED <<states, codes>>
    BY <1>4 DEF Rotate, Answer
  <1>7. Grows
    BY <1>5, <1>6 DEF Grows, StatesGrow, CodesGrow
  <1>8. grants'[g] = new /\ new # None
    BY <1>3, NoneAssumption DEF Shape, TypeOK
  <1>9. \A i \in Installations :
            Granted(grants, secret, i) => Granted(grants', next, i)
    BY <1>1, <1>2, <1>3, <1>4, <1>8 DEF Granted
  <1>10. codes' \in [Codes -> CodeType \cup {None}]
    BY <1>6 DEF Shape, TypeOK
  <1> QED
    BY <1>1, <1>4, <1>5, <1>6, <1>7, <1>9, <1>10, AnswerShape

LEMMA RefuseRefreshShape ==
    ASSUME Shape, NEW k \in Calls, RefuseRefresh(k)
    PROVE  Shape'
  <1>1. PICK g \in Grants :
            /\ g = calls[k].secret.grant
            /\ grants[g] \in GrantType /\ grants[g] # None
            /\ grants[g].rotation \in Nat /\ calls[k] # None
    BY RefreshedGrant DEF RefuseRefresh, Requested
  <1>2. PICK new \in GrantType :
            /\ new.ins = grants[g].ins /\ new.rotation = grants[g].rotation
            /\ grants' = [grants EXCEPT ![g] = new]
    <2>1. PICK b \in BOOLEAN :
              b = (grants[g].live /\ grants[g].rotation
                                        = calls[k].secret.rotation)
      OBVIOUS
    <2> DEFINE new == [grants[g] EXCEPT !.live = b]
    <2>2. grants' = [grants EXCEPT ![g] = new]
      BY <1>1, <2>1 DEF RefuseRefresh
    <2>3. new \in GrantType /\ new.ins = grants[g].ins
          /\ new.rotation = grants[g].rotation
      BY <1>1 DEF GrantType
    <2> HIDE DEF new
    <2> QED
      BY <2>2, <2>3
  <1>3. grants' \in [Grants -> GrantType \cup {None}] /\ GrantsGrow
    <2>1. grants[g].rotation <= new.rotation
      BY <1>1, <1>2
    <2> QED
      BY <1>1, <1>2, <2>1, GrantGrows
  <1>4. Answer(k, "refused", None) /\ UNCHANGED <<states, codes>>
    BY DEF RefuseRefresh, Answer
  <1>5. Grows
    BY <1>3, <1>4 DEF Grows, StatesGrow, CodesGrow
  <1>6. codes' \in [Codes -> CodeType \cup {None}]
    BY <1>4 DEF Shape, TypeOK
  <1> QED
    BY <1>1, <1>3, <1>4, <1>5, <1>6, AnswerShape

(* Ending the grants of an installation keeps every one of them on record. *)
LEMMA KilledGrants ==
    ASSUME Shape, NEW i
    PROVE  /\ KillGrants(i) \in [Grants -> GrantType \cup {None}]
           /\ \A g \in Grants :
                 /\ KillGrants(i)[g] = None <=> grants[g] = None
                 /\ grants[g] # None =>
                       /\ KillGrants(i)[g].ins = grants[g].ins
                       /\ KillGrants(i)[g].rotation = grants[g].rotation
                       /\ KillGrants(i)[g].live =>
                             grants[g].live /\ grants[g].ins # i
  <1>1. ASSUME NEW g \in Grants, grants[g] # None
        PROVE  /\ grants[g] \in GrantType
               /\ [grants[g] EXCEPT !.live = FALSE] \in GrantType
               /\ [grants[g] EXCEPT !.live = FALSE] # None
               /\ [grants[g] EXCEPT !.live = FALSE].ins = grants[g].ins
               /\ [grants[g] EXCEPT !.live = FALSE].rotation
                     = grants[g].rotation
               /\ [grants[g] EXCEPT !.live = FALSE].live = FALSE
    <2>1. grants[g] \in GrantType
      BY <1>1 DEF Shape, TypeOK
    <2>2. [grants[g] EXCEPT !.live = FALSE] \in GrantType
      BY <2>1 DEF GrantType
    <2> QED
      BY <2>1, <2>2, NoneAssumption DEF GrantType
  <1> QED
    BY <1>1 DEF KillGrants

LEMMA RotationsAreNumbers ==
    ASSUME Shape, NEW g \in Grants, grants[g] # None
    PROVE  grants[g] \in GrantType /\ grants[g].rotation \in Nat
  BY DEF Shape, TypeOK, GrantType

(* A revocation uses up every code of the installation.                    *)
LEMMA RevokedCodes ==
    ASSUME Shape, NEW i,
           codes' = [c \in Codes |-> IF codes[c] # None /\ codes[c].ins = i
                                    THEN [codes[c] EXCEPT !.used = TRUE]
                                    ELSE codes[c]]
    PROVE  /\ codes' \in [Codes -> CodeType \cup {None}]
           /\ CodesGrow
           /\ \A c \in Codes :
                 /\ codes[c] = None => codes'[c] = None
                 /\ codes'[c] # None /\ codes'[c].ins = i => codes'[c].used
  <1>1. ASSUME NEW c \in Codes, codes[c] # None
        PROVE  /\ codes[c] \in CodeType
               /\ [codes[c] EXCEPT !.used = TRUE] \in CodeType
               /\ [codes[c] EXCEPT !.used = TRUE].state = codes[c].state
               /\ [codes[c] EXCEPT !.used = TRUE].ins = codes[c].ins
               /\ [codes[c] EXCEPT !.used = TRUE].used = TRUE
    <2>1. codes[c] \in CodeType
      BY <1>1 DEF Shape, TypeOK
    <2> QED
      BY <2>1, CodeFields
  <1>2. codes' \in [Codes -> CodeType \cup {None}]
    BY <1>1
  <1> QED
    BY <1>1, <1>2, NoneAssumption DEF CodesGrow

LEMMA RevokeShape ==
    ASSUME Shape, NEW k \in Calls, Revoke(k)
    PROVE  Shape'
  <1>1. PICK i : i = calls[k].ins
    OBVIOUS
  <1>2. /\ calls[k] # None /\ calls[k].kind = "revoke"
        /\ grants' = KillGrants(i)
        /\ Answer(k, "ok", None) /\ UNCHANGED states
        /\ codes' = [c \in Codes |-> IF codes[c] # None /\ codes[c].ins = i
                                     THEN [codes[c] EXCEPT !.used = TRUE]
                                     ELSE codes[c]]
    BY <1>1 DEF Revoke, Requested, Answer
  <1>3. grants' \in [Grants -> GrantType \cup {None}] /\ GrantsGrow
    BY <1>2, KilledGrants, RotationsAreNumbers DEF GrantsGrow
  <1>4. /\ codes' \in [Codes -> CodeType \cup {None}] /\ CodesGrow
        /\ \A c \in Codes : codes[c] = None => codes'[c] = None
    BY <1>2, RevokedCodes
  <1>5. Grows
    BY <1>2, <1>3, <1>4 DEF Grows, StatesGrow
  <1> QED
    BY <1>2, <1>3, <1>4, <1>5, AnswerShape

(* What an exchange does, with the code and the grant it is about          *)
Exchanged(k, c, g) ==
    /\ c = calls[k].code /\ calls[k] # None /\ calls[k].kind = "exchange"
    /\ codes[c] \in CodeType /\ codes[c] # None /\ ~codes[c].used
    /\ \E used \in CodeType :
          /\ used.state = codes[c].state /\ used.ins = codes[c].ins
          /\ used.used
          /\ codes' = [codes EXCEPT ![c] = used]
    /\ grants[g] = None
    /\ \E new \in GrantType :
          /\ new.ins = codes[c].ins /\ new.rotation = 0 /\ new.live
          /\ grants' = [KillGrants(codes[c].ins) EXCEPT ![g] = new]
    /\ \E secret \in Credential :
          /\ secret.grant = g /\ secret.rotation = 0
          /\ Answer(k, "ok", secret)

LEMMA ExchangeIs ==
    ASSUME Shape, NEW k \in Calls, Exchange(k)
    PROVE  \E c \in Codes, g \in Grants : Exchanged(k, c, g)
  <1>1. PICK c \in Codes : /\ c = calls[k].code /\ calls[k] # None
                          /\ calls[k].kind = "exchange"
                          /\ codes[c] \in CodeType /\ codes[c] # None
                          /\ ~codes[c].used
    <2>1. calls[k] # None /\ calls[k] \in RequestType
          /\ calls[k].kind = "exchange"
      BY DEF Exchange, Requested, Shape, TypeOK
    <2>2. calls[k].code \in Codes /\ codes[calls[k].code] # None
      BY <2>1, RequestFields DEF Shape, CallsRefer
    <2>3. codes[calls[k].code] \in CodeType
      BY <2>2 DEF Shape, TypeOK
    <2> QED
      BY <2>1, <2>2, <2>3 DEF Exchange
  <1>2. PICK used \in CodeType :
          /\ used.state = codes[c].state /\ used.ins = codes[c].ins
          /\ used.used
          /\ codes' = [codes EXCEPT ![c] = used]
    <2>1. codes' = [codes EXCEPT ![c] = [codes[c] EXCEPT !.used = TRUE]]
      BY <1>1 DEF Exchange
    <2> QED
      BY <1>1, <2>1, CodeFields
  <1>3. PICK g \in Grants :
          /\ grants[g] = None
          /\ grants' = [KillGrants(codes[c].ins) EXCEPT ![g] =
                [ins |-> codes[c].ins, rotation |-> 0, live |-> TRUE]]
          /\ Answer(k, "ok", [grant |-> g, rotation |-> 0])
    BY <1>1 DEF Exchange
  <1>4. PICK new \in GrantType :
          /\ new.ins = codes[c].ins /\ new.rotation = 0 /\ new.live
          /\ grants' = [KillGrants(codes[c].ins) EXCEPT ![g] = new]
    <2> DEFINE new == [ins |-> codes[c].ins, rotation |-> 0, live |-> TRUE]
    <2>1. new \in GrantType /\ new.ins = codes[c].ins /\ new.rotation = 0
          /\ new.live
      BY <1>1 DEF GrantType, CodeType
    <2>2. grants' = [KillGrants(codes[c].ins) EXCEPT ![g] = new]
      BY <1>3
    <2> HIDE DEF new
    <2> QED
      BY <2>1, <2>2
  <1>5. PICK secret \in Credential :
          /\ secret.grant = g /\ secret.rotation = 0
          /\ Answer(k, "ok", secret)
    <2> DEFINE secret == [grant |-> g, rotation |-> 0]
    <2>1. secret \in Credential /\ secret.grant = g /\ secret.rotation = 0
      BY DEF Credential
    <2>2. Answer(k, "ok", secret)
      BY <1>3
    <2> HIDE DEF secret
    <2> QED
      BY <2>1, <2>2
  <1> QED
    BY <1>1, <1>2, <1>3, <1>4, <1>5 DEF Exchanged

LEMMA ExchangeShape ==
    ASSUME Shape, NEW k \in Calls, Exchange(k)
    PROVE  Shape'
  <1>1. PICK c \in Codes, g \in Grants : Exchanged(k, c, g)
    BY ExchangeIs
  <1>2. PICK used \in CodeType :
          /\ used.state = codes[c].state /\ used.ins = codes[c].ins
          /\ codes' = [codes EXCEPT ![c] = used]
          /\ codes[c] # None /\ ~codes[c].used
    BY <1>1 DEF Exchanged
  <1>3. PICK new \in GrantType :
          /\ new.ins = codes[c].ins /\ new.rotation = 0
          /\ grants' = [KillGrants(codes[c].ins) EXCEPT ![g] = new]
          /\ grants[g] = None
    BY <1>1 DEF Exchanged
  <1>4. PICK secret \in Credential :
          /\ secret.grant = g /\ secret.rotation = 0
          /\ Answer(k, "ok", secret)
    BY <1>1 DEF Exchanged
  <1>5. codes' \in [Codes -> CodeType \cup {None}] /\ CodesGrow
        /\ \A d \in Codes : codes[d] = None => codes'[d] = None
    BY <1>2, CodeGrows
  <1>6. \A h \in Grants \ {g} : grants'[h] = KillGrants(codes[c].ins)[h]
    BY <1>3, KilledGrants
  <1>7. grants'[g] = new /\ new # None
        /\ grants' \in [Grants -> GrantType \cup {None}]
    BY <1>3, KilledGrants, NoneAssumption
  <1>8. GrantsGrow
    BY <1>3, <1>6, KilledGrants, RotationsAreNumbers DEF GrantsGrow
  <1>9. Grows
    BY <1>4, <1>5, <1>8 DEF Grows, StatesGrow, Answer
  <1>10. Granted(grants', secret, codes[calls[k].code].ins)
    BY <1>1, <1>3, <1>4, <1>7 DEF Exchanged, Granted
  <1>11. calls[k] # None /\ calls[k].kind = "exchange"
    BY <1>1 DEF Exchanged
  <1> QED
    BY <1>4, <1>5, <1>7, <1>9, <1>10, <1>11, AnswerShape

LEMMA NextShape ==
    ASSUME Shape, [Next]_vars
    PROVE  Shape'
  <1>1. CASE \E i \in Installations :
                \/ Install(i) \/ Uninstall(i)
                \/ BeginActivate(i) \/ BeginAccess(i)
                \/ BackoffEnds(i) \/ Recover(i)
                \/ \E w \in Workers : ListCleanup(w, i)
    BY <1>1, LifecycleShape, UseShape, WorkerShape
  <1>2. CASE Browser
    BY <1>2, ConnectShape, BurnShape, EnterConnectShape, DropShape DEF Browser
  <1>3. CASE \E c \in Codes :
                \/ \E s \in States : Authorize(c, s)
                \/ Approve(c) \/ CodeExpires(c)
    BY <1>3, AuthorizeShape, CodeShape
  <1>4. CASE \/ \E s \in States : StateExpires(s)
             \/ \E g \in Grants : GrantExpires(g)
    BY <1>4, BurnShape, GrantExpiresShape
  <1>5. CASE \E w \in Workers :
                EnterCleanup(w) \/ SkipCleanup(w) \/ RecordFailure(w)
    BY <1>5, EnterCleanupShape, WorkerShape
  <1>6. CASE Finish \/ SendRevoke \/ FinishCleanup
    BY <1>6, FinishRefreshShape, FinishSavedShape, FinishOtherShape,
       SendRevokeShape, FinishCleanupShape DEF Finish, FinishCleanup
  <1>7. CASE \E k \in Calls : Serve(k) \/ Lose(k)
    BY <1>7, ExchangeShape, RefuseShape, RotateShape, RefuseRefreshShape,
       RevokeShape, DropShape DEF Serve
  <1>8. CASE GiveUp \/ Crash
    BY <1>8, GiveUpShape, CrashShape
  <1>9. CASE UNCHANGED vars
    BY <1>9
    DEF vars, Shape, TypeOK, RowsRefer, CallsRefer, RevokedIsGone,
        HolderIsEntitled, HolderWaits, HolderIsGranted
  <1> QED
    BY <1>1, <1>2, <1>3, <1>4, <1>5, <1>6, <1>7, <1>8, <1>9 DEF Next

LEMMA ShapeAlways == Spec => []Shape
  BY ShapeInit, NextShape, PTL DEF Spec

(* States, credentials, codes, grants, the lock and every request under    *)
(* way always have the shape of their tables.                              *)
THEOREM TypeCorrect == Spec => []TypeOK
  <1>1. Shape => TypeOK
    BY DEF Shape
  <1> QED
    BY <1>1, ShapeAlways, PTL

-----------------------------------------------------------------------------
(* One grant family *)

(* The steps that change a table of the remote app                         *)
LEMMA RemoteSteps ==
    ASSUME Shape, [Next]_vars
    PROVE  \/ UNCHANGED <<codes, grants>>
           \/ UNCHANGED grants /\ \E c \in Codes :
                 \/ \E s \in States : Authorize(c, s)
                 \/ Approve(c) \/ CodeExpires(c)
           \/ \E g \in Grants : GrantExpires(g)
           \/ \E k \in Calls :
                 Exchange(k) \/ Rotate(k) \/ RefuseRefresh(k) \/ Revoke(k)
  BY DEF Next, vars, Browser, Finish, FinishCleanup, Serve, Recover, Install,
     Uninstall, BeginActivate, BeginAccess, BackoffEnds, RequestCleanup,
     RetryCleanup, ListCleanup, BeginConnect, Consume, EnterConnect,
     DropCallback, Authorize, Approve, CodeExpires, StateExpires,
     EnterCleanup, SkipCleanup, RecordFailure, FinishRefresh,
     FinishDisconnected, FinishActivate, FinishUnproved, FinishConnect,
     SendRevoke, CompleteCleanup, FailCleanup, RefuseExchange, ServeProbe,
     Lose, GiveUp, Crash

(* No step but an exchange makes a grant that is alive.                    *)
LiveShrinks ==
    \A g \in Grants : grants'[g] # None /\ grants'[g].live =>
        /\ grants[g] # None /\ grants[g].live
        /\ grants'[g].ins = grants[g].ins

LEMMA OnlyExchangeGrants ==
    ASSUME Shape, [Next]_vars, ~\E k \in Calls : Exchange(k)
    PROVE  LiveShrinks
  <1>1. CASE UNCHANGED grants
    BY <1>1 DEF LiveShrinks
  <1>2. ASSUME NEW g \in Grants, GrantExpires(g) PROVE LiveShrinks
    <2>1. grants[g] \in GrantType
      BY <1>2 DEF GrantExpires, Shape, TypeOK
    <2>2. [grants[g] EXCEPT !.live = FALSE].live = FALSE
      BY <2>1 DEF GrantType
    <2> QED
      BY <1>2, <2>2 DEF GrantExpires, LiveShrinks, Shape, TypeOK
  <1>3. ASSUME NEW k \in Calls, Rotate(k) PROVE LiveShrinks
    <2>1. PICK g \in Grants :
              /\ g = calls[k].secret.grant
              /\ grants[g] \in GrantType /\ grants[g] # None
      BY <1>3, RefreshedGrant DEF Rotate, Requested
    <2> DEFINE new == [grants[g] EXCEPT !.rotation = grants[g].rotation + 1]
    <2>2. grants' = [grants EXCEPT ![g] = new]
      BY <1>3, <2>1 DEF Rotate
    <2>3. new.live = grants[g].live /\ new.ins = grants[g].ins
      BY <2>1 DEF GrantType
    <2> HIDE DEF new
    <2> QED
      BY <2>1, <2>2, <2>3 DEF LiveShrinks, Shape, TypeOK
  <1>4. ASSUME NEW k \in Calls, RefuseRefresh(k) PROVE LiveShrinks
    <2>1. PICK g \in Grants :
              /\ g = calls[k].secret.grant
              /\ grants[g] \in GrantType /\ grants[g] # None
      BY <1>4, RefreshedGrant DEF RefuseRefresh, Requested
    <2> DEFINE b == grants[g].live /\ grants[g].rotation
                                         = calls[k].secret.rotation
               new == [grants[g] EXCEPT !.live = b]
    <2>2. grants' = [grants EXCEPT ![g] = new]
      BY <1>4, <2>1 DEF RefuseRefresh
    <2>3. new.live = b /\ new.ins = grants[g].ins
      BY <2>1 DEF GrantType
    <2> HIDE DEF new
    <2> QED
      BY <2>1, <2>2, <2>3 DEF LiveShrinks, Shape, TypeOK
  <1>5. ASSUME NEW k \in Calls, Revoke(k) PROVE LiveShrinks
    <2>1. PICK i : i = calls[k].ins /\ grants' = KillGrants(i)
      BY <1>5 DEF Revoke
    <2> QED
      BY <2>1, KilledGrants DEF LiveShrinks
  <1> QED
    BY <1>1, <1>2, <1>3, <1>4, <1>5, RemoteSteps

(* An exchange leaves one grant of its installation alive.                 *)
LEMMA ExchangeGrants ==
    ASSUME Shape, NEW k \in Calls, NEW c \in Codes, NEW g \in Grants,
           Exchanged(k, c, g)
    PROVE  /\ grants'[g].ins = codes[c].ins
           /\ \A h \in Grants \ {g} : grants'[h] # None /\ grants'[h].live =>
                 /\ grants[h] # None /\ grants[h].live
                 /\ grants'[h].ins = grants[h].ins
                 /\ grants'[h].ins # codes[c].ins
  <1>1. PICK new \in GrantType :
          /\ new.ins = codes[c].ins
          /\ grants' = [KillGrants(codes[c].ins) EXCEPT ![g] = new]
    BY DEF Exchanged
  <1>2. \A h \in Grants \ {g} : grants'[h] = KillGrants(codes[c].ins)[h]
    BY <1>1, KilledGrants
  <1>3. grants'[g] = new
    BY <1>1, KilledGrants
  <1> QED
    BY <1>1, <1>2, <1>3, KilledGrants

LEMMA NextOneLive ==
    ASSUME Shape, OneLive, [Next]_vars
    PROVE  OneLive'
  <1>1. CASE LiveShrinks
    BY <1>1 DEF OneLive, LiveShrinks, LiveGrants
  <1>2. ASSUME NEW k \in Calls, Exchange(k) PROVE OneLive'
    <2>1. PICK c \in Codes, g \in Grants : Exchanged(k, c, g)
      BY <1>2, ExchangeIs
    <2> QED
      BY <2>1, ExchangeGrants DEF OneLive, LiveGrants
  <1> QED
    BY <1>1, <1>2, OnlyExchangeGrants

-----------------------------------------------------------------------------
(* What a revocation has cut off stays cut off *)

LEMMA NextCodesGrow ==
    ASSUME Shape, [Next]_vars
    PROVE  CodesGrow
  <1>1. CASE UNCHANGED codes
    BY <1>1 DEF CodesGrow
  <1>2. ASSUME NEW c \in Codes, NEW s \in States, Authorize(c, s)
        PROVE  CodesGrow
    BY <1>2 DEF Authorize, CodesGrow, Shape, TypeOK
  <1>3. ASSUME NEW k \in Calls, Exchange(k) PROVE CodesGrow
    <2>1. PICK c \in Codes, g \in Grants : Exchanged(k, c, g)
      BY <1>3, ExchangeIs
    <2>2. PICK used \in CodeType :
            /\ used.state = codes[c].state /\ used.ins = codes[c].ins
            /\ codes' = [codes EXCEPT ![c] = used]
            /\ codes[c] # None /\ ~codes[c].used
      BY <2>1 DEF Exchanged
    <2> QED
      BY <2>2, CodeGrows
  <1>4. ASSUME NEW k \in Calls, Revoke(k) PROVE CodesGrow
    BY <1>4, RevokedCodes DEF Revoke
  <1> QED
    BY <1>1, <1>2, <1>3, <1>4, CodeChanges, RemoteSteps
    DEF GrantExpires, Rotate, RefuseRefresh

(* A request to exchange a code is sent for an installation that is live.  *)
LEMMA NewExchanges ==
    ASSUME Shape, [Next]_vars, NEW k \in Calls,
           calls'[k] # None, calls'[k].kind = "exchange"
    PROVE  \/ calls'[k] = calls[k]
           \/ /\ calls'[k].code \in Codes /\ codes[calls'[k].code] # None
              /\ rows[codes[calls'[k].code].ins] \in Live
  <1>1. ASSUME NEW j, calls' = [calls EXCEPT ![j] = None]
        PROVE  calls'[k] = calls[k]
    BY <1>1 DEF Shape, TypeOK
  <1>2. ASSUME NEW h, NEW r, Send(h, r), r.kind # "exchange"
        PROVE  calls'[k] = calls[k]
    BY <1>2 DEF Send, Shape, TypeOK
  <1>3. ASSUME NEW h, Refresh(h) \/ \E secret : Probe(h, secret)
        PROVE  calls'[k] = calls[k]
    BY <1>2, <1>3 DEF Refresh, Probe
  <1>4. ASSUME NEW c \in Codes, EnterConnect(c)
        PROVE  \/ calls'[k] = calls[k]
               \/ /\ calls'[k].code \in Codes /\ codes[calls'[k].code] # None
                  /\ rows[codes[calls'[k].code].ins] \in Live
    <2>1. codes[c] # None /\ rows[codes[c].ins] \in Live
      BY <1>4 DEF EnterConnect, Attached, Shape, RowsRefer
    <2>2. PICK r \in RequestType :
              r = [kind |-> "exchange", code |-> c] /\ r.code = c
      BY OtherRequest
    <2>3. PICK j \in Calls : calls' = [calls EXCEPT ![j] = r]
      BY <1>4, <2>2 DEF EnterConnect, Send
    <2> QED
      BY <2>1, <2>2, <2>3 DEF Shape, TypeOK
  <1>5. CASE UNCHANGED calls
    BY <1>5
  <1>6. ASSUME NEW j \in Calls, Serve(j) \/ Lose(j)
        PROVE  calls'[k] = calls[k]
    BY <1>1, <1>6 DEF Serve, Exchange, RefuseExchange, Rotate, RefuseRefresh,
       ServeProbe, Revoke, Answer, Lose
  <1>7. CASE SendRevoke
    <2>1. [kind |-> "revoke", ins |-> gate.ins].kind # "exchange"
      OBVIOUS
    <2> QED
      BY <1>2, <1>7, <2>1 DEF SendRevoke
  <1>8. ASSUME NEW i \in Installations, BeginActivate(i) \/ BeginAccess(i)
        PROVE  calls'[k] = calls[k]
    BY <1>3, <1>8 DEF BeginActivate, BeginAccess
  <1>9. CASE FinishRefresh
    BY <1>3, <1>9 DEF FinishRefresh
  <1> QED
    BY <1>4, <1>5, <1>6, <1>7, <1>8, <1>9
    DEF Next, vars, Browser, Finish, FinishCleanup, Recover, Install,
     Uninstall, BackoffEnds, RequestCleanup, RetryCleanup, ListCleanup,
     BeginConnect, Consume, DropCallback, Authorize, Approve, CodeExpires,
     StateExpires, GrantExpires, EnterCleanup, SkipCleanup, RecordFailure,
     FinishDisconnected, FinishActivate, FinishUnproved, FinishConnect,
     CompleteCleanup, FailCleanup, GiveUp, Crash

LEMMA CutStays ==
    ASSUME Shape, [Next]_vars, NEW i \in Installations, Cut(i),
           rows[i] \notin Live
    PROVE  Cut(i)'
  <1>1. LiveGrants(i)' = {}
    <2>1. CASE LiveShrinks
      BY <2>1 DEF Cut, LiveShrinks, LiveGrants
    <2>2. ASSUME NEW k \in Calls, Exchange(k) PROVE LiveGrants(i)' = {}
      <3>1. PICK c \in Codes, g \in Grants : Exchanged(k, c, g)
        BY <2>2, ExchangeIs
      <3>2. codes[c].ins # i
        BY <3>1 DEF Exchanged, Cut
      <3> QED
        BY <3>1, <3>2, ExchangeGrants DEF Cut, LiveGrants
    <2> QED
      BY <2>1, <2>2, OnlyExchangeGrants
  <1>2. ASSUME NEW k \in Calls, calls'[k] # None, calls'[k].kind = "exchange",
               codes'[calls'[k].code].ins = i
        PROVE  codes'[calls'[k].code].used
    <2>1. /\ calls'[k].code \in Codes /\ codes[calls'[k].code] # None
          /\ codes[calls'[k].code].ins = i => calls'[k] = calls[k]
      <3>1. CASE calls'[k] = calls[k]
        <4>1. calls[k] \in RequestType
          BY <1>2, <3>1 DEF Shape, TypeOK
        <4> QED
          BY <1>2, <3>1, <4>1, RequestFields DEF Shape, CallsRefer
      <3>2. CASE calls'[k] # calls[k]
        BY <1>2, <3>2, NewExchanges
      <3> QED
        BY <3>1, <3>2
    <2>2. codes[calls'[k].code].ins = i
      BY <1>2, <2>1, NextCodesGrow DEF CodesGrow
    <2>3. codes[calls'[k].code].used
      BY <1>2, <2>1, <2>2 DEF Cut
    <2> QED
      BY <2>1, <2>3, NextCodesGrow DEF CodesGrow
  <1> QED
    BY <1>1, <1>2 DEF Cut

(* An acknowledged revocation was made for the installation of the holder. *)
LEMMA RevokeCuts ==
    ASSUME Shape, NEW k \in Calls, Revoke(k), gate # None, gate.call = k,
           NEW i \in Installations, i = gate.ins
    PROVE  Cut(i)'
  <1>1. calls[k] # None /\ calls[k].kind = "revoke" /\ calls[k].ins = i
    BY NoneAssumption DEF Revoke, Requested, Shape, HolderWaits
  <1>2. grants' = KillGrants(i)
        /\ calls' = [calls EXCEPT ![k] = None]
        /\ codes' = [c \in Codes |-> IF codes[c] # None /\ codes[c].ins = i
                                     THEN [codes[c] EXCEPT !.used = TRUE]
                                     ELSE codes[c]]
    BY <1>1 DEF Revoke, Answer
  <1>3. LiveGrants(i)' = {}
    BY <1>2, KilledGrants DEF LiveGrants
  <1>4. CodesGrow /\ \A c \in Codes :
            codes'[c] # None /\ codes'[c].ins = i => codes'[c].used
    BY <1>2, RevokedCodes
  <1>5. ASSUME NEW j \in Calls, calls'[j] # None, calls'[j].kind = "exchange"
        PROVE  calls'[j].code \in Codes /\ codes'[calls'[j].code] # None
    <2>1. calls'[j] = calls[j] /\ calls[j] \in RequestType
      BY <1>2, <1>5 DEF Shape, TypeOK
    <2> QED
      BY <1>4, <1>5, <2>1, RequestFields DEF Shape, CallsRefer, CodesGrow
  <1> QED
    BY <1>3, <1>4, <1>5 DEF Cut

(* Who holds an acknowledged revocation held it before, or is told of it   *)
(* now by the remote app.                                                  *)
LEMMA RevocationAnswers ==
    ASSUME Shape, [Next]_vars, gate' # None, gate'.asked = "revoke",
           gate'.answer = "ok"
    PROVE  \/ gate' = gate
           \/ /\ gate # None /\ gate'.ins = gate.ins
              /\ \E k \in Calls : Revoke(k) /\ gate.call = k
  <1>1. CASE gate' = gate
    BY <1>1
  <1>2. ASSUME NEW k \in Calls, NEW answer, NEW secret,
               Answer(k, answer, secret), gate' # gate
        PROVE  /\ gate # None /\ gate.call = k /\ gate \in GateType
               /\ gate' = Told(gate, answer, secret)
    BY <1>2 DEF Answer, Told, Shape, TypeOK
  <1>3. ASSUME NEW k \in Calls, calls[k] # None, calls[k].kind # "revoke",
               NEW answer \in {"ok", "refused"},
               NEW secret \in Credential \cup {None},
               Answer(k, answer, secret), gate' # gate
        PROVE  FALSE
    <2>1. /\ gate # None /\ gate.call = k /\ gate \in GateType
          /\ gate' = Told(gate, answer, secret)
      BY <1>2, <1>3
    <2>2. gate.asked # "revoke"
      BY <1>3, <2>1, NoneAssumption DEF Shape, HolderWaits
    <2>3. gate'.asked = gate.asked
      BY <2>1, AnsweredHolder DEF Answers
    <2> QED
      BY <2>2, <2>3
  <1>4. ASSUME NEW k \in Calls, Serve(k), ~Revoke(k), gate' # gate
        PROVE  FALSE
    <2>1. CASE Exchange(k)
      <3>1. PICK c \in Codes, g \in Grants : Exchanged(k, c, g)
        BY <2>1, ExchangeIs
      <3> QED
        BY <1>3, <1>4, <3>1 DEF Exchanged
    <2>2. CASE RefuseExchange(k) \/ ServeProbe(k) \/ RefuseRefresh(k)
      BY <1>3, <1>4, <2>2
      DEF RefuseExchange, ServeProbe, RefuseRefresh, Requested
    <2>3. CASE Rotate(k)
      <3>1. /\ calls[k] # None /\ calls[k].kind = "refresh"
            /\ calls[k].secret \in Credential
        BY <2>3, RefreshedGrant DEF Rotate, Requested
      <3> DEFINE next == calls[k].secret.rotation + 1
                 secret == [calls[k].secret EXCEPT !.rotation = next]
      <3>2. next \in Nat
        BY <3>1 DEF Credential
      <3>3. Answer(k, "ok", secret)
        BY <2>3 DEF Rotate
      <3> HIDE DEF next
      <3>4. secret \in Credential
        BY <3>1, <3>2 DEF Credential
      <3> HIDE DEF secret
      <3> QED
        BY <1>3, <1>4, <3>1, <3>3, <3>4
    <2> QED
      BY <1>4, <2>1, <2>2, <2>3 DEF Serve
  <1>5. ASSUME NEW k \in Calls, Revoke(k), gate' # gate
        PROVE  gate # None /\ gate'.ins = gate.ins /\ gate.call = k
    <2>1. /\ gate # None /\ gate.call = k /\ gate \in GateType
          /\ gate' = Told(gate, "ok", None)
      BY <1>2, <1>5 DEF Revoke
    <2> QED
      BY <2>1, AnsweredHolder DEF Answers
  <1>6. ASSUME NEW h \in GateType, NEW r \in RequestType, Send(h, r)
        PROVE  FALSE
    <2>1. PICK k \in Calls : gate' = Sent(h, k, r.kind)
      BY <1>6 DEF Send, Sent
    <2>2. gate'.answer = None
      BY <2>1, RequestFields, SentHolder
    <2> QED
      BY <2>2, NoneAssumption DEF Answers
  <1>7. ASSUME NEW h \in GateType, NEW secret \in Credential,
               NEW kind \in {"refresh", "bearer"},
               Send(h, [kind |-> kind, secret |-> secret])
        PROVE  FALSE
    BY <1>6, <1>7, SecretRequest
  <1>8. ASSUME NEW i \in Installations, BeginActivate(i) \/ BeginAccess(i)
        PROVE  FALSE
    <2>1. PICK op \in {"activate", "access"} :
            /\ \/ Refresh(Enter(op, i, None))
               \/ Probe(Enter(op, i, None), connections[i].secret)
            /\ connections[i].status = "connected"
      BY <1>8 DEF BeginActivate, BeginAccess
    <2>2. PICK h \in GateType : h = Enter(op, i, None) /\ h.ins = i
      BY EnterFields
    <2>3. connections[i].secret \in Credential
      BY <2>1 DEF Shape, RowsRefer, Granted
    <2> QED
      BY <1>7, <2>1, <2>2, <2>3 DEF Refresh, Probe
  <1>9. ASSUME NEW c \in Codes, EnterConnect(c) PROVE FALSE
    <2>1. codes[c].ins \in Installations
      BY <1>9 DEF EnterConnect, Shape, TypeOK, RowsRefer, CodeType
    <2>2. PICK h \in GateType : h = Enter("connect", codes[c].ins, None)
      BY <2>1, EnterFields
    <2> QED
      BY <1>6, <1>9, <2>2, OtherRequest DEF EnterConnect
  <1>10. ASSUME FinishRefresh, gate' # None PROVE FALSE
    <2>1. gate \in GateType /\ gate.secret \in Credential
      BY <1>10, AnsweredHolderUses DEF FinishRefresh, Answered, Granted
    <2>2. Probe(gate, gate.secret)
      BY <1>10 DEF FinishRefresh
    <2> QED
      BY <1>7, <2>1, <2>2 DEF Probe
  <1>11. ASSUME SendRevoke PROVE FALSE
    <2>1. gate \in GateType /\ gate.ins \in Installations
      BY <1>11, CleanupHolder DEF SendRevoke
    <2> QED
      BY <1>6, <1>11, <2>1, OtherRequest DEF SendRevoke
  <1>12. ASSUME NEW w \in Workers, EnterCleanup(w) PROVE FALSE
    BY <1>12, NoneAssumption DEF EnterCleanup, Enter, Answers
  <1>13. ASSUME GiveUp PROVE FALSE
    <2>1. gate \in GateType /\ gate' = Failed(gate)
      BY <1>13 DEF GiveUp, Failed, Shape, TypeOK
    <2> QED
      BY <2>1, FailedHolder
  <1> QED
    BY <1>1, <1>4, <1>5, <1>8, <1>9, <1>10, <1>11, <1>12, <1>13
    DEF Next, vars, Browser, Finish, FinishCleanup, Recover, Install,
     Uninstall, BackoffEnds, RequestCleanup, RetryCleanup, ListCleanup,
     BeginConnect, Consume, DropCallback, Authorize, Approve, CodeExpires,
     StateExpires, GrantExpires, SkipCleanup, RecordFailure, Lose,
     FinishDisconnected, FinishActivate, FinishUnproved, FinishConnect,
     CompleteCleanup, FailCleanup, Crash

LEMMA Uninstalls ==
    ASSUME Shape, [Next]_vars, NEW i \in Installations,
           rows'[i] = "uninstalled"
    PROVE  \/ rows[i] = "uninstalled"
           \/ CompleteCleanup /\ gate.ins = i
  <1>1. CASE UNCHANGED rows
    BY <1>1
  <1>2. CASE FinishActivate \/ \E j \in Installations : Install(j) \/ Uninstall(j)
    BY <1>2 DEF FinishActivate, Install, Uninstall, Shape, TypeOK
  <1>3. CASE CompleteCleanup
    BY <1>3 DEF CompleteCleanup, Shape, TypeOK
  <1> QED
    BY <1>1, <1>2, <1>3
    DEF Next, vars, Browser, Finish, FinishCleanup, Serve, Recover,
     BeginActivate, BeginAccess, BackoffEnds, RequestCleanup,
     RetryCleanup, ListCleanup, BeginConnect, Consume, EnterConnect,
     DropCallback, Authorize, Approve, CodeExpires, StateExpires,
     GrantExpires, EnterCleanup, SkipCleanup, RecordFailure, FinishRefresh,
     FinishDisconnected, FinishUnproved, FinishConnect, SendRevoke,
     FailCleanup, Exchange, RefuseExchange, Rotate, RefuseRefresh, Revoke,
     ServeProbe, Answer, Lose, GiveUp, Crash

LEMMA NextRevocation ==
    ASSUME Safe, [Next]_vars
    PROVE  RevocationHolds'
  <1>1. Shape /\ Shape'
    BY NextShape DEF Safe
  <1>2. ASSUME NEW i \in Installations, rows'[i] = "uninstalled"
        PROVE  Cut(i)'
    <2>1. CASE rows[i] = "uninstalled"
      BY <1>1, <2>1, CutStays DEF Safe, RevocationHolds, Live
    <2>2. CASE CompleteCleanup /\ gate.ins = i
      <3>1. Cut(i)
        BY <2>2, NoneAssumption
        DEF CompleteCleanup, Answered, Safe, RevocationHolds
      <3>2. UNCHANGED <<calls, codes, grants>>
        BY <2>2 DEF CompleteCleanup
      <3> QED
        BY <3>1, <3>2 DEF Cut, LiveGrants
    <2> QED
      BY <1>1, <1>2, <2>1, <2>2, Uninstalls
  <1>3. ASSUME gate' # None, gate'.asked = "revoke", gate'.answer = "ok",
               NEW i, i = gate'.ins
        PROVE  Cut(i)'
    <2>1. i \in Installations
      BY <1>1, <1>3 DEF Shape, TypeOK, GateType
    <2>2. CASE gate' = gate
      <3>1. Cut(i) /\ gate # None
        BY <1>3, <2>2 DEF Safe, RevocationHolds
      <3>2. rows[i] = "disabling"
        BY <1>1, <1>3, <2>2, <3>1 DEF Shape, HolderIsEntitled
      <3> QED
        BY <1>1, <2>1, <3>1, <3>2, CutStays DEF Live
    <2>3. CASE gate # None /\ gate'.ins = gate.ins
               /\ \E k \in Calls : Revoke(k) /\ gate.call = k
      BY <1>1, <1>3, <2>1, <2>3, RevokeCuts
    <2> QED
      BY <1>1, <1>3, <2>2, <2>3, RevocationAnswers
  <1>4. gate' # None /\ gate'.asked = "revoke" /\ gate'.answer = "ok" =>
            Cut(gate.ins)'
    <2> SUFFICES ASSUME gate' # None, gate'.asked = "revoke",
                        gate'.answer = "ok"
                 PROVE  Cut(gate.ins)'
      OBVIOUS
    <2>1. PICK i : i = gate'.ins
      OBVIOUS
    <2>2. Cut(i)'
      BY <1>3, <2>1
    <2> QED
      BY <2>1, <2>2 DEF Cut, LiveGrants
  <1> QED
    BY <1>2, <1>4 DEF RevocationHolds

LEMMA SafeInit == Init => Safe
  BY ShapeInit, NoneAssumption
  DEF Init, Safe, OneLive, RevocationHolds, LiveGrants

LEMMA NextSafe ==
    ASSUME Safe, [Next]_vars
    PROVE  Safe'
  BY NextShape, NextOneLive, NextRevocation DEF Safe

LEMMA SafeAlways == Spec => []Safe
  BY SafeInit, NextSafe, PTL DEF Spec

(* At most one grant family of an installation is alive, and the platform  *)
(* keeps no credential that the installation was not granted, whatever     *)
(* answers were lost and whoever held the lock (Server.exchange).          *)
THEOREM ConnectionsAreOneFamily == Spec => []OneFamily
  <1>1. Safe => OneFamily
    BY DEF Safe, Shape, OneLive, RowsRefer, OneFamily, Granted
  <1> QED
    BY <1>1, SafeAlways, PTL

(* An uninstall that is complete has left nothing behind on either side,   *)
(* and no request that is still under way can bring it back                *)
(* (CompleteCleanup, Server.revoke).                                       *)
THEOREM NothingIsLeftBehind == Spec => []UninstalledIsDisconnected
  <1>1. Safe => UninstalledIsDisconnected
    BY DEF Safe, Shape, RevokedIsGone, RevocationHolds, Cut,
       UninstalledIsDisconnected
  <1> QED
    BY <1>1, SafeAlways, PTL

(* Once invalidated, the credentials of an installation stay so: only a    *)
(* holder of the lock writes them, and it works on a live installation or  *)
(* on the cleanup itself (Service.Callback, Service.Access).               *)
THEOREM RevokedStaysRevoked == Spec => RevokedIsFinal
  <1>1. ASSUME Shape, [Next]_vars
        PROVE  \A i \in Installations : connections[i].status = "revoked" =>
                    connections'[i] = connections[i]
    <2> SUFFICES ASSUME NEW i \in Installations,
                        connections[i].status = "revoked"
                 PROVE  connections'[i] = connections[i]
      OBVIOUS
    <2>1. rows[i] \in {"disabling", "uninstalled"}
          /\ connections[i] = [status |-> "revoked", secret |-> None]
      BY <1>1, ConnectionFields DEF Shape, TypeOK, RevokedIsGone
    <2>2. CASE UNCHANGED connections
      BY <2>2
    <2>3. CASE FinishRefresh \/ FinishDisconnected \/ FinishConnect
      <3>1. gate.ins # i
        BY <1>1, <2>1, <2>3, AnsweredHolderUses
        DEF FinishRefresh, FinishDisconnected, FinishConnect, Live
      <3> QED
        BY <1>1, <2>3, <3>1
        DEF FinishRefresh, FinishDisconnected, FinishConnect, Save, Shape,
            TypeOK
    <2>4. ASSUME NEW w \in Workers, EnterCleanup(w)
          PROVE  connections'[i] = connections[i]
      BY <1>1, <2>1, <2>4 DEF EnterCleanup, Save, Shape, TypeOK
    <2> QED
      BY <1>1, <2>2, <2>3, <2>4
      DEF Next, vars, Browser, Finish, FinishCleanup, Serve, Recover, Install,
       Uninstall, BeginActivate, BeginAccess, BackoffEnds, RequestCleanup,
       RetryCleanup, ListCleanup, BeginConnect, Consume, EnterConnect,
       DropCallback, Authorize, Approve, CodeExpires, StateExpires,
       GrantExpires, SkipCleanup, RecordFailure, FinishActivate,
       FinishUnproved, SendRevoke, CompleteCleanup, FailCleanup, Exchange,
       RefuseExchange, Rotate, RefuseRefresh, Revoke, ServeProbe, Answer,
       Lose, GiveUp, Crash
  <1> QED
    BY <1>1, ShapeAlways, PTL DEF Spec, RevokedIsFinal

=============================================================================
