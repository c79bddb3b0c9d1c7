-------------------------- MODULE RemoteConnection --------------------------
(***************************************************************************)
(* The connection of a merchant's installations to a remote app: OAuth     *)
(* states and credentials on the platform, codes and grants at the remote  *)
(* app, and the worker that cleans up after an uninstall.                  *)
(*                                                                         *)
(* Platform and remote app share nothing but HTTP calls.  Whoever calls    *)
(* holds the merchant's lifecycle lock (`gate') while it waits, and stops  *)
(* waiting after three seconds; the request it sent may still arrive after *)
(* that, when the lock belongs to somebody else.  The credential tables    *)
(* are written on another connection than the lock's, so they keep what    *)
(* was written when the holder fails or dies.                              *)
(***************************************************************************)
EXTENDS Naturals

CONSTANTS
    Installations,   \* installation ids of a merchant's remote app
    States,          \* OAuth states
    Codes, Grants,   \* authorization codes and grant families, remote
    Calls,           \* HTTP requests that can be under way at once
    Workers,
    MaxAttempts,     \* the cleanup budget (12 in the code)
    MaxRotations,    \* bound: rotations of one grant
    MaxRevision,     \* bound: no recovery is requested from here on
    None

ASSUME BudgetAssumption ==
    MaxAttempts \in Nat \ {0} /\ MaxRotations \in Nat /\ MaxRevision \in Nat

VARIABLES
    rows,         \* status of each installation row
    cleanup,      \* cleanup_attempts, cleanup_next_at and cleanup_revision
    states,       \* platform_oauth.states
    connections,  \* platform_oauth.connections
    callbacks,    \* callbacks that consumed their state and want the gate
    gate,         \* who holds the lifecycle lock, and what it waits for
    workers,      \* the cleanup each worker has listed
    calls,        \* requests on their way to the remote app
    codes,        \* reference_remote.codes
    grants        \* reference_remote.grants, with its refresh history

lifecycle == <<rows, cleanup>>
platform  == <<states, connections, callbacks>>
remote    == <<codes, grants>>
vars == <<lifecycle, platform, gate, workers, calls, remote>>

Live == {"pending", "active"}

(* A refresh token is a rotation of a grant; the platform seals the last   *)
(* one it was given.                                                       *)
Credential == [grant : Grants, rotation : Nat]

StateType == [ins : Installations, used : BOOLEAN]
ConnectionType ==
    [status : {"needs_connection"}, secret : {None}]
    \cup [status : {"revoked"}, secret : {None}]
    \cup [status : {"connected"}, secret : Credential]
CodeType == [state : States, ins : Installations,
             approved : BOOLEAN, used : BOOLEAN]
GrantType == [ins : Installations, rotation : Nat, live : BOOLEAN]
RequestType ==
    [kind : {"exchange"}, code : Codes]
    \cup [kind : {"refresh", "bearer"}, secret : Credential]
    \cup [kind : {"revoke"}, ins : Installations]
Answers == {"ok", "refused", "failed"}
GateType == [op : {"connect", "access", "activate", "cleanup"},
             ins : Installations,
             call : Calls \cup {None},
             asked : {"exchange", "refresh", "bearer", "revoke", None},
             answer : Answers \cup {None},
             secret : Credential \cup {None},
             worker : Workers \cup {None}]
WorkerType == [ins : Installations, revision : Nat,
               step : {"listed", "revoking", "failed"}]

(* None stands for a missing row, holder, request, answer or credential.   *)
ASSUME NoneAssumption ==
    /\ None \notin Calls /\ None \notin Workers /\ None \notin Credential
    /\ None \notin StateType /\ None \notin CodeType
    /\ None \notin GrantType /\ None \notin RequestType
    /\ None \notin GateType /\ None \notin WorkerType
    /\ None \notin Answers
    /\ None \notin {"exchange", "refresh", "bearer", "revoke"}

TypeOK ==
    /\ rows \in [Installations ->
                    Live \cup {"absent", "disabling", "uninstalled"}]
    /\ cleanup \in [Installations ->
                      [attempts : Nat, due : BOOLEAN, revision : Nat]]
    /\ states \in [States -> StateType \cup {None}]
    /\ connections \in [Installations -> ConnectionType]
    /\ callbacks \subseteq Codes
    /\ gate \in GateType \cup {None}
    /\ workers \in [Workers -> WorkerType \cup {None}]
    /\ calls \in [Calls -> RequestType \cup {None}]
    /\ codes \in [Codes -> CodeType \cup {None}]
    /\ grants \in [Grants -> GrantType \cup {None}]

Init ==
    /\ rows = [i \in Installations |-> "absent"]
    /\ cleanup = [i \in Installations |->
                    [attempts |-> 0, due |-> TRUE, revision |-> 0]]
    /\ states = [s \in States |-> None]
    /\ connections = [i \in Installations |->
                        [status |-> "needs_connection", secret |-> None]]
    /\ callbacks = {}
    /\ gate = None
    /\ workers = [w \in Workers |-> None]
    /\ calls = [k \in Calls |-> None]
    /\ codes = [c \in Codes |-> None]
    /\ grants = [g \in Grants |-> None]

-----------------------------------------------------------------------------
(* Shared steps *)

GateFree == gate = None

Enter(op, i, w) ==
    [op |-> op, ins |-> i, call |-> None, asked |-> None, answer |-> None,
     secret |-> None, worker |-> w]

(* Send a request and wait for its answer.                                 *)
Send(holder, request) ==
    \E k \in Calls :
        /\ calls[k] = None
        /\ calls' = [calls EXCEPT ![k] = request]
        /\ gate' = [holder EXCEPT !.call = k, !.asked = request.kind,
                                  !.answer = None, !.secret = None]

Answered(kind) == gate # None /\ gate.asked = kind /\ gate.answer # None

(* The upsert overwrites whatever is there.                                *)
Save(i, status, secret) ==
    connections' = [connections EXCEPT ![i] =
                        [status |-> status, secret |-> secret]]

Requeue(i, attempts, due) ==
    cleanup' = [cleanup EXCEPT ![i] =
        [attempts |-> attempts, due |-> due, revision |-> @.revision + 1]]

-----------------------------------------------------------------------------
(* The lifecycle, as far as it touches connections *)

(* A connection may be made and used as long as the installation is live   *)
(* and the registry still holds its release.                               *)
Attached(i) == rows[i] \in Live

(* An app has one row, and every installation of it an id of its own.      *)
Install(i) ==
    /\ GateFree /\ rows[i] = "absent"
    /\ \A j \in Installations \ {i} : rows[j] \in {"absent", "uninstalled"}
    /\ rows' = [rows EXCEPT ![i] = "pending"]
    /\ UNCHANGED <<cleanup, platform, gate, workers, calls, remote>>

Uninstall(i) ==
    /\ GateFree /\ rows[i] \in Live
    /\ rows' = [rows EXCEPT ![i] = "disabling"]
    /\ Requeue(i, 0, TRUE)
    /\ UNCHANGED <<platform, gate, workers, calls, remote>>

(* An access token that is about to expire is refreshed first.             *)
Refresh(holder) ==
    LET secret == connections[holder.ins].secret IN
    /\ secret.rotation < MaxRotations
    /\ Send(holder, [kind |-> "refresh", secret |-> secret])

(* Ready asks the remote app whether it knows the access token.            *)
Probe(holder, secret) ==
    Send(holder, [kind |-> "bearer", secret |-> secret])

BeginActivate(i) ==
    /\ GateFree /\ rows[i] = "pending"
    /\ connections[i].status = "connected"
    /\ LET holder == Enter("activate", i, None) IN
       Refresh(holder) \/ Probe(holder, connections[i].secret)
    /\ UNCHANGED <<lifecycle, platform, workers, remote>>

(* Webhook deliveries and capability calls of an active installation.  A   *)
(* delivery wants no more than a fresh access token; a capability call     *)
(* goes to the remote app with it, and is here what it does to the         *)
(* connection.                                                             *)
BeginAccess(i) ==
    /\ GateFree /\ rows[i] = "active"
    /\ connections[i].status = "connected"
    /\ LET holder == Enter("access", i, None) IN
       Refresh(holder) \/ Probe(holder, connections[i].secret)
    /\ UNCHANGED <<lifecycle, platform, workers, remote>>

(* The rotated credential is saved, and used.                              *)
FinishRefresh ==
    /\ Answered("refresh") /\ gate.answer = "ok"
    /\ Save(gate.ins, "connected", gate.secret)
    /\ \/ Probe(gate, gate.secret)
       \/ gate.op = "access" /\ gate' = None /\ UNCHANGED calls
    /\ UNCHANGED <<lifecycle, states, callbacks, workers, remote>>

(* A refresh that was refused or not answered asks for a new connection,   *)
(* and so does an access token the remote app does not know (401), in the  *)
(* probe as in a capability call.                                          *)
FinishDisconnected ==
    /\ \/ Answered("refresh") /\ gate.answer \in {"refused", "failed"}
       \/ Answered("bearer") /\ gate.answer = "refused"
    /\ Save(gate.ins, "needs_connection", None)
    /\ gate' = None
    /\ UNCHANGED <<lifecycle, states, callbacks, workers, calls, remote>>

FinishActivate ==
    /\ Answered("bearer") /\ gate.op = "activate" /\ gate.answer = "ok"
    /\ rows' = [rows EXCEPT ![gate.ins] = "active"]
    /\ gate' = None
    /\ UNCHANGED <<cleanup, platform, workers, calls, remote>>

(* No answer to the probe leaves the installation pending; a capability    *)
(* call leaves the connection as it is.                                    *)
FinishUnproved ==
    /\ Answered("bearer")
    /\ \/ gate.answer = "failed"
       \/ gate.op = "access" /\ gate.answer = "ok"
    /\ gate' = None
    /\ UNCHANGED <<lifecycle, platform, workers, calls, remote>>

-----------------------------------------------------------------------------
(* Connecting: the browser goes to the remote app and comes back *)

BeginConnect(s, i) ==
    /\ GateFree /\ Attached(i)
    /\ states[s] = None
    /\ states' = [states EXCEPT ![s] = [ins |-> i, used |-> FALSE]]
    /\ UNCHANGED <<lifecycle, connections, callbacks, gate, workers, calls,
                   remote>>

(* The consent page can be opened for a state again and again.             *)
Authorize(c, s) ==
    /\ states[s] # None /\ codes[c] = None
    /\ codes' = [codes EXCEPT ![c] =
            [state |-> s, ins |-> states[s].ins, approved |-> FALSE,
             used |-> FALSE]]
    /\ UNCHANGED <<lifecycle, platform, gate, workers, calls, grants>>

(* The form is answered once, with "allow" or "deny".                      *)
Approve(c) ==
    /\ codes[c] # None /\ ~codes[c].approved /\ ~codes[c].used
    /\ \E allow \in BOOLEAN :
          codes' = [codes EXCEPT ![c].approved = allow, ![c].used = ~allow]
    /\ UNCHANGED <<lifecycle, platform, gate, workers, calls, grants>>

(* The redirect brings state and code to the platform, which consumes the  *)
(* state before it asks for the lock.                                      *)
Consume(c) ==
    LET s == codes[c].state IN
    /\ codes[c] # None /\ codes[c].approved
    /\ ~states[s].used
    /\ states' = [states EXCEPT ![s].used = TRUE]
    /\ callbacks' = callbacks \cup {c}
    /\ UNCHANGED <<lifecycle, connections, gate, workers, calls, remote>>

(* Mutant: the installation is not looked at again inside the gate         *)
ConnectUnchecked(c) ==
    /\ GateFree /\ c \in callbacks
    /\ callbacks' = callbacks \ {c}
    /\ Send(Enter("connect", codes[c].ins, None),
            [kind |-> "exchange", code |-> c])
    /\ UNCHANGED <<lifecycle, states, connections, workers, remote>>

EnterConnect(c) ==
    /\ GateFree /\ c \in callbacks
    /\ Attached(codes[c].ins)
    /\ callbacks' = callbacks \ {c}
    /\ Send(Enter("connect", codes[c].ins, None),
            [kind |-> "exchange", code |-> c])
    /\ UNCHANGED <<lifecycle, states, connections, workers, remote>>

(* Too late: the installation is going away, or the browser gave up. The   *)
(* state stays consumed.                                                   *)
DropCallback(c) ==
    /\ c \in callbacks
    /\ callbacks' = callbacks \ {c}
    /\ UNCHANGED <<lifecycle, states, connections, gate, workers, calls,
                   remote>>

FinishConnect ==
    /\ Answered("exchange")
    /\ IF gate.answer = "ok"
       THEN Save(gate.ins, "connected", gate.secret)
       ELSE UNCHANGED connections
    /\ gate' = None
    /\ UNCHANGED <<lifecycle, states, callbacks, workers, calls, remote>>

-----------------------------------------------------------------------------
(* The cleanup worker *)

(* The list of due cleanups is read without a lock.                        *)
ListCleanup(w, i) ==
    /\ workers[w] = None
    /\ rows[i] = "disabling"
    /\ cleanup[i].due /\ cleanup[i].attempts < MaxAttempts
    /\ workers' = [workers EXCEPT ![w] =
            [ins |-> i, revision |-> cleanup[i].revision, step |-> "listed"]]
    /\ UNCHANGED <<lifecycle, platform, gate, calls, remote>>

(* Inside the lock, the credentials are invalidated first.                 *)
EnterCleanup(w) ==
    LET i == workers[w].ins IN
    /\ GateFree
    /\ workers[w] # None /\ workers[w].step = "listed"
    /\ rows[i] = "disabling"
    /\ Save(i, "revoked", None)
    /\ gate' = Enter("cleanup", i, w)
    /\ workers' = [workers EXCEPT ![w].step = "revoking"]
    /\ UNCHANGED <<lifecycle, states, callbacks, calls, remote>>

(* The states are burned in a statement of its own, then the remote app is *)
(* asked to revoke what it granted.                                        *)
SendRevoke ==
    /\ gate # None /\ gate.op = "cleanup" /\ gate.asked = None
    /\ states' = [s \in States |->
            IF states[s] # None /\ states[s].ins = gate.ins
            THEN [states[s] EXCEPT !.used = TRUE] ELSE states[s]]
    /\ Send(gate, [kind |-> "revoke", ins |-> gate.ins])
    /\ UNCHANGED <<lifecycle, connections, callbacks, workers, remote>>

CompleteCleanup ==
    /\ Answered("revoke") /\ gate.answer = "ok"
    /\ rows' = [rows EXCEPT ![gate.ins] = "uninstalled"]
    /\ workers' = [workers EXCEPT ![gate.worker] = None]
    /\ gate' = None
    /\ UNCHANGED <<cleanup, platform, calls, remote>>

(* No answer, or a statement that failed on the way: the lock is given     *)
(* back and the failure is recorded after.                                 *)
FailCleanup ==
    /\ gate # None /\ gate.op = "cleanup"
    /\ gate.asked = None \/ gate.answer # None
    /\ workers' = [workers EXCEPT ![gate.worker].step = "failed"]
    /\ gate' = None
    /\ UNCHANGED <<lifecycle, platform, calls, remote>>

(* A listed cleanup that somebody else finished meanwhile.                 *)
SkipCleanup(w) ==
    /\ GateFree
    /\ workers[w] # None /\ workers[w].step = "listed"
    /\ rows[workers[w].ins] # "disabling"
    /\ workers' = [workers EXCEPT ![w] = None]
    /\ UNCHANGED <<lifecycle, platform, gate, calls, remote>>

(* Mutant: a failure leaves no trace, so the next one starts from the same *)
(* budget                                                                  *)
ForgetFailure(w) ==
    /\ workers[w] # None /\ workers[w].step = "failed"
    /\ workers' = [workers EXCEPT ![w] = None]
    /\ UNCHANGED <<lifecycle, platform, gate, calls, remote>>

(* The failure counts unless another worker or a recovery has advanced the *)
(* row since it was listed.                                                *)
RecordFailure(w) ==
    LET i == workers[w].ins IN
    /\ workers[w] # None /\ workers[w].step = "failed"
    /\ workers' = [workers EXCEPT ![w] = None]
    /\ IF rows[i] = "disabling" /\ cleanup[i].revision = workers[w].revision
       THEN Requeue(i, cleanup[i].attempts + 1, FALSE)
       ELSE UNCHANGED cleanup
    /\ UNCHANGED <<rows, platform, gate, calls, remote>>

BackoffEnds(i) ==
    /\ ~cleanup[i].due
    /\ cleanup' = [cleanup EXCEPT ![i].due = TRUE]
    /\ UNCHANGED <<rows, platform, gate, workers, calls, remote>>

Exhausted(i) == rows[i] = "disabling" /\ cleanup[i].attempts >= MaxAttempts

(* The owner may retry an exhausted cleanup, at the revision that it saw,  *)
(* the operator any cleanup.                                               *)
RetryCleanup(i) ==
    /\ GateFree /\ rows[i] = "disabling"
    /\ cleanup[i].revision < MaxRevision
    /\ Requeue(i, 0, TRUE)
    /\ UNCHANGED <<rows, platform, gate, workers, calls, remote>>

RequestCleanup(i) == Exhausted(i) /\ RetryCleanup(i)

-----------------------------------------------------------------------------
(* The remote app.  All its grants are serialized by one lock. *)

(* The answer reaches whoever still waits for it.                          *)
Answer(k, answer, secret) ==
    /\ calls' = [calls EXCEPT ![k] = None]
    /\ gate' = IF gate # None /\ gate.call = k
               THEN [gate EXCEPT !.call = None, !.answer = answer,
                                 !.secret = secret]
               ELSE gate
    /\ UNCHANGED <<lifecycle, platform, workers>>

KillGrants(i) ==
    [g \in Grants |-> IF grants[g] # None /\ grants[g].ins = i
                      THEN [grants[g] EXCEPT !.live = FALSE] ELSE grants[g]]

Requested(k, kind) == calls[k] # None /\ calls[k].kind = kind
Valid(secret) == /\ grants[secret.grant].live
                 /\ grants[secret.grant].rotation = secret.rotation

(* Mutant: a code buys as many grants as it is sent                        *)
ExchangeKeepingFamilies(k) ==
    LET c == calls[k].code IN
    /\ Requested(k, "exchange")
    /\ codes[c].approved /\ ~codes[c].used
    /\ codes' = [codes EXCEPT ![c].used = TRUE]
    /\ \E g \in Grants :
          /\ grants[g] = None
          /\ grants' = [grants EXCEPT ![g] =
                [ins |-> codes[c].ins, rotation |-> 0, live |-> TRUE]]
          /\ Answer(k, "ok", [grant |-> g, rotation |-> 0])

(* A code is exchanged once, and a new grant ends the earlier ones.        *)
Exchange(k) ==
    LET c == calls[k].code IN
    /\ Requested(k, "exchange")
    /\ codes[c].approved /\ ~codes[c].used
    /\ codes' = [codes EXCEPT ![c].used = TRUE]
    /\ \E g \in Grants :
          /\ grants[g] = None
          /\ grants' = [KillGrants(codes[c].ins) EXCEPT ![g] =
                [ins |-> codes[c].ins, rotation |-> 0, live |-> TRUE]]
          /\ Answer(k, "ok", [grant |-> g, rotation |-> 0])

RefuseExchange(k) ==
    /\ Requested(k, "exchange") /\ codes[calls[k].code].used
    /\ Answer(k, "refused", None)
    /\ UNCHANGED remote

Rotate(k) ==
    LET secret == calls[k].secret IN
    /\ Requested(k, "refresh") /\ Valid(secret)
    /\ grants' = [grants EXCEPT ![secret.grant].rotation = @ + 1]
    /\ Answer(k, "ok", [secret EXCEPT !.rotation = @ + 1])
    /\ UNCHANGED codes

(* A refresh token out of the history ends the whole family.               *)
RefuseRefresh(k) ==
    LET secret == calls[k].secret IN
    /\ Requested(k, "refresh") /\ ~Valid(secret)
    /\ grants' = [grants EXCEPT ![secret.grant].live =
                    @ /\ grants[secret.grant].rotation = secret.rotation]
    /\ Answer(k, "refused", None)
    /\ UNCHANGED codes

(* The access token may have run out; its time to live is not modelled.    *)
ServeProbe(k) ==
    /\ Requested(k, "bearer")
    /\ \E known \in BOOLEAN :
          /\ known => Valid(calls[k].secret)
          /\ Answer(k, IF known THEN "ok" ELSE "refused", None)
    /\ UNCHANGED remote

(* Mutant: revocation forgets the codes that are still to be exchanged     *)
RevokeGrantsOnly(k) ==
    LET i == calls[k].ins IN
    /\ Requested(k, "revoke")
    /\ grants' = KillGrants(i)
    /\ Answer(k, "ok", None)
    /\ UNCHANGED codes

Revoke(k) ==
    LET i == calls[k].ins IN
    /\ Requested(k, "revoke")
    /\ grants' = KillGrants(i)
    /\ codes' = [c \in Codes |-> IF codes[c] # None /\ codes[c].ins = i
                                 THEN [codes[c] EXCEPT !.used = TRUE]
                                 ELSE codes[c]]
    /\ Answer(k, "ok", None)

(* A code lives five minutes and a grant family eight hours; a state lives *)
(* five minutes on the platform, or until the merchant comes back with a   *)
(* denial or with a code that is not its own.                              *)
CodeExpires(c) ==
    /\ codes[c] # None /\ ~codes[c].used
    /\ codes' = [codes EXCEPT ![c].used = TRUE]
    /\ UNCHANGED <<lifecycle, platform, gate, workers, calls, grants>>

GrantExpires(g) ==
    /\ grants[g] # None /\ grants[g].live
    /\ grants' = [grants EXCEPT ![g].live = FALSE]
    /\ UNCHANGED <<lifecycle, platform, gate, workers, calls, codes>>

StateExpires(s) ==
    /\ states[s] # None /\ ~states[s].used
    /\ states' = [states EXCEPT ![s].used = TRUE]
    /\ UNCHANGED <<lifecycle, connections, callbacks, gate, workers, calls,
                   remote>>

-----------------------------------------------------------------------------
(* Failures *)

(* The waiter's deadline: the request may still be on its way.             *)
GiveUp ==
    /\ gate # None /\ gate.call # None
    /\ gate' = [gate EXCEPT !.call = None, !.answer = "failed"]
    /\ UNCHANGED <<lifecycle, platform, workers, calls, remote>>

(* A request nobody waits for is lost.                                     *)
Lose(k) ==
    /\ calls[k] # None
    /\ gate # None => gate.call # k
    /\ calls' = [calls EXCEPT ![k] = None]
    /\ UNCHANGED <<lifecycle, platform, gate, workers, remote>>

(* The process that holds the lock dies, or cannot write what it learnt.   *)
Crash ==
    /\ gate # None
    /\ gate' = None
    /\ workers' = [w \in Workers |-> IF w = gate.worker THEN None
                                                        ELSE workers[w]]
    /\ UNCHANGED <<lifecycle, platform, calls, remote>>

-----------------------------------------------------------------------------

Finish ==
    \/ FinishRefresh \/ FinishDisconnected \/ FinishActivate
    \/ FinishUnproved \/ FinishConnect

FinishCleanup == CompleteCleanup \/ FailCleanup

Serve(k) ==
    \/ Exchange(k) \/ RefuseExchange(k)
    \/ Rotate(k) \/ RefuseRefresh(k)
    \/ ServeProbe(k) \/ Revoke(k)

(* The owner's browser, which the remote app sends back with a code        *)
Browser ==
    \/ \E s \in States, i \in Installations : BeginConnect(s, i)
    \/ \E c \in Codes : Consume(c) \/ EnterConnect(c) \/ DropCallback(c)

Recover(i) == RetryCleanup(i) \/ RequestCleanup(i)

Next ==
    \/ \E i \in Installations :
          \/ Install(i) \/ Uninstall(i)
          \/ BeginActivate(i) \/ BeginAccess(i)
          \/ BackoffEnds(i) \/ Recover(i)
          \/ \E w \in Workers : ListCleanup(w, i)
    \/ Browser
    \/ \E c \in Codes :
          \/ \E s \in States : Authorize(c, s)
          \/ Approve(c) \/ CodeExpires(c)
    \/ \E s \in States : StateExpires(s)
    \/ \E g \in Grants : GrantExpires(g)
    \/ \E w \in Workers : EnterCleanup(w) \/ SkipCleanup(w) \/ RecordFailure(w)
    \/ Finish \/ SendRevoke \/ FinishCleanup
    \/ \E k \in Calls : Serve(k) \/ Lose(k)
    \/ GiveUp \/ Crash

Spec == Init /\ [][Next]_vars

(* A worker ticks for ever, and its turn at the lock comes as others give  *)
(* it back: every wait is cut short by the client's deadline.  It may die, *)
(* but not in every attempt.  Nothing obliges the remote app to answer.    *)
FairSpec ==
    /\ Spec
    /\ WF_vars(GiveUp) /\ WF_vars(Finish) /\ WF_vars(SendRevoke)
    /\ SF_vars(FinishCleanup)
    /\ \A k \in Calls : WF_vars(Lose(k))
    /\ \A i \in Installations :
          /\ WF_vars(BackoffEnds(i))
          /\ WF_vars(\E w \in Workers : ListCleanup(w, i))
    /\ \A w \in Workers :
          /\ SF_vars(EnterCleanup(w)) /\ SF_vars(SkipCleanup(w))
          /\ WF_vars(RecordFailure(w))

-----------------------------------------------------------------------------
(* Properties *)

LiveGrants(i) == {g \in Grants : grants[g] # None /\ grants[g].ins = i
                                 /\ grants[g].live}

(* An uninstall that is complete has left nothing behind on either side:   *)
(* the platform holds no credential, and at the remote app no grant of the *)
(* installation is alive or will come alive, whatever exchange or refresh  *)
(* was still on its way (CompleteCleanup runs Connections.Revoke, and only *)
(* an acknowledged revocation commits).                                    *)
UninstalledIsDisconnected ==
    \A i \in Installations : rows[i] = "uninstalled" =>
        connections[i].status = "revoked" /\ LiveGrants(i) = {}

(* Once the cleanup has begun, no callback, refresh or probe of the        *)
(* installation writes its credentials again, also not one that began      *)
(* before the uninstall: Service.Callback and Access run inside the gate.  *)
RevokedIsFinal ==
    [][\A i \in Installations : connections[i].status = "revoked" =>
            connections'[i] = connections[i]]_vars

(* At most one grant family of an installation is alive, however often the *)
(* merchant connects and whichever answers were lost (Server.exchange); so *)
(* a connection that is saved is never one of several.  The credential the *)
(* platform keeps is one this installation was granted.                    *)
OneFamily ==
    \A i \in Installations :
        /\ \A g, h \in LiveGrants(i) : g = h
        /\ connections[i].status = "connected" =>
              LET secret == connections[i].secret IN
              /\ grants[secret.grant] # None
              /\ grants[secret.grant].ins = i
              /\ secret.rotation <= grants[secret.grant].rotation

(* A cleanup ends: the installation is uninstalled, or its budget is spent *)
(* and the monitor shows it to the owner, though the worker may be killed, *)
(* the remote app may never answer and other workers race for the row      *)
(* (PendingCleanup, CompleteCleanup).                                      *)
CleanupEnds ==
    \A i \in Installations :
        rows[i] = "disabling" ~> rows[i] = "uninstalled" \/ Exhausted(i)
=============================================================================
