---------------------------- MODULE Installation ----------------------------
(***************************************************************************)
(* One merchant's installations: consent intents, their consumption,       *)
(* access grants and app tokens, the compatibility ("legacy") lifecycle    *)
(* and the completion of a remote cleanup, over one PostgreSQL database.   *)
(*                                                                         *)
(* Every mutation runs in a transaction that holds the merchant's advisory *)
(* lock.  A mutation that calls the registry, a release source or a remote *)
(* app in the middle of its transaction is two actions here, Begin... and  *)
(* Commit..., with `tx' the holder of the lock in between; every other     *)
(* mutation is one action.  A request that is refused, and one that        *)
(* replays a receipt, changes nothing and is a stuttering step.            *)
(***************************************************************************)
EXTENDS Naturals, FiniteSets, Sequences

CONSTANTS
    Owners,         \* Core services acting for a merchant user (IntentOwner)
    Users,          \* users of the compatibility lifecycle
    Apps,
    Releases,       \* the IntentRelease snapshots that can ever be offered
    Intents, Installations, Tokens,
    Keys,           \* idempotency keys
    Scopes, Capabilities, Providers,
    IntentTTL, TokenTTL,
    MaxTime,        \* bound of the clock
    None

(* ExecutionProfile of a release, and what depends on it.                  *)
RegistryProfiles == {"local-simulator", "local-remote",
                     "local-kurir-reference", "local-kurir-provider"}
EngineProfiles   == {"managed-shipping-local", "provider-app"}
SourcedProfiles  == EngineProfiles \cup {"resource-app", "reviewed-ui"}
Profiles         == RegistryProfiles \cup SourcedProfiles

(* A release snapshot. `allowed' is the verdict of the closed allowlist of *)
(* scopes and capabilities; `assignment' tells apart two snapshots of one  *)
(* release that were distributed under different test assignments.         *)
ReleaseType ==
    [app : Apps, version : Nat, profile : Profiles, scopes : SUBSET Scopes,
     caps : SUBSET Capabilities, provider : Providers \cup {None},
     assignment : Nat, allowed : BOOLEAN]

ASSUME ReleaseAssumption == Releases \subseteq ReleaseType
ASSUME TimeAssumption ==
    IntentTTL \in Nat \ {0} /\ TokenTTL \in Nat \ {0} /\ MaxTime \in Nat

VARIABLES
    now,             \* the database clock
    registry,        \* releases seeded in platform_app.releases
    distributed,     \* sourced releases with an approved assignment
    withdrawn,       \* sourced releases whose assignment was revoked
    intents,         \* install_intents
    installs,        \* installations, keyed by app: at most one row per app
    consumptions,    \* intent_consumptions, keyed by installation
    grants,          \* access_grants, keyed by installation
    tokens,          \* app_tokens
    intentRequests, accessRequests, idempotency,   \* the receipt tables
    events,          \* outbox: the kinds emitted for each installation
    legacy,          \* a user's compatibility request after its manifest read
    tx               \* the transaction that holds the tenant lock, or None

environment == <<now, registry, distributed, withdrawn>>
access      == <<consumptions, grants, tokens, accessRequests>>
consent     == <<intents, intentRequests>>
rows        == <<installs, events>>
compat      == <<legacy, idempotency>>
vars == <<environment, consent, rows, access, compat, tx>>

-----------------------------------------------------------------------------
(* The shape of the state *)

Live     == {"pending", "active"}
Statuses == Live \cup {"disabling", "uninstalled"}
Kinds    == {"installed", "activated", "disabling", "uninstalled"}

IntentType ==
    [owner : Owners, release : Releases, expires : Nat,
     state : {"pending", "consented", "denied"}]
RowType ==
    [id : Installations, version : Nat, status : Statuses,
     scopes : SUBSET Scopes, caps : SUBSET Capabilities,
     intent : Intents \cup {None}]
ConsumptionType == [intent : Intents, at : Nat]
GrantType == [state : {"pending", "active", "revoked"}, scopes : SUBSET Scopes]
TokenType == [ins : Installations, expires : Nat, revoked : BOOLEAN]
LegacyType == [key : Keys, type : {"install", "activate", "uninstall"},
               manifest : Releases]
TxType ==
    [op : {"consent", "consume"}, owner : Owners, key : Keys,
     intent : Intents, ins : {None}, release : Releases]
    \cup
    [op : {"activate", "issue_token"}, owner : Owners, key : Keys,
     intent : {None}, ins : Installations, release : Releases]
IntentReceiptType ==
    [owner : Owners, key : Keys, op : {"prepare", "consent", "deny"},
     intent : Intents]
AccessReceiptType ==
    [owner : Owners, key : Keys,
     op : {"consume", "activate", "issue_token", "uninstall"},
     ins : Installations, token : Tokens \cup {None}]
IdempotencyType ==
    [owner : Users, key : Keys, op : {"install", "activate", "uninstall"},
     app : Apps]
    \cup
    [owner : {"system-cleanup"}, key : Installations,
     op : {"complete_uninstall"}, app : Apps]

(* None is no row of any table and no key of one.                          *)
ASSUME NoneAssumption ==
    /\ None \notin Installations /\ None \notin Intents /\ None \notin Tokens
    /\ None \notin IntentType /\ None \notin RowType
    /\ None \notin ConsumptionType /\ None \notin GrantType
    /\ None \notin TokenType /\ None \notin LegacyType
    /\ None \notin TxType

(* Every variable has the shape of its table.                              *)
TypeOK ==
    /\ now \in Nat
    /\ registry \subseteq Releases
    /\ distributed \subseteq Releases
    /\ withdrawn \subseteq Releases
    /\ intents \in [Intents -> IntentType \cup {None}]
    /\ installs \in [Apps -> RowType \cup {None}]
    /\ consumptions \in [Installations -> ConsumptionType \cup {None}]
    /\ grants \in [Installations -> GrantType \cup {None}]
    /\ tokens \in [Tokens -> TokenType \cup {None}]
    /\ intentRequests \subseteq IntentReceiptType
    /\ accessRequests \subseteq AccessReceiptType
    /\ idempotency \subseteq IdempotencyType
    /\ events \in [Installations -> Seq(Kinds)]
    /\ legacy \in [Users -> LegacyType \cup {None}]
    /\ tx \in TxType \cup {None}

Init ==
    /\ now = 0
    /\ registry = {} /\ distributed = {} /\ withdrawn = {}
    /\ intents = [i \in Intents |-> None]
    /\ installs = [a \in Apps |-> None]
    /\ consumptions = [id \in Installations |-> None]
    /\ grants = [id \in Installations |-> None]
    /\ tokens = [t \in Tokens |-> None]
    /\ intentRequests = {} /\ accessRequests = {} /\ idempotency = {}
    /\ events = [id \in Installations |-> <<>>]
    /\ legacy = [u \in Users |-> None]
    /\ tx = None

-----------------------------------------------------------------------------
(* What the handlers read *)

(* Mutant: mutations that forget the tenant lock                           *)
LockForgotten == TRUE

(* pg_advisory_xact_lock("installation:" + tenant): a mutation starts only *)
(* when no other transaction holds the lock.                               *)
LockFree == tx = None

(* Mutant: a receipt table that is written and never read                  *)
ReceiptIgnored(receipts, owner, key) == TRUE

UnusedKey(receipts, owner, key) ==
    \A r \in receipts : ~(r.owner = owner /\ r.key = key)

(* The registry answers with an app's first release in version order.      *)
CurrentInRegistry(r) ==
    /\ r \in registry
    /\ \A s \in registry : s.app = r.app => r.version <= s.version

(* The release source finds exactly one distributed release of that app    *)
(* and version, under an approved assignment.                              *)
OnlyDistributed(r) ==
    {s \in distributed : s.app = r.app /\ s.version = r.version} = {r}

Offered(r) ==
    IF r.profile \in SourcedProfiles THEN OnlyDistributed(r)
                                     ELSE CurrentInRegistry(r)

Eligible(r) == Offered(r) /\ r.allowed

(* Apps that an engine routes do not take part in capability routing.      *)
RoutedCapabilities(r) ==
    IF r.profile \in EngineProfiles \cup {"local-kurir-provider"}
    THEN {} ELSE r.caps

Effective(v) ==
    IF v.state \in {"pending", "consented"} /\ now >= v.expires
    THEN "expired" ELSE v.state

IntentOf(id)  == intents[consumptions[id].intent]
ReleaseOf(id) == IntentOf(id).release
AppOf(id)     == ReleaseOf(id).app

AppStatus(a) == IF installs[a] = None THEN "uninstalled"
                                      ELSE installs[a].status

(* The installation row is keyed by app, so a later installation of the    *)
(* same app supersedes an earlier id.                                      *)
IsCurrent(id) == installs[AppOf(id)] # None /\ installs[AppOf(id)].id = id
StatusOf(id)  == IF IsCurrent(id) THEN installs[AppOf(id)].status
                                  ELSE "uninstalled"

RowAgrees(id) ==
    LET row == installs[AppOf(id)] IN
    /\ row.version = ReleaseOf(id).version
    /\ row.intent = consumptions[id].intent
    /\ row.scopes = ReleaseOf(id).scopes
    /\ row.caps = RoutedCapabilities(ReleaseOf(id))

(* The owner's view of an installation; a live row that disagrees with     *)
(* what was consented is refused.                                          *)
Accessible(o, id) ==
    /\ consumptions[id] # None
    /\ IntentOf(id).owner = o
    /\ StatusOf(id) \in Live => RowAgrees(id)

(* A fresh installation id: every installation emits "installed" first.    *)
Unused(id) == events[id] = <<>>

Emit(id, kind) == events' = [events EXCEPT ![id] = Append(@, kind)]

(* Mutant: the trigger revokes active grants and misses pending ones       *)
RevokeActiveOnly(id) ==
    /\ grants' = [grants EXCEPT ![id] =
                    IF @ # None /\ @.state = "active"
                    THEN [state |-> "revoked", scopes |-> {}] ELSE @]
    /\ tokens' = [t \in Tokens |->
                    IF tokens[t] # None /\ tokens[t].ins = id
                    THEN [tokens[t] EXCEPT !.revoked = TRUE]
                    ELSE tokens[t]]

(* Mutant: the trigger relies on expiry to end the live token              *)
RevokeGrantOnly(id) ==
    /\ grants' = [grants EXCEPT ![id] =
                    IF @ = None THEN None
                    ELSE [state |-> "revoked", scopes |-> {}]]
    /\ UNCHANGED tokens

(* Trigger revoke_installation_access: the grant and the live tokens of    *)
(* the id that the row had are revoked with the row's update.              *)
RevokeAccess(id) ==
    /\ grants' = [grants EXCEPT ![id] =
                    IF @ = None THEN None
                    ELSE [state |-> "revoked", scopes |-> {}]]
    /\ tokens' = [t \in Tokens |->
                    IF tokens[t] # None /\ tokens[t].ins = id
                    THEN [tokens[t] EXCEPT !.revoked = TRUE]
                    ELSE tokens[t]]

(* Mutant: every retirement announces the end of the installation          *)
RetireAnnouncedEarly(a, status) ==
    /\ installs' = [installs EXCEPT ![a] =
            [@ EXCEPT !.status = status, !.scopes = {}, !.caps = {}]]
    /\ RevokeAccess(installs[a].id)
    /\ Emit(installs[a].id, "uninstalled")

(* The update of a row to a terminal or disabling status, with its trigger *)
Retire(a, status) ==
    /\ installs' = [installs EXCEPT ![a] =
            [@ EXCEPT !.status = status, !.scopes = {}, !.caps = {}]]
    /\ RevokeAccess(installs[a].id)
    /\ Emit(installs[a].id, status)

RetiredStatus(profile) ==
    IF profile = "local-remote" THEN "disabling" ELSE "uninstalled"

-----------------------------------------------------------------------------
(* Consent intents *)

Prepare(o, k, i, r) ==
    /\ LockFree /\ UnusedKey(intentRequests, o, k)
    /\ intents[i] = None
    /\ Offered(r)
    /\ intents' = [intents EXCEPT ![i] =
            [owner |-> o, release |-> r, expires |-> now + IntentTTL,
             state |-> "pending"]]
    /\ intentRequests' = intentRequests \cup
            {[owner |-> o, key |-> k, op |-> "prepare", intent |-> i]}
    /\ UNCHANGED <<environment, rows, access, compat, tx>>

Decidable(o, i) ==
    intents[i] # None /\ intents[i].owner = o
                      /\ Effective(intents[i]) = "pending"

(* Recording a decision: the immutable snapshot, one receipt.              *)
RecordDecision(o, k, i, op, state) ==
    /\ intents' = [intents EXCEPT ![i].state = state]
    /\ intentRequests' = intentRequests \cup
            {[owner |-> o, key |-> k, op |-> op, intent |-> i]}

(* A denial asks no release source, so nothing happens in the middle.      *)
Deny(o, k, i) ==
    /\ LockFree /\ UnusedKey(intentRequests, o, k)
    /\ Decidable(o, i)
    /\ RecordDecision(o, k, i, "deny", "denied")
    /\ UNCHANGED <<environment, rows, access, compat, tx>>

BeginConsent(o, k, i) ==
    /\ LockFree /\ UnusedKey(intentRequests, o, k)
    /\ Decidable(o, i)
    /\ Offered(intents[i].release)
    /\ tx' = [op |-> "consent", owner |-> o, key |-> k, intent |-> i,
              ins |-> None, release |-> intents[i].release]
    /\ UNCHANGED <<environment, consent, rows, access, compat>>

(* The clock is read again after the registry work.                        *)
CommitConsent ==
    /\ tx # None /\ tx.op = "consent"
    /\ now < intents[tx.intent].expires
    /\ RecordDecision(tx.owner, tx.key, tx.intent, "consent", "consented")
    /\ tx' = None
    /\ UNCHANGED <<environment, rows, access, compat>>

-----------------------------------------------------------------------------
(* The owner-bound lifecycle: consume, activate, issue_token, uninstall *)

AccessReceipt(o, k, op, id, token) ==
    accessRequests' = accessRequests \cup
        {[owner |-> o, key |-> k, op |-> op, ins |-> id, token |-> token]}

(* Mutant: consumption does not look for an earlier one                    *)
NeverConsumed(i) == FALSE

Consumed(i) == \E id \in Installations :
                  consumptions[id] # None /\ consumptions[id].intent = i

BeginConsume(o, k, i) ==
    /\ LockFree /\ UnusedKey(accessRequests, o, k)
    /\ intents[i] # None /\ intents[i].owner = o
    /\ ~Consumed(i)
    /\ Effective(intents[i]) = "consented"
    /\ Eligible(intents[i].release)
    /\ tx' = [op |-> "consume", owner |-> o, key |-> k, intent |-> i,
              ins |-> None, release |-> intents[i].release]
    /\ UNCHANGED <<environment, consent, rows, access, compat>>

(* Expiry is measured again; an app that is still installed is a conflict, *)
(* and an uninstalled row is taken over by the new installation.           *)
CommitConsume(id) ==
    LET r == tx.release IN
    /\ tx # None /\ tx.op = "consume"
    /\ now < intents[tx.intent].expires
    /\ AppStatus(r.app) = "uninstalled"
    /\ Unused(id)
    /\ consumptions' = [consumptions EXCEPT ![id] =
                            [intent |-> tx.intent, at |-> now]]
    /\ installs' = [installs EXCEPT ![r.app] =
            [id |-> id, version |-> r.version, status |-> "pending",
             scopes |-> r.scopes, caps |-> RoutedCapabilities(r),
             intent |-> tx.intent]]
    /\ grants' = [grants EXCEPT ![id] = [state |-> "pending", scopes |-> {}]]
    /\ Emit(id, "installed")
    /\ AccessReceipt(tx.owner, tx.key, "consume", id, None)
    /\ tx' = None
    /\ UNCHANGED <<environment, consent, tokens, compat>>

(* Activation and token issue require a current release, and a row and a   *)
(* grant in step with each other.                                          *)
InStep(id) ==
    \/ StatusOf(id) = "pending" /\ grants[id].state = "pending"
    \/ StatusOf(id) = "active" /\ grants[id].state = "active"

TokenProfile(r) == r.profile \in RegistryProfiles \ {"local-kurir-provider"}

BeginAccess(o, k, id, op) ==
    /\ LockFree /\ UnusedKey(accessRequests, o, k)
    /\ Accessible(o, id)
    /\ Eligible(ReleaseOf(id))
    /\ InStep(id)
    /\ op = "issue_token" => /\ TokenProfile(ReleaseOf(id))
                             /\ StatusOf(id) = "active"
                             /\ grants[id].scopes = ReleaseOf(id).scopes
    /\ tx' = [op |-> op, owner |-> o, key |-> k, intent |-> None,
              ins |-> id, release |-> ReleaseOf(id)]
    /\ UNCHANGED <<environment, consent, rows, access, compat>>

(* Mutant: only this app's own release can keep the provider busy          *)
ProviderBusySameApp(id, r) ==
    \E other \in Installations \ {id} :
        /\ consumptions[other] # None
        /\ StatusOf(other) = "active"
        /\ AppOf(other) = r.app
        /\ ReleaseOf(other).provider = r.provider

(* An engine provider serves one installation of the merchant at a time.   *)
ProviderBusy(id, r) ==
    \E other \in Installations \ {id} :
        /\ consumptions[other] # None
        /\ StatusOf(other) = "active"
        /\ ReleaseOf(other).profile \in EngineProfiles
        /\ ReleaseOf(other).provider = r.provider

(* Mutant: only consented installations are looked at                      *)
CapabilityBusyByConsent(id, caps) ==
    \E b \in Apps : /\ installs[b] # None /\ installs[b].id # id
                    /\ installs[b].status = "active"
                    /\ installs[b].intent # None
                    /\ installs[b].caps \cap caps # {}

CapabilityBusy(id, caps) ==
    \E b \in Apps : /\ installs[b] # None /\ installs[b].id # id
                    /\ installs[b].status = "active"
                    /\ installs[b].caps \cap caps # {}

CommitActivate ==
    LET id == tx.ins
        r  == tx.release
    IN
    /\ tx # None /\ tx.op = "activate"
    /\ StatusOf(id) = "pending"
    /\ r.profile \in EngineProfiles => ~ProviderBusy(id, r)
    /\ ~CapabilityBusy(id, RoutedCapabilities(r))
    /\ grants' = [grants EXCEPT ![id] =
            IF @.state = "pending"
            THEN [state |-> "active", scopes |-> r.scopes] ELSE @]
    /\ installs' = [installs EXCEPT ![r.app].status = "active"]
    /\ Emit(id, "activated")
    /\ AccessReceipt(tx.owner, tx.key, "activate", id, None)
    /\ tx' = None
    /\ UNCHANGED <<environment, consent, consumptions, tokens, compat>>

(* Activating an active installation only leaves a receipt.                *)
CommitActivateAgain ==
    /\ tx # None /\ tx.op = "activate"
    /\ StatusOf(tx.ins) = "active"
    /\ AccessReceipt(tx.owner, tx.key, "activate", tx.ins, None)
    /\ tx' = None
    /\ UNCHANGED <<environment, consent, rows, consumptions, grants, tokens,
                   compat>>

(* A new token replaces the live one; its time to live starts after the    *)
(* remote work.                                                            *)
CommitIssueToken(t) ==
    /\ tx # None /\ tx.op = "issue_token"
    /\ tokens[t] = None
    /\ tokens' = [u \in Tokens |->
            IF u = t THEN [ins |-> tx.ins, expires |-> now + TokenTTL,
                           revoked |-> FALSE]
            ELSE IF tokens[u] # None /\ tokens[u].ins = tx.ins
                 THEN [tokens[u] EXCEPT !.revoked = TRUE] ELSE tokens[u]]
    /\ AccessReceipt(tx.owner, tx.key, "issue_token", tx.ins, t)
    /\ tx' = None
    /\ UNCHANGED <<environment, consent, rows, consumptions, grants, compat>>

(* Uninstalling asks neither the registry nor a source: it stays possible  *)
(* when the release is gone.                                               *)
Uninstall(o, k, id) ==
    /\ LockFree /\ UnusedKey(accessRequests, o, k)
    /\ Accessible(o, id)
    /\ IF StatusOf(id) \in Live
       THEN Retire(AppOf(id), RetiredStatus(ReleaseOf(id).profile))
       ELSE UNCHANGED <<rows, grants, tokens>>
    /\ AccessReceipt(o, k, "uninstall", id, None)
    /\ UNCHANGED <<environment, consent, consumptions, compat, tx>>

(* Expiry, an unready remote app, a lost source, an exclusive capability   *)
(* that is taken, or the server going away ends a transaction unwritten.   *)
Rollback ==
    /\ tx # None
    /\ tx' = None
    /\ UNCHANGED <<environment, consent, rows, access, compat>>

-----------------------------------------------------------------------------
(* The compatibility lifecycle: the manifest is read before the lock *)

LegacyRead(u, k, type, r) ==
    /\ legacy[u] = None
    /\ CurrentInRegistry(r)
    /\ r.profile \in {"local-simulator", "local-remote"}
    /\ legacy' = [legacy EXCEPT ![u] =
            [key |-> k, type |-> type, manifest |-> r]]
    /\ UNCHANGED <<environment, consent, rows, access, idempotency, tx>>

(* A request is over: any refusal, an unready remote app, or the client    *)
(* going away.                                                             *)
LegacyRefuse(u) ==
    /\ legacy[u] # None
    /\ legacy' = [legacy EXCEPT ![u] = None]
    /\ UNCHANGED <<environment, consent, rows, access, idempotency, tx>>

(* Mutant: an uninstalled row is free for the compatibility lifecycle      *)
LegacyCommitOnRetired(u, type) ==
    LET q == legacy[u]
        a == q.manifest.app
    IN
    /\ LockFree
    /\ q # None /\ q.type = type
    /\ UnusedKey(idempotency, u, q.key)
    /\ AppStatus(a) # "uninstalled" => installs[a].intent = None
    /\ legacy' = [legacy EXCEPT ![u] = None]
    /\ idempotency' = idempotency \cup
            {[owner |-> u, key |-> q.key, op |-> type, app |-> a]}
    /\ UNCHANGED <<environment, consent, consumptions, accessRequests, tx>>

(* What every committed request has in common; an installation created by  *)
(* consent is refused.                                                     *)
LegacyCommit(u, type) ==
    LET q == legacy[u]
        a == q.manifest.app
    IN
    /\ LockFree
    /\ q # None /\ q.type = type
    /\ UnusedKey(idempotency, u, q.key)
    /\ installs[a] # None => installs[a].intent = None
    /\ legacy' = [legacy EXCEPT ![u] = None]
    /\ idempotency' = idempotency \cup
            {[owner |-> u, key |-> q.key, op |-> type, app |-> a]}
    /\ UNCHANGED <<environment, consent, consumptions, accessRequests, tx>>

(* Upsert: a conflicting row keeps its intent_id.                          *)
LegacyInstall(u, id) ==
    LET r   == legacy[u].manifest
        row == installs[r.app]
    IN
    /\ LegacyCommit(u, "install")
    /\ AppStatus(r.app) = "uninstalled"
    /\ Unused(id)
    /\ installs' = [installs EXCEPT ![r.app] =
            [id |-> id, version |-> r.version, status |-> "pending",
             scopes |-> r.scopes, caps |-> r.caps,
             intent |-> IF row = None THEN None ELSE row.intent]]
    /\ Emit(id, "installed")
    /\ UNCHANGED <<grants, tokens>>

LegacyActivate(u) ==
    LET r == legacy[u].manifest IN
    /\ LegacyCommit(u, "activate")
    /\ AppStatus(r.app) = "pending"
    /\ installs[r.app].version = r.version
    /\ installs[r.app].scopes = r.scopes
    /\ ~CapabilityBusy(installs[r.app].id, installs[r.app].caps)
    /\ installs' = [installs EXCEPT ![r.app].status = "active"]
    /\ Emit(installs[r.app].id, "activated")
    /\ UNCHANGED <<grants, tokens>>

LegacyUninstall(u) ==
    LET r == legacy[u].manifest IN
    /\ LegacyCommit(u, "uninstall")
    /\ AppStatus(r.app) \in Live
    /\ Retire(r.app, RetiredStatus(r.profile))

(* A request that finds its work done leaves only its receipt.             *)
LegacyUnchanged(u) ==
    LET r == legacy[u].manifest IN
    /\ \/ /\ LegacyCommit(u, "install")
          /\ AppStatus(r.app) # "uninstalled"
       \/ /\ LegacyCommit(u, "activate")
          /\ AppStatus(r.app) = "active"
          /\ installs[r.app].version = r.version
          /\ installs[r.app].scopes = r.scopes
       \/ /\ LegacyCommit(u, "uninstall")
          /\ AppStatus(r.app) \notin Live
    /\ UNCHANGED <<rows, grants, tokens>>

(* The worker finishes a remote uninstall once the app has revoked its     *)
(* credentials; a failed revocation leaves the row as it is.               *)
CompleteCleanup(a) ==
    /\ LockFree
    /\ installs[a] # None /\ installs[a].status = "disabling"
    /\ UnusedKey(idempotency, "system-cleanup", installs[a].id)
    /\ Retire(a, "uninstalled")
    /\ idempotency' = idempotency \cup
            {[owner |-> "system-cleanup", key |-> installs[a].id,
              op |-> "complete_uninstall", app |-> a]}
    /\ UNCHANGED <<environment, consent, consumptions, accessRequests,
                   legacy, tx>>

-----------------------------------------------------------------------------
(* What happens around the lifecycle *)

Tick ==
    /\ now < MaxTime
    /\ now' = now + 1
    /\ UNCHANGED <<registry, distributed, withdrawn, consent, rows, access,
                   compat, tx>>

(* Published releases are insert-only, one per app and version.            *)
SeedRelease(r) ==
    /\ r.profile \in RegistryProfiles
    /\ \A s \in registry : ~(s.app = r.app /\ s.version = r.version)
    /\ registry' = registry \cup {r}
    /\ UNCHANGED <<now, distributed, withdrawn, consent, rows, access,
                   compat, tx>>

(* Approving and revoking a test assignment; a revoked one is terminal.    *)
Distribute(r) ==
    /\ r.profile \in SourcedProfiles
    /\ r \notin distributed \cup withdrawn
    /\ distributed' = distributed \cup {r}
    /\ UNCHANGED <<now, registry, withdrawn, consent, rows, access, compat,
                   tx>>

(* Mutant: the source's locks end before the installation commits          *)
NothingHeld(r) == FALSE

(* The transaction in progress share-locks its release and assignment.     *)
ReleaseHeld(r) == tx # None /\ tx.release = r

StopDistribution(r) ==
    /\ r \in distributed
    /\ ~ReleaseHeld(r)
    /\ distributed' = distributed \ {r}
    /\ withdrawn' = withdrawn \cup {r}
    /\ UNCHANGED <<now, registry, consent, rows, access, compat, tx>>

-----------------------------------------------------------------------------
OwnerStep(o, k) ==
    \/ \E i \in Intents :
          \/ \E r \in Releases : Prepare(o, k, i, r)
          \/ Deny(o, k, i)
          \/ BeginConsent(o, k, i)
          \/ BeginConsume(o, k, i)
    \/ \E id \in Installations :
          \/ \E op \in {"activate", "issue_token"} : BeginAccess(o, k, id, op)
          \/ Uninstall(o, k, id)

CommitStep ==
    \/ CommitConsent
    \/ \E id \in Installations : CommitConsume(id)
    \/ CommitActivate
    \/ CommitActivateAgain
    \/ \E t \in Tokens : CommitIssueToken(t)
    \/ Rollback

LegacyStep(u) ==
    \/ \E k \in Keys, type \in {"install", "activate", "uninstall"},
          r \in Releases : LegacyRead(u, k, type, r)
    \/ LegacyRefuse(u)
    \/ \E id \in Installations : LegacyInstall(u, id)
    \/ LegacyActivate(u)
    \/ LegacyUninstall(u)
    \/ LegacyUnchanged(u)

EnvironmentStep ==
    \/ Tick
    \/ \E r \in Releases :
          SeedRelease(r) \/ Distribute(r) \/ StopDistribution(r)

Next ==
    \/ \E o \in Owners, k \in Keys : OwnerStep(o, k)
    \/ CommitStep
    \/ \E u \in Users : LegacyStep(u)
    \/ \E a \in Apps : CompleteCleanup(a)
    \/ EnvironmentStep

Spec == Init /\ [][Next]_vars

-----------------------------------------------------------------------------
(* Safety *)

LiveToken(t) == tokens[t] # None /\ ~tokens[t].revoked

(* Whatever path ended an installation, no live app token survives it: a   *)
(* token that is not revoked belongs to the current, active row of its app *)
(* with an active grant of exactly the consented scopes, and it is the     *)
(* only live token of that installation.                                   *)
TokenAuthority ==
    \A t \in Tokens : LiveToken(t) =>
        LET id == tokens[t].ins IN
        /\ consumptions[id] # None
        /\ StatusOf(id) = "active"
        /\ grants[id].state = "active"
        /\ grants[id].scopes = ReleaseOf(id).scopes
        /\ \A u \in Tokens : LiveToken(u) /\ tokens[u].ins = id => u = t

(* The grant that the status of an installation calls for *)
DueGrant(id) ==
    CASE StatusOf(id) = "pending" -> [state |-> "pending", scopes |-> {}]
      [] StatusOf(id) = "active" ->
            [state |-> "active", scopes |-> ReleaseOf(id).scopes]
      [] OTHER -> [state |-> "revoked", scopes |-> {}]

(* The grant table never disagrees with the installation row, so the gates *)
(* that read one or both (activeGrant, WithAppAccess) decide alike; the    *)
(* grant of a superseded installation stays revoked, and a live row is the *)
(* one its owner consented to.                                             *)
GrantFollowsRow ==
    \A id \in Installations :
        IF consumptions[id] = None THEN grants[id] = None
        ELSE /\ grants[id] = DueGrant(id)
             /\ StatusOf(id) \in Live => RowAgrees(id)

(* A row names an intent exactly when its installation was created by      *)
(* consuming that intent: the compatibility lifecycle, which keeps the     *)
(* intent_id of the row it writes, never takes over such a row.            *)
RowProvenance ==
    \A a \in Apps : installs[a] # None =>
        LET id == installs[a].id IN
        IF installs[a].intent = None THEN consumptions[id] = None
        ELSE /\ consumptions[id] # None
             /\ consumptions[id].intent = installs[a].intent
             /\ AppOf(id) = a

(* An intent is consumed by at most one installation, after its owner's    *)
(* consent and before it expires.                                          *)
ConsentSpentOnce ==
    \A id \in Installations : consumptions[id] # None =>
        /\ IntentOf(id).state = "consented"
        /\ consumptions[id].at < IntentOf(id).expires
        /\ \A other \in Installations \ {id} :
              consumptions[other] # None =>
                  consumptions[other].intent # consumptions[id].intent

(* Two active installations never answer for the same capability, whichever*)
(* of the two lifecycles activated them: WithActive takes the only row.    *)
RoutingExclusive ==
    \A a, b \in Apps :
        /\ a # b
        /\ installs[a] # None /\ installs[a].status = "active"
        /\ installs[b] # None /\ installs[b].status = "active"
        => installs[a].caps \cap installs[b].caps = {}

ServesEngine(id) ==
    /\ consumptions[id] # None
    /\ StatusOf(id) = "active"
    /\ ReleaseOf(id).profile \in EngineProfiles

(* An engine provider is bound to at most one active installation, as      *)
(* ManagedTarget expects.                                                  *)
ProviderExclusive ==
    \A id, other \in Installations :
        ServesEngine(id) /\ ServesEngine(other) /\ id # other
        => ReleaseOf(id).provider # ReleaseOf(other).provider

OneEach(receipts) ==
    \A r, s \in receipts : r.owner = s.owner /\ r.key = s.key => r = s

(* A key stands for one effect, however often and however concurrently it  *)
(* is sent, and every effect has the one receipt that replays it.          *)
ReceiptsMatchEffects ==
    /\ OneEach(intentRequests) /\ OneEach(accessRequests)
    /\ OneEach(idempotency)
    /\ \A i \in Intents : intents[i] # None =>
          Cardinality({r \in intentRequests : r.intent = i})
              = IF intents[i].state = "pending" THEN 1 ELSE 2
    /\ \A id \in Installations : consumptions[id] # None =>
          Cardinality({r \in accessRequests :
                          r.op = "consume" /\ r.ins = id}) = 1
    /\ \A t \in Tokens : tokens[t] # None =>
          Cardinality({r \in accessRequests : r.token = t}) = 1

StatusAfter(kind) == CASE kind = "installed" -> "pending"
                       [] kind = "activated" -> "active"
                       [] OTHER -> kind

(* The outbox tells each installation's story: it starts with "installed", *)
(* says nothing twice, and its last event is the status the row shows (a   *)
(* superseded installation ended "uninstalled").                           *)
EventsTellTheStory ==
    \A id \in Installations : events[id] # <<>> =>
        LET last == StatusAfter(events[id][Len(events[id])]) IN
        /\ events[id][1] = "installed"
        /\ \A m, n \in 1..Len(events[id]) :
              events[id][m] = events[id][n] => m = n
        /\ (\E a \in Apps : installs[a] # None /\ installs[a].id = id)
              => \E a \in Apps : /\ installs[a] # None /\ installs[a].id = id
                                 /\ installs[a].status = last
        /\ (\A a \in Apps : installs[a] # None => installs[a].id # id)
              => last = "uninstalled"

(* The intents, installations and tokens that a step gives new authority   *)
NewConsent(i) == /\ intents'[i] # None /\ intents'[i].state = "consented"
                 /\ intents[i] # intents'[i]
NewAuthority(id) ==
    /\ consumptions'[id] # None
    /\ \/ grants'[id] # grants[id] /\ grants'[id].state # "revoked"
       \/ \E t \in Tokens : tokens[t] = None /\ tokens'[t] # None
                                             /\ tokens'[t].ins = id
Sourced(r) == r.profile \in SourcedProfiles

(* No consent, installation or activation of a sourced release commits     *)
(* after its assignment was withdrawn, although source and installation    *)
(* are locked by different transactions.                                   *)
AuthorityUnderDistribution ==
    [][/\ \A i \in Intents : NewConsent(i) =>
             LET r == intents[i].release IN Sourced(r) => r \in distributed
       /\ \A id \in Installations : NewAuthority(id) =>
             LET r == intents[consumptions'[id].intent].release IN
             Sourced(r) => r \in distributed]_vars
=============================================================================
