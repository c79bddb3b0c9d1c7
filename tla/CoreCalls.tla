----------------------------- MODULE CoreCalls ------------------------------
(***************************************************************************)
(* The calls Core makes with its keys, from the public ingress or on the   *)
(* internal listener to the handler that runs them, while administrators   *)
(* revoke keys.  What a handler then does to intents, installations,       *)
(* assignments and payments is the subject of other modules; registering a *)
(* merchant, which happens nowhere else, is modelled to its end.           *)
(***************************************************************************)
EXTENDS CoreKeys, FiniteSets

CONSTANTS
    RpcCalls,
    Slots,          \* calls the ingress lets in at a time
    Merchants,      \* ids Core asserts
    Home            \* the workspace of every managed key

ASSUME CallsAssumption == Slots \in Nat /\ Home \in Merchants

Procedures == {"check", "ensure", "testing", "intent", "lifecycle", "invoke"}

\* The control plane is exposed; execution stays on the internal listener.
coreProcedures == Procedures \ {"invoke"}

VARIABLES
    rpc,        \* each call
    workspaces  \* platform_identity.workspaces: who registered each merchant

callVars == <<rpc, workspaces>>

RpcStages == {"admitted", "caller", "shared", "inserted", "found", "running"}
RpcType ==
    [at : RpcStages, public : BOOLEAN, key : KeyCalls,
     procedure : Procedures, merchant : Merchants]
WorkspaceType == [by : KeyCalls \cup {None}]

\* None is no call, none of its stages and no workspace.
ASSUME RpcAssumption ==
    None \notin RpcType /\ None \notin RpcStages /\ None \notin WorkspaceType

CallsTypeOK ==
    /\ rpc \in [RpcCalls -> RpcType \cup {None}]
    /\ workspaces \in [Merchants -> WorkspaceType \cup {None}]

\* A workspace that was seeded names no key.
CallsInit ==
    /\ rpc = [r \in RpcCalls |-> None]
    /\ workspaces = [m \in Merchants |->
            IF m = Home THEN [by |-> None] ELSE None]

RpcAt(r) == IF rpc[r] = None THEN None ELSE rpc[r].at
RpcTo(r, at) == rpc' = [rpc EXCEPT ![r].at = at]
Platform(r) == keys[rpc[r].key].kind = "platform"

----------------------------------------------------------------------------
(* Into the platform *)

InFlight == {r \in RpcCalls : rpc[r] # None /\ rpc[r].public}

\* ExposeCore refuses a call it does not list, one over the rate, and one
\* that finds every slot taken; the internal listener takes any.
Admit(r, public, c, procedure, m) ==
    /\ rpc[r] = None
    /\ keys[c] # None
    /\ public =>
        /\ procedure \in coreProcedures
        /\ Cardinality(InFlight) < Slots
    /\ rpc' = [rpc EXCEPT ![r] = [at |-> "admitted", public |-> public,
            key |-> c, procedure |-> procedure, merchant |-> m]]
    /\ UNCHANGED <<keyVars, workspaces>>

\* The interceptor finds the key by its token; through the ingress only a
\* platform key is taken.
Intercept(r) ==
    /\ RpcAt(r) = "admitted"
    /\ KeyAuthenticates(rpc[r].key)
    /\ rpc[r].public => Platform(r)
    /\ RpcTo(r, "caller")
    /\ UNCHANGED <<keyVars, workspaces>>

\* A platform key names any tenant, a managed key only its own.
BindTenant(r) == Platform(r) \/ rpc[r].merchant = Home

\* The key is looked up again, with the workspace.
Authorize(r) ==
    /\ KeyAuthenticates(rpc[r].key)
    /\ workspaces[rpc[r].merchant] # None

\* A handler whose service authorizes the caller once more
Run(r, procedure) ==
    /\ RpcAt(r) = "caller"
    /\ rpc[r].procedure = procedure
    /\ BindTenant(r)
    /\ Authorize(r)
    /\ RpcTo(r, "running")
    /\ UNCHANGED <<keyVars, workspaces>>

IntentCall(r)    == Run(r, "intent")
LifecycleCall(r) == Run(r, "lifecycle") /\ Platform(r)
TestingCall(r)   == Run(r, "testing") /\ Platform(r)
Invoke(r)        == Run(r, "invoke")

\* What the handler does is over, or there was only the caller to report.
Complete(r) ==
    /\ \/ RpcAt(r) = "running"
       \/ RpcAt(r) = "caller" /\ rpc[r].procedure = "check"
    /\ rpc' = [rpc EXCEPT ![r] = None]
    /\ UNCHANGED <<keyVars, workspaces>>

\* A refusal, a deadline of ten seconds, a lost client, a rollback
Refuse(r) ==
    /\ rpc[r] # None
    /\ rpc' = [rpc EXCEPT ![r] = None]
    /\ UNCHANGED <<keyVars, workspaces>>

----------------------------------------------------------------------------
(* Registering a merchant *)

\* The transaction share-locks a key that is not revoked.
EnsureMerchant(r) ==
    /\ RpcAt(r) = "caller"
    /\ rpc[r].procedure = "ensure"
    /\ Platform(r)
    /\ ~keys[rpc[r].key].revoked
    /\ RpcTo(r, "shared")
    /\ UNCHANGED <<keyVars, workspaces>>

\* The insert waits for one of the same id that has not committed.
InsertMerchant(r) ==
    /\ RpcAt(r) = "shared"
    /\ \A s \in RpcCalls :
        RpcAt(s) = "inserted" => rpc[s].merchant # rpc[r].merchant
    /\ RpcTo(r, IF workspaces[rpc[r].merchant] = None
                THEN "inserted" ELSE "found")
    /\ UNCHANGED <<keyVars, workspaces>>

\* The row and its audit; a merchant that was there is left alone.
CommitMerchant(r) ==
    /\ RpcAt(r) \in {"inserted", "found"}
    /\ workspaces' = IF RpcAt(r) = "found" THEN workspaces
                     ELSE [workspaces EXCEPT ![rpc[r].merchant] =
                                [by |-> rpc[r].key]]
    /\ rpc' = [rpc EXCEPT ![r] = None]
    /\ UNCHANGED keyVars

Shared(c) == \E r \in RpcCalls :
    /\ RpcAt(r) \in {"shared", "inserted", "found"}
    /\ rpc[r].key = c

\* A revocation takes the key's row for update.
RevokeUnshared(c) == ~Shared(c) /\ RevokeKey(c) /\ UNCHANGED callVars

CallsNext ==
    \/ \E r \in RpcCalls :
        \/ \E public \in BOOLEAN, c \in KeyCalls, p \in Procedures,
              m \in Merchants : Admit(r, public, c, p, m)
        \/ Intercept(r)
        \/ IntentCall(r) \/ LifecycleCall(r) \/ TestingCall(r) \/ Invoke(r)
        \/ Complete(r) \/ Refuse(r)
        \/ EnsureMerchant(r) \/ InsertMerchant(r) \/ CommitMerchant(r)
    \/ \E c \in KeyCalls :
        \/ RevokeUnshared(c)
        \/ KeyExpires(c) /\ UNCHANGED callVars

----------------------------------------------------------------------------
(* Properties *)

\* A merchant is registered once, however many calls ask for it at once, and
\* never by a key that was revoked before, although the key was checked when
\* the call came in and the registration commits later.
RevokedRegistersNothing ==
    \A m \in Merchants : workspaces'[m] # workspaces[m] =>
        /\ workspaces[m] = None
        /\ ~keys[workspaces'[m].by].revoked
=============================================================================
