---------------------------- MODULE EngineGrants ----------------------------
(***************************************************************************)
(* What the engines are told of a merchant's installations.  The shipping  *)
(* engine asks for provider grants: one statement reads a numbered answer, *)
(* and the engine may keep it and compare it with later ones.  The local   *)
(* managed engine asks whether it may act now: the platform finds the      *)
(* installation, holds its distributed release, and decides under the      *)
(* merchant's lock.                                                        *)
(***************************************************************************)
EXTENDS Installation

CONSTANT Enrolled   \* the apps of the grant configuration and their provider

ASSUME EnrolledAssumption == Enrolled \in [Apps -> Providers \cup {None}]

VARIABLES
    revision,   \* access_grants.provider_revision
    heard,      \* a grant answer the engine once got, or None
    check       \* the managed check in progress, or None

engineVars == <<revision, heard, check>>
allVars    == <<vars, engineVars>>

AnswerType ==
    [ins : Installations, revision : Nat, active : BOOLEAN,
     revoked : BOOLEAN, scopes : SUBSET Scopes]
CheckType ==
    [at : {"target", "held", "allowed"}, ins : Installations,
     release : Releases]

(* The answers and the checks keep their shape.                            *)
EngineTypeOK ==
    /\ revision \in [Installations -> Nat]
    /\ heard \in AnswerType \cup {None}
    /\ check \in CheckType \cup {None}

EngineInit ==
    /\ Init
    /\ revision = [id \in Installations |-> 0]
    /\ heard = None
    /\ check = None

-----------------------------------------------------------------------------
(* The lifecycle, under its trigger and the engine's locks *)

(* Mutant: the number a grant was made with is kept                        *)
NumberedOnce ==
    revision' = [id \in Installations |->
                    IF grants[id] = None /\ grants'[id] # None
                    THEN revision[id] + 1 ELSE revision[id]]

(* A new grant takes the sequence's next number, and so does every update  *)
(* of one, whichever statement made it.  Only the numbers of one           *)
(* installation are ever compared, so each counts its own.                 *)
NumberGrants ==
    revision' = [id \in Installations |->
                    IF grants'[id] # grants[id]
                    THEN revision[id] + 1 ELSE revision[id]]

HeldByCheck == IF check # None /\ check.at # "target"
               THEN {check.release} ELSE {}

(* A release that a check holds is not withdrawn meanwhile.                *)
LifecycleStep ==
    /\ Next
    /\ NumberGrants
    /\ HeldByCheck \subseteq distributed'
    /\ UNCHANGED <<heard, check>>

-----------------------------------------------------------------------------
(* Provider grants *)

(* The installations the engine is told of: the current row, created by    *)
(* the intent it consumed, of an app enrolled with its own provider.       *)
Targets ==
    {id \in Installations :
        /\ consumptions[id] # None
        /\ IsCurrent(id)
        /\ installs[AppOf(id)].intent = consumptions[id].intent
        /\ ReleaseOf(id).provider # None
        /\ Enrolled[AppOf(id)] = ReleaseOf(id).provider}

Snapshot(id) ==
    [ins |-> id, revision |-> revision[id],
     active |-> StatusOf(id) = "active" /\ grants[id].state = "active",
     revoked |-> \/ grants[id].state = "revoked"
                 \/ StatusOf(id) \notin Live,
     scopes |-> grants[id].scopes \cap ReleaseOf(id).scopes]

Operations == {"binding.read", "rates.read", "settings.read",
               "tracking.read", "settings.write", "shipments.create"}

Required(operation) ==
    CASE operation = "binding.read" -> {}
      [] operation \in {"settings.write", "shipments.create"} ->
            {"shipping.write"}
      [] OTHER -> {"shipping.read"}

(* Asking about a binding is never denied for its state; asking about an   *)
(* operation is, unless the grant is live and has its scope.               *)
CheckGrant(id, operation) ==
    LET v == Snapshot(id) IN
    /\ id \in Targets
    /\ v.revision >= 1
    /\ Required(operation) # {} =>
            v.active /\ ~v.revoked /\ Required(operation) \subseteq v.scopes
    /\ heard = None
    /\ heard' = [v EXCEPT !.scopes = IF v.active /\ ~v.revoked THEN @ ELSE {}]
    /\ UNCHANGED <<vars, revision, check>>

-----------------------------------------------------------------------------
(* The managed check *)

ActiveManaged(provider) ==
    {id \in Installations :
        /\ consumptions[id] # None
        /\ StatusOf(id) = "active"
        /\ grants[id].state = "active"
        /\ ReleaseOf(id).profile = "managed-shipping-local"
        /\ ReleaseOf(id).provider = provider}

(* Exactly one installation answers for the provider, and its row is the   *)
(* consented one; nothing is locked yet.                                   *)
ManagedTarget(provider, id) ==
    /\ check = None
    /\ ActiveManaged(provider) = {id}
    /\ RowAgrees(id)
    /\ check' = [at |-> "target", ins |-> id, release |-> ReleaseOf(id)]
    /\ UNCHANGED <<vars, revision, heard>>

(* The release source share-locks release and assignment; they are still   *)
(* those the merchant consented to.                                        *)
HoldRelease ==
    /\ check # None /\ check.at = "target"
    /\ OnlyDistributed(check.release)
    /\ check' = [check EXCEPT !.at = "held"]
    /\ UNCHANGED <<vars, revision, heard>>

(* Mutant: the installation found before the locks is trusted              *)
AllowTarget ==
    /\ check # None /\ check.at = "held"
    /\ LockFree
    /\ check' = [check EXCEPT !.at = "allowed"]
    /\ UNCHANGED <<vars, revision, heard>>

(* The decision, under the merchant's lock                                 *)
WithManagedAccess ==
    /\ check # None /\ check.at = "held"
    /\ LockFree
    /\ StatusOf(check.ins) = "active"
    /\ RowAgrees(check.ins)
    /\ grants[check.ins] = [state |-> "active", scopes |-> {"shipping.read"}]
    /\ check' = [check EXCEPT !.at = "allowed"]
    /\ UNCHANGED <<vars, revision, heard>>

(* The locks end, and the answer goes out, whatever it is.                 *)
EndCheck ==
    /\ check # None
    /\ check' = None
    /\ UNCHANGED <<vars, revision, heard>>

EngineStep ==
    \/ \E id \in Installations :
          \/ \E operation \in Operations : CheckGrant(id, operation)
          \/ \E provider \in Providers : ManagedTarget(provider, id)
    \/ HoldRelease
    \/ WithManagedAccess
    \/ EndCheck

EngineNext == LifecycleStep \/ EngineStep

EngineSpec == EngineInit /\ [][EngineNext]_allVars

-----------------------------------------------------------------------------
(* Safety *)

(* An engine that keeps grant answers can order them by their revision,    *)
(* however late they arrive: of two answers about an installation the      *)
(* later one never has the smaller number, equal numbers mean equal        *)
(* answers, and a revoked grant is revoked in every later answer.          *)
GrantAnswersAreOrdered ==
    heard # None /\ heard.ins \in Targets =>
        LET later == Snapshot(heard.ins) IN
        /\ heard.revision <= later.revision
        /\ heard.revision = later.revision => heard = later
        /\ heard.revoked => later.revoked

Allowing == check' # None /\ check'.at = "allowed" /\ check # check'

(* A managed engine is allowed to act only for the one installation that   *)
(* serves its provider at that moment, under a grant that is active and a  *)
(* release that is still distributed to the merchant, although target,     *)
(* release and grant are read by three transactions.                       *)
EngineAnswersAreCurrent ==
    [][Allowing =>
         /\ ActiveManaged(ReleaseOf(check.ins).provider) = {check.ins}
         /\ ReleaseOf(check.ins) \in distributed]_allVars
=============================================================================
