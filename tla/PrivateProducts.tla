---------------------------- MODULE PrivateProducts ----------------------------
(***************************************************************************)
(* Apps that only their owner installs, to read the products of a store.   *)
(*                                                                         *)
(* Creating any app makes its credential, in the same transaction; an app  *)
(* of the private form is given its one signed version there as well, with *)
(* no review and no assignment.  Consent, and each read, then hold in one  *)
(* order: the version, the owner's account, the app's credential, all      *)
(* three shared, and the store.  The version is immutable, so holding it   *)
(* keeps nobody waiting; the account and the credential are changed under  *)
(* exclusive locks.  An operator disables accounts; the code only reads    *)
(* that.  Consent and activation are one step, as in ResourceAccess.       *)
(***************************************************************************)
EXTENDS ResourceAccess

CONSTANT MaxSecret  \* bound: secrets an app ever has

ASSUME PrivateAssumption == MaxSecret \in Nat \ {0}

VARIABLES
    secret,    \* application_credentials.version, 0 while there is no row
    private,   \* private_product_versions, None while there is no row
    enabled,   \* portal_accounts.enabled of the app's owner
    grants,    \* installations of the private app, in the order made
    requests   \* consents and reads under way

privateVars == <<secret, private, enabled, grants, requests>>

RequestType ==
    [do : {"consent", "use"}, merchant : Merchants,
     actor : {"owner", "other"},      \* the Core identity that Core asserts
     grant : Nat, scope : Scope \cup {None},
     at : {"begun", "owner", "credential", "store"}]

\* None is no request.
ASSUME PrivateNoneAssumption == None \notin RequestType

PrivateTypeOK ==
    /\ secret \in 0 .. MaxSecret
    /\ private \in Document \cup {None}
    /\ enabled \in BOOLEAN
    /\ grants \in Seq([merchant : Merchants, document : Document,
                       active : BOOLEAN])
    /\ requests \in [Ops -> RequestType \cup {None}]

PrivateInit ==
    /\ secret = 0 /\ private = None /\ enabled = TRUE
    /\ grants = <<>>
    /\ requests = [o \in Ops |-> None]

----------------------------------------------------------------------------
(* The app and its credential *)

\* Holding a lock keeps all those taken before it.
OwnerHeld ==
    \E o \in Ops : /\ requests[o] # None
                   /\ requests[o].at \in {"owner", "credential", "store"}
CredentialHeld ==
    \E o \in Ops : /\ requests[o] # None
                   /\ requests[o].at \in {"credential", "store"}
StoreHeld(m) ==
    \E o \in Ops : /\ requests[o] # None /\ requests[o].merchant = m
                   /\ requests[o].at = "store"

\* CreatePrivateProductTx.
SignedVersion(d) == IF Public(d) THEN None ELSE d

\* SaveDraft of a new app, with OnDraftCreated where credentials are set up.
\* Without it a private app is refused.
CreateApp(d, hook) ==
    /\ Revision = 0
    /\ Public(d) \/ hook
    /\ Save(0, d)
    /\ secret' = IF hook THEN 1 ELSE 0
    /\ private' = SignedVersion(d)
    /\ UNCHANGED <<distributionVars, accessVars, enabled, grants, requests>>

\* SaveDraft of an app that exists: what was signed stays as it was.
EditApp(d) ==
    /\ Revision > 0
    /\ Save(Revision, d)
    /\ UNCHANGED <<distributionVars, accessVars, privateVars>>

\* BackfillApplicationCredentials: an app from before credentials gets one.
Backfill ==
    /\ Revision > 0 /\ secret = 0
    /\ secret' = 1
    /\ UNCHANGED <<authoringVars, distributionVars, accessVars,
                   private, enabled, grants, requests>>

\* Rotate names the version it replaces.
RotateSecret(version) ==
    /\ secret > 0 /\ version = secret /\ secret < MaxSecret
    /\ ~CredentialHeld
    /\ secret' = secret + 1
    /\ UNCHANGED <<authoringVars, distributionVars, accessVars,
                   private, enabled, grants, requests>>

\* An operator's UPDATE of the owner's account.
SetEnabled(on) ==
    /\ enabled # on
    /\ ~OwnerHeld
    /\ enabled' = on
    /\ UNCHANGED <<authoringVars, distributionVars, accessVars,
                   secret, private, grants, requests>>

----------------------------------------------------------------------------
(* Requests under the locks *)

otherThanRequests ==
    <<authoringVars, distributionVars, accessVars,
      secret, private, enabled, grants>>

To(o, at) == requests' = [requests EXCEPT ![o].at = at]
Stands(o, at) == requests[o] # None /\ requests[o].at = at

\* Prepare, Decide and Consume each find the version of the app.
BeginConsent(o, m, actor) ==
    /\ requests[o] = None
    /\ private # None
    /\ requests' = [requests EXCEPT ![o] =
           [do |-> "consent", merchant |-> m, actor |-> actor, grant |-> 0,
            scope |-> None, at |-> "begun"]]
    /\ UNCHANGED otherThanRequests

\* Authenticate compares the secret without a lock, and GetAccess finds only
\* what the same actor installed in the store, of whatever state.
BeginUse(o, i, presented, path, view) ==
    /\ requests[o] = None
    /\ presented = secret
    /\ Valid(path, view)
    /\ requests' = [requests EXCEPT ![o] =
           [do |-> "use", merchant |-> grants[i].merchant, actor |-> "owner",
            grant |-> i, scope |-> Operation(path, view), at |-> "begun"]]
    /\ UNCHANGED otherThanRequests

\* WithPrivateProducts, then WithCoreOwner.
HoldOwner(o) ==
    /\ Stands(o, "begun")
    /\ private # None
    /\ enabled /\ requests[o].actor = "owner"
    /\ To(o, "owner")
    /\ UNCHANGED otherThanRequests

\* OwnsOrganizationTx and ClientIDTx: both rows are there for good, and a
\* rotation keeps the client's name.
HoldCredential(o) ==
    /\ Stands(o, "owner")
    /\ secret > 0
    /\ To(o, "credential")
    /\ UNCHANGED otherThanRequests

\* WithResourceAccess: the release is the one that was consented to.
SendUse(o) ==
    /\ Stands(o, "credential") /\ requests[o].do = "use"
    /\ ~StoreHeld(requests[o].merchant)
    /\ LET g == grants[requests[o].grant]
       IN  g.active /\ g.document = private
    /\ Allows({"read_products"}, {requests[o].scope})
    /\ To(o, "store")
    /\ UNCHANGED otherThanRequests

\* Consume commits while the source is still held.
CommitConsent(o) ==
    /\ Stands(o, "credential") /\ requests[o].do = "consent"
    /\ LET m == requests[o].merchant
       IN  /\ ~StoreHeld(m)
           /\ \A i \in DOMAIN grants :
                  ~(grants[i].merchant = m /\ grants[i].active)
           /\ Len(grants) < MaxInstallations
           /\ grants' = Append(grants, [merchant |-> m, document |-> private,
                                        active |-> TRUE])
    /\ requests' = [requests EXCEPT ![o] = None]
    /\ UNCHANGED <<authoringVars, distributionVars, accessVars,
                   secret, private, enabled>>

\* The answer, a refusal, a failed step or the end of its time.
EndPrivate(o) ==
    /\ requests[o] # None
    /\ requests' = [requests EXCEPT ![o] = None]
    /\ UNCHANGED otherThanRequests

\* Uninstall, which asks nothing of the source.
UninstallPrivate(i) ==
    /\ grants[i].active
    /\ ~StoreHeld(grants[i].merchant)
    /\ grants' = [grants EXCEPT ![i].active = FALSE]
    /\ UNCHANGED <<authoringVars, distributionVars, accessVars,
                   secret, private, enabled, requests>>

PrivateNext(forms) ==
    \/ \E d \in [version : Versions, form : forms] :
           EditApp(d) \/ \E hook \in BOOLEAN : CreateApp(d, hook)
    \/ Backfill
    \/ \E version \in 1 .. MaxSecret : RotateSecret(version)
    \/ \E on \in BOOLEAN : SetEnabled(on)
    \/ \E o \in Ops :
           \/ \E m \in Merchants, actor \in {"owner", "other"} :
                  BeginConsent(o, m, actor)
           \/ \E i \in DOMAIN grants, presented \in 1 .. MaxSecret,
                 p \in Paths, view \in {"none", "inventory"} :
                  BeginUse(o, i, presented, p, view)
           \/ HoldOwner(o) \/ HoldCredential(o)
           \/ SendUse(o) \/ CommitConsent(o) \/ EndPrivate(o)
    \/ \E i \in DOMAIN grants : UninstallPrivate(i)

----------------------------------------------------------------------------
(* Properties *)

\* While the store's products are read for a private app, its owner's account
\* stays enabled and the installation stays active, and what is read is what
\* the store consented to, under the version signed with the app, whatever
\* became of the draft, the account or the installation since the request.
PrivateReadsAreAuthorised ==
    \A o \in Ops : Stands(o, "store") =>
        LET g == grants[requests[o].grant]
        IN  /\ g.active /\ g.merchant = requests[o].merchant
            /\ g.document = private /\ g.document = saved[1]
            /\ ~Public(g.document)
            /\ enabled /\ requests[o].scope = "read_products"

\* An installation of a private app commits for its owner alone, and only
\* while the owner's account is enabled.
PrivateConsentIsOwned ==
    Len(grants') > Len(grants) =>
        /\ enabled /\ enabled'
        /\ \E o \in Ops : /\ requests[o] # None /\ requests'[o] = None
                          /\ requests[o].actor = "owner"
                          /\ requests[o].merchant = grants'[Len(grants')].merchant
=============================================================================
