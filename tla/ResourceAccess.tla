---------------------------- MODULE ResourceAccess ----------------------------
(***************************************************************************)
(* Apps with a reviewed interface, and what they read of a store.          *)
(*                                                                         *)
(* Such an app has, for each release, a client whose endpoint was proved   *)
(* and a launch an administrator approved.  A store installs it, opens it, *)
(* and the app reads the store's resources, each time under locks taken in *)
(* one order: release, assignment, client, launch, store.  The first four  *)
(* are shared with other requests; the last is the lock every change of    *)
(* the store's installations takes.  A read keeps them all while the       *)
(* upstream service answers.  How a client proves itself is in AppClients, *)
(* how an installation comes about in Installation: here a store consents  *)
(* and activates in one step.                                              *)
(***************************************************************************)
EXTENDS Distribution

CONSTANTS
    Paths,            \* resources that requests name
    RequiredScopes,   \* the scopes that a resource release asks for
    MaxInstallations  \* bound: installations ever made

ASSUME ResourceAssumption == MaxInstallations \in Nat

VARIABLES
    clients,        \* app_clients, by release
    launches,       \* embedded_launches, by release
    installations,  \* installations of reviewed apps, in the order made
    asked           \* what a reading request asked for

accessVars == <<clients, launches, installations, asked>>

Scope == {"read_products", "read_inventory", "read_locations",
          "read_catalogs", "read_collections", "read_orders", "read_shipping"}

\* "verified" has proved its endpoint, "ready" has a secret as well.
ClientStatus == {"none", "pending", "verified", "ready", "revoked"}
LaunchStatus == {"none", "submitted", "approved", "rejected", "revoked"}

AskedType ==
    [installation : Nat, client : Nat \cup {None}, scope : Scope \cup {None}]

\* None is nothing that a request asks for.
ASSUME AccessNoneAssumption == None \notin AskedType /\ None \notin Scope

AccessTypeOK ==
    /\ clients \in [1 .. MaxReleases -> ClientStatus]
    /\ launches \in [1 .. MaxReleases -> LaunchStatus]
    /\ installations \in
           Seq([merchant : Merchants, assignment : Nat, active : BOOLEAN])
    /\ asked \in [Ops -> AskedType \cup {None}]

AccessInit(client, launch) ==
    /\ clients = [r \in 1 .. MaxReleases |-> client]
    /\ launches = [r \in 1 .. MaxReleases |-> launch]
    /\ installations = <<>>
    /\ asked = [o \in Ops |-> None]

\* ResourceOperation: the scope a request needs, None if it is refused.
Operation(path, view) ==
    IF view = "inventory"
    THEN IF path = "products" THEN "read_inventory" ELSE None
    ELSE CASE path = "products" -> "read_products"
           [] path = "locations" -> "read_locations"
           [] path = "catalogs" -> "read_catalogs"
           [] path = "collections" -> "read_collections"
           [] path = "orders" -> "read_orders"
           [] path = "shipping" -> "read_shipping"
           [] OTHER -> None

\* ValidateResourceQuery.
Valid(path, view) == Operation(path, view) # None

\* apppermission.Allows, of an installation that is active.
Allows(scopes, required) == required # {} /\ required \subseteq scopes

----------------------------------------------------------------------------
(* Locks *)

\* Mutant: the client is let go before the launch is taken.
HeldByClientStep(r) ==
    \E o \in Busy : ops[o].release = r /\ ops[o].at = "client"

ClientHeld(r) ==
    \E o \in Busy : /\ ops[o].release = r
                    /\ ops[o].at \in {"client", "launch", "tenant"}
LaunchHeld(r) ==
    \E o \in Busy : /\ ops[o].release = r
                    /\ ops[o].at \in {"launch", "tenant"}
TenantHeld(m) ==
    \E o \in Busy : ops[o].merchant = m /\ ops[o].at = "tenant"

----------------------------------------------------------------------------
(* Clients and launches *)

\* WithReady and Authenticate: the release is signed, the client has a secret.
Authenticated(r) == Signed(r) /\ clients[r] = "ready"

\* Registration and challenge need the signed release, revocation does not.
MayBecome(from, to) ==
    \/ from = "none" /\ to = "pending"
    \/ from \in {"pending", "verified", "ready"} /\ to = "pending"
    \/ from = "pending" /\ to = "verified"
    \/ from \in {"verified", "ready"} /\ to = "ready"
    \/ from # "none" /\ to = "revoked"

ChangeClient(r, status) ==
    /\ MayBecome(clients[r], status)
    /\ status # "revoked" => clients[r] # "revoked" /\ Signed(r)
    /\ ~ClientHeld(r)
    /\ clients' = [clients EXCEPT ![r] = status]
    /\ UNCHANGED <<authoringVars, distributionVars,
                   launches, installations, asked>>

SetLaunch(r, status) ==
    /\ launches' = [launches EXCEPT ![r] = status]
    /\ UNCHANGED <<authoringVars, distributionVars,
                   clients, installations, asked>>

\* Submit: a launch is submitted while the client is ready.
SubmitLaunch(r) ==
    /\ launches[r] = "none"
    /\ Authenticated(r)
    /\ SetLaunch(r, "submitted")

\* Decide: it is approved while the client is ready, and rejected or revoked
\* at any time.
DecideLaunch(r, status) ==
    /\ \/ launches[r] = "submitted" /\ status \in {"approved", "rejected"}
       \/ launches[r] = "approved" /\ status = "revoked"
    /\ status = "approved" => Authenticated(r)
    /\ ~LaunchHeld(r)
    /\ SetLaunch(r, status)

----------------------------------------------------------------------------
(* Requests under the locks *)

otherThanRequest == <<otherThanOps, clients, launches, installations>>

\* A read begins by authenticating the app and finding the installation,
\* of whatever state, without any lock.
BeginRead(o, i, client, path, view) ==
    /\ Idle(o)
    /\ Authenticated(client)
    /\ Valid(path, view)
    /\ LET a == assignments[installations[i].assignment]
       IN  /\ releases[a.release].kind = "resource"
           /\ ops' = [ops EXCEPT ![o] =
                  [do |-> "read", release |-> a.release,
                   merchant |-> installations[i].merchant,
                   assignment |-> None, at |-> "read"]]
    /\ asked' = [asked EXCEPT ![o] =
           [installation |-> i, client |-> client,
            scope |-> Operation(path, view)]]
    /\ UNCHANGED otherThanRequest

\* Get: the merchant opens the app, without the app's credentials.
BeginOpen(o, i) ==
    /\ Idle(o)
    /\ ops' = [ops EXCEPT ![o] =
           [do |-> "open",
            release |-> assignments[installations[i].assignment].release,
            merchant |-> installations[i].merchant,
            assignment |-> None, at |-> "read"]]
    /\ asked' = [asked EXCEPT ![o] =
           [installation |-> i, client |-> None, scope |-> None]]
    /\ UNCHANGED otherThanRequest

\* withManaged: the release first; HoldAssignment follows.
HoldRelease(o) ==
    /\ \E do \in {"read", "open"} : At(o, do, "read")
    /\ ops' = [ops EXCEPT ![o].at = "release"]
    /\ UNCHANGED <<otherThanRequest, asked>>

\* WithBoundReady.
HoldClient(o) ==
    /\ ~Idle(o) /\ ops[o].do # "approve" /\ ops[o].at = "assignment"
    /\ Reviewed(ops[o].release)
    /\ clients[ops[o].release] = "ready"
    /\ ops' = [ops EXCEPT ![o].at = "client"]
    /\ UNCHANGED <<otherThanRequest, asked>>

\* WithApproved.
HoldLaunch(o) ==
    /\ ~Idle(o) /\ ops[o].at = "client"
    /\ launches[ops[o].release] = "approved"
    /\ ops' = [ops EXCEPT ![o].at = "launch"]
    /\ UNCHANGED <<otherThanRequest, asked>>

\* The installation was consented to for the release as it is held.
Eligible(o, i) ==
    /\ installations[i].active
    /\ installations[i].assignment = ops[o].assignment

\* The upstream call is made under all the locks.
SendRead(o) ==
    /\ At(o, "read", "launch")
    /\ ~TenantHeld(ops[o].merchant)
    /\ Eligible(o, asked[o].installation)
    /\ asked[o].client = ops[o].release
    /\ Allows(RequiredScopes, {asked[o].scope})
    /\ ops' = [ops EXCEPT ![o].at = "tenant"]
    /\ UNCHANGED <<otherThanRequest, asked>>

\* WithReviewedUIAccess and, for resource apps, WithResourceAccess.
GiveLaunch(o) ==
    /\ At(o, "open", "launch")
    /\ ~TenantHeld(ops[o].merchant)
    /\ Eligible(o, asked[o].installation)
    /\ ops' = [ops EXCEPT ![o].at = "tenant"]
    /\ UNCHANGED <<otherThanRequest, asked>>

Forget(o) == asked' = [asked EXCEPT ![o] = None]

\* The answer, its refusal, the failure of a step or the end of its time.
EndRequest(o) ==
    /\ Abandon(o)
    /\ Forget(o)
    /\ UNCHANGED <<clients, launches, installations>>

----------------------------------------------------------------------------
(* Installations *)

Active(m) ==
    {i \in DOMAIN installations :
        installations[i].merchant = m /\ installations[i].active}

\* A store has one installation of an app at a time.
InstallReviewed(o) ==
    /\ CommitInstall(o)
    /\ Reviewed(ops[o].release)
    /\ ~TenantHeld(ops[o].merchant)
    /\ Active(ops[o].merchant) = {}
    /\ Len(installations) < MaxInstallations
    /\ installations' = Append(installations,
           [merchant |-> ops[o].merchant,
            assignment |-> ops[o].assignment, active |-> TRUE])
    /\ UNCHANGED <<clients, launches, asked>>

\* Revocation needs neither the release nor its client.
Uninstall(i) ==
    /\ installations[i].active
    /\ ~TenantHeld(installations[i].merchant)
    /\ installations' = [installations EXCEPT ![i].active = FALSE]
    /\ UNCHANGED <<authoringVars, distributionVars, clients, launches, asked>>

\* UIReady and ResourceReady.
Ready(r) == clients[r] = "ready" /\ launches[r] = "approved"

\* What the store is shown as installable, read without keeping any lock.
Installable(a) ==
    LET r == assignments[a].release
    IN  /\ assignments[a].status = "approved"
        /\ Signed(r) /\ releases[r].package = assignments[a].digest
        /\ releases[r].kind # "integration"
        /\ Reviewed(r) => Ready(r)

AccessNext ==
    \/ \E r \in DOMAIN releases :
           \/ \E status \in ClientStatus : ChangeClient(r, status)
           \/ \E status \in LaunchStatus : DecideLaunch(r, status)
           \/ SubmitLaunch(r)
    \/ \E o \in Ops :
           \/ \E i \in DOMAIN installations :
                  \/ BeginOpen(o, i)
                  \/ \E c \in DOMAIN releases, p \in Paths,
                        view \in {"none", "inventory"} :
                         BeginRead(o, i, c, p, view)
           \/ HoldRelease(o) \/ HoldClient(o) \/ HoldLaunch(o)
           \/ SendRead(o) \/ GiveLaunch(o)
           \/ InstallReviewed(o)
    \/ \E i \in DOMAIN installations : Uninstall(i)

----------------------------------------------------------------------------
(* Properties *)

\* While a launch is handed out, and while the upstream service answers a
\* read, nothing that authorises it is taken back: the installation and the
\* very assignment it was consented under, the release, its client and its
\* launch.  And a read is of what the store consented to.  Each of these is
\* revoked by somebody else, in another session.
ReviewedReadsAreAuthorised ==
    \A o \in Busy : ops[o].at = "tenant" =>
        LET i == installations[asked[o].installation]
            r == assignments[i.assignment].release
        IN  /\ i.active /\ i.merchant = ops[o].merchant
            /\ Installable(i.assignment)
            /\ ops[o].do = "read" =>
                   /\ releases[r].kind = "resource"
                   /\ asked[o].client = r
                   /\ asked[o].scope \in RequiredScopes

\* A store installs only what it would be shown as installable at that moment.
InstallsInstallable == \A a \in installs' \ installs : Installable(a)
=============================================================================
