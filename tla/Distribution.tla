---------------------------- MODULE Distribution ----------------------------
(***************************************************************************)
(* The releases that stores may install and who may install them.          *)
(*                                                                         *)
(* A release is submitted from an approved submission (integration), from  *)
(* a draft (managed shipping) or on its own (ui, resource), is reviewed,   *)
(* signed and perhaps suspended.  A developer asks to distribute a signed  *)
(* release to a store, an administrator approves it, and the store's       *)
(* consent installs it.  Those three operations keep a shared lock on the  *)
(* release (FOR SHARE) in one database session while another session       *)
(* commits their effect; a release or an assignment is changed under an    *)
(* exclusive lock (FOR UPDATE).  A request may end at any of its steps:    *)
(* its locks go with it.                                                   *)
(***************************************************************************)
EXTENDS AppAuthoring

CONSTANTS
    Merchants,      \* stores
    Ops,            \* requests that hold a release while they work
    MaxReleases,    \* bound: releases ever submitted
    MaxAssignments  \* bound: assignments ever requested

ASSUME DistributionAssumption ==
    MaxReleases \in Nat /\ MaxAssignments \in Nat

VARIABLES
    managedReads,   \* drafts read for a managed release not yet filed
    releases,       \* the four tables of releases, in the order submitted
    assignments,    \* test_assignments, in the order requested
    ops,            \* the requests under way
    installs        \* assignments an installation was committed under

distributionVars == <<managedReads, releases, assignments, ops, installs>>

Kind == {"integration", "managed", "ui", "resource"}

ReleaseType ==
    [kind : Kind,
     app : Nat,                       \* 0 is the app of the drafts
     source : Nat,                    \* submission or draft revision, else 0
     manifest : Document,
     status : {"submitted", "approved", "rejected", "signed", "suspended"},
     package : Document \cup {None}]
AssignmentType ==
    [release : Nat, digest : Document, merchant : Merchants,
     status : {"requested", "approved", "rejected", "revoked"}]
\* An operation goes through its steps in this order and keeps their locks.
OpType ==
    [do : {"request", "approve", "install", "read", "open"}, release : Nat,
     merchant : Merchants, assignment : Nat \cup {None},
     at : {"read", "release", "assignment", "client", "launch", "tenant"}]

\* None is no request that holds a lock.
ASSUME DistributionNoneAssumption == None \notin OpType

DistributionTypeOK ==
    /\ managedReads \subseteq [revision : Nat, document : Document]
    /\ releases \in Seq(ReleaseType)
    /\ assignments \in Seq(AssignmentType)
    /\ ops \in [Ops -> OpType \cup {None}]
    /\ installs \subseteq Nat

DistributionInit(rows, assigned) ==
    /\ managedReads = {}
    /\ releases = rows
    /\ assignments = assigned
    /\ ops = [o \in Ops |-> None]
    /\ installs = {}

Busy == {o \in Ops : ops[o] # None}
\* Mutant: an installation reads the release without a lock.
HeldByPortal(r) ==
    \E o \in Busy : /\ ops[o].release = r /\ ops[o].at # "read"
                    /\ ops[o].do # "install"

\* FOR SHARE by a request under way keeps FOR UPDATE waiting.
ReleaseHeld(r) == \E o \in Busy : ops[o].release = r /\ ops[o].at # "read"
AssignmentHeld(a) ==
    \E o \in Busy : /\ ops[o].assignment = a
                    /\ ops[o].at \notin {"read", "release"}

----------------------------------------------------------------------------
(* Releases *)

Submitted(kind, app, source, d) ==
    [kind |-> kind, app |-> app, source |-> source, manifest |-> d,
     status |-> "submitted", package |-> None]

\* UNIQUE(app_id, version) of each table.
Fresh(kind, app, version) ==
    /\ Len(releases) < MaxReleases
    /\ \A r \in DOMAIN releases :
           ~(/\ releases[r].kind = kind /\ releases[r].app = app
             /\ releases[r].manifest.version = version)

\* IntegrationMutate, creating: one release per approved submission.
FileIntegration(c) ==
    /\ Fresh("integration", 0, c.document.version)
    /\ \A r \in DOMAIN releases :
           releases[r].kind = "integration"
               => releases[r].source # c.submission
    /\ releases' = Append(releases, Submitted("integration", 0, c.submission,
                                              c.document))
    /\ candidates' = candidates \ {c}
    /\ UNCHANGED <<saved, subscriptions, submits, submissions, catalog,
                   managedReads, assignments, ops, installs>>

\* Submit of an integration.
SubmitIntegration(c) ==
    /\ c \in candidates /\ c.for = "integration"
    /\ FileIntegration(c)

\* Submit of a managed release reads the draft the developer named.
ReadManagedDraft(revision) ==
    /\ Revision > 0 /\ revision = Revision
    /\ Draft.form = "binding"
    /\ Cardinality(managedReads) < MaxPending
    /\ managedReads' = managedReads \cup
           {[revision |-> revision, document |-> Draft]}
    /\ UNCHANGED <<authoringVars, releases, assignments, ops, installs>>

\* ManagedShippingMutate reads it again, under a shared lock.
FileManaged(d) ==
    /\ d \in managedReads
    /\ d.revision = Revision /\ d.document = Draft
    /\ Fresh("managed", 0, d.document.version)
    /\ releases' = Append(releases, Submitted("managed", 0, d.revision,
                                              d.document))
    /\ managedReads' = managedReads \ {d}
    /\ UNCHANGED <<authoringVars, assignments, ops, installs>>

\* The managed release is refused or its request is lost.
DropManaged(d) ==
    /\ d \in managedReads
    /\ managedReads' = managedReads \ {d}
    /\ UNCHANGED <<authoringVars, releases, assignments, ops, installs>>

\* A new app, or another version of an app of the same table.
SubmitAlone(kind, app, version) ==
    /\ LET apps == {releases[r].app : r \in DOMAIN releases} \ {0}
           own == {releases[r].app : r \in {i \in DOMAIN releases :
                                               releases[i].kind = kind}}
       IN  app \in own \/ app = Cardinality(apps) + 1
    /\ Fresh(kind, app, version)
    /\ releases' = Append(releases, Submitted(kind, app, 0,
                       [version |-> version, form |-> "endpoint"]))
    /\ UNCHANGED <<authoringVars, managedReads, assignments, ops, installs>>

\* UIChange and UIResourceChange, creating.
SubmitUI(app, version) == SubmitAlone("ui", app, version)
SubmitResource(app, version) == SubmitAlone("resource", app, version)

\* The table of Transition and Decide, which the triggers repeat.
Allowed(from, to) ==
    \/ from = "submitted" /\ to \in {"approved", "rejected"}
    \/ from = "approved" /\ to \in {"signed", "suspended"}
    \/ from = "signed" /\ to = "suspended"

\* A change of status, of which only an administrator signs and suspends.
Transition(r, status) ==
    /\ Allowed(releases[r].status, status)
    /\ ~ReleaseHeld(r)
    /\ releases' = [releases EXCEPT
           ![r].status = status,
           ![r].package = IF status = "signed" THEN releases[r].manifest
                          ELSE @]
    /\ UNCHANGED <<authoringVars, managedReads, assignments, ops, installs>>

TransitionIntegration(r, status) ==
    releases[r].kind = "integration" /\ Transition(r, status)
TransitionManaged(r, status) ==
    releases[r].kind = "managed" /\ Transition(r, status)
DecideUI(r, status) ==
    releases[r].kind = "ui" /\ Transition(r, status)
DecideResource(r, status) ==
    releases[r].kind = "resource" /\ Transition(r, status)

\* Readiness: what was signed is what was submitted.
Intact(r) == releases[r].package = releases[r].manifest

\* WithSigned: the release may be distributed.
Signed(r) == releases[r].status = "signed" /\ Intact(r)

----------------------------------------------------------------------------
(* Test assignments *)

Idle(o) == ops[o] = None
Done(o) == ops' = [ops EXCEPT ![o] = None]
At(o, do, step) == ops[o] # None /\ ops[o].do = do /\ ops[o].at = step

otherThanOps == <<authoringVars, managedReads, releases, assignments, installs>>

\* Request: the release is signed and held.
Request(o, r, m) ==
    /\ Idle(o)
    /\ Signed(r)
    /\ ops' = [ops EXCEPT ![o] =
           [do |-> "request", release |-> r, merchant |-> m,
            assignment |-> None, at |-> "release"]]
    /\ UNCHANGED otherThanOps

Current(r, m) ==
    {a \in DOMAIN assignments :
        /\ assignments[a].release = r /\ assignments[a].merchant = m
        /\ assignments[a].status \in {"requested", "approved"}}

\* AssignmentMutate creates; one current assignment per release and store.
CommitRequest(o) ==
    /\ At(o, "request", "release")
    /\ Len(assignments) < MaxAssignments
    /\ Current(ops[o].release, ops[o].merchant) = {}
    /\ assignments' = Append(assignments,
           [release |-> ops[o].release,
            digest |-> releases[ops[o].release].package,
            merchant |-> ops[o].merchant, status |-> "requested"])
    /\ Done(o)
    /\ UNCHANGED <<authoringVars, managedReads, releases, installs>>

\* Decide, approving: what is no longer requested is not approved again.
ReadApproval(o, a) ==
    /\ Idle(o)
    /\ assignments[a].status = "requested"
    /\ ops' = [ops EXCEPT ![o] =
           [do |-> "approve", release |-> assignments[a].release,
            merchant |-> assignments[a].merchant,
            assignment |-> a, at |-> "read"]]
    /\ UNCHANGED otherThanOps

\* It holds the release the assignment was requested for.
HoldForApproval(o) ==
    /\ At(o, "approve", "read")
    /\ Signed(ops[o].release)
    /\ releases[ops[o].release].package
           = assignments[ops[o].assignment].digest
    /\ ops' = [ops EXCEPT ![o].at = "release"]
    /\ UNCHANGED otherThanOps

\* Mutant: what was read before the lock is not read again.
CommitAnyApproval(o) ==
    /\ At(o, "approve", "release")
    /\ ~AssignmentHeld(ops[o].assignment)
    /\ assignments' =
           [assignments EXCEPT ![ops[o].assignment].status = "approved"]
    /\ Done(o)
    /\ UNCHANGED <<authoringVars, managedReads, releases, installs>>

\* AssignmentMutate reads the assignment again, to change it.
CommitApproval(o) ==
    /\ At(o, "approve", "release")
    /\ assignments[ops[o].assignment].status = "requested"
    /\ ~AssignmentHeld(ops[o].assignment)
    /\ assignments' =
           [assignments EXCEPT ![ops[o].assignment].status = "approved"]
    /\ Done(o)
    /\ UNCHANGED <<authoringVars, managedReads, releases, installs>>

\* Decide, rejecting or revoking, which needs no release.
Withdraw(a, status) ==
    /\ \/ assignments[a].status = "requested" /\ status = "rejected"
       \/ assignments[a].status = "approved" /\ status = "revoked"
    /\ ~AssignmentHeld(a)
    /\ assignments' = [assignments EXCEPT ![a].status = status]
    /\ UNCHANGED <<authoringVars, managedReads, releases, ops, installs>>

\* StopForMerchant: a store ends its own.
StopForMerchant(a, m) ==
    /\ assignments[a].merchant = m
    /\ Withdraw(a, "revoked")

----------------------------------------------------------------------------
(* Installation *)

\* The source of the app's installations takes the release first, signed or
\* not.  The identity of an app tells which source that is.
HoldForInstall(o, r, m) ==
    /\ Idle(o)
    /\ ops' = [ops EXCEPT ![o] =
           [do |-> "install", release |-> r, merchant |-> m,
            assignment |-> None, at |-> "release"]]
    /\ UNCHANGED otherThanOps

\* WithManagedAssignment looks for an approved assignment at once.
HoldManaged(o, r, m) ==
    /\ releases[r].kind = "managed"
    /\ \E a \in Current(r, m) : assignments[a].status = "approved"
    /\ HoldForInstall(o, r, m)

\* WithUIAssignment and WithResourceUIAssignment.
HoldUI(o, r, m) == releases[r].kind = "ui" /\ HoldForInstall(o, r, m)
HoldResource(o, r, m) ==
    releases[r].kind = "resource" /\ HoldForInstall(o, r, m)

\* Then the approved assignment, and only now looks at the release.
HoldAssignment(o) ==
    /\ \E do \in {"install", "read", "open"} : At(o, do, "release")
    /\ \E a \in Current(ops[o].release, ops[o].merchant) :
           /\ assignments[a].status = "approved"
           /\ Signed(ops[o].release)
           /\ assignments[a].digest = releases[ops[o].release].package
           /\ ops' = [ops EXCEPT ![o].assignment = a, ![o].at = "assignment"]
    /\ UNCHANGED otherThanOps

\* Reviewed interfaces also hold their client and launch: see ResourceAccess.
Reviewed(r) == releases[r].kind \in {"ui", "resource"}

\* The consent is consumed in the installation's session.
CommitInstall(o) ==
    /\ \/ At(o, "install", "assignment") /\ ~Reviewed(ops[o].release)
       \/ At(o, "install", "launch")
    /\ installs' = installs \cup {ops[o].assignment}
    /\ Done(o)
    /\ UNCHANGED <<authoringVars, managedReads, releases, assignments>>

\* The request fails, times out or loses its caller.
Abandon(o) ==
    /\ ~Idle(o)
    /\ Done(o)
    /\ UNCHANGED otherThanOps

Change == {"approved", "rejected", "signed", "suspended"}

IntegrationNext ==
    \/ \E c \in candidates : SubmitIntegration(c)
    \/ \E r \in DOMAIN releases, status \in Change :
           TransitionIntegration(r, status)

FilingNext ==
    \/ \E r \in 1 .. MaxDraftRevision : ReadManagedDraft(r)
    \/ \E d \in managedReads : FileManaged(d) \/ DropManaged(d)

ManagedNext ==
    \E r \in DOMAIN releases, status \in Change : TransitionManaged(r, status)

SubmitNext ==
    \E app \in 1 .. MaxReleases, v \in Versions :
        SubmitUI(app, v) \/ SubmitResource(app, v)

DecideNext ==
    \E r \in DOMAIN releases, status \in Change :
        \/ DecideUI(r, status) \/ DecideResource(r, status)

AssignmentNext ==
    \/ \E a \in DOMAIN assignments :
           \/ \E status \in {"rejected", "revoked"} : Withdraw(a, status)
           \/ \E m \in Merchants : StopForMerchant(a, m)
    \/ \E o \in Ops :
           \/ \E r \in DOMAIN releases, m \in Merchants :
                  Request(o, r, m)
           \/ \E a \in DOMAIN assignments : ReadApproval(o, a)
           \/ CommitRequest(o) \/ HoldForApproval(o) \/ CommitApproval(o)
           \/ HoldAssignment(o)

InstallNext ==
    \E o \in Ops :
        \/ \E r \in DOMAIN releases, m \in Merchants : HoldManaged(o, r, m)
        \/ CommitInstall(o)

----------------------------------------------------------------------------
(* Properties *)

\* What is signed is what was reviewed.  A listing or an integration comes
\* from a submission that is approved, and carries, to the letter, the
\* document saved as the revision the developer named when submitting it; a
\* managed release carries the draft revision it names.  Sign, Prepare and
\* Submit read long before they commit, and the draft goes on being edited.
SignedIsReviewed ==
    /\ \A i \in DOMAIN submissions :
           /\ submissions[i].asked \in DOMAIN saved
           /\ submissions[i].snapshot = saved[submissions[i].asked]
    /\ \A i \in Listed :
           /\ submissions[i].status = "approved"
           /\ catalog[i].package = submissions[i].snapshot
    /\ \A r \in DOMAIN releases :
           LET row == releases[r]
           IN  /\ row.kind = "integration" =>
                      /\ submissions[row.source].status = "approved"
                      /\ row.manifest = submissions[row.source].snapshot
               /\ row.kind = "managed" => row.manifest = saved[row.source]
               /\ row.package \in {None, row.manifest}

\* What a commit relies on is still so when it commits, although it was read
\* earlier and in another session: a managed release and a subscription come
\* from the current draft; an assignment is requested and approved, and a
\* store installs, only while the release is signed; and a store installs
\* only under an assignment that is still approved.
CommitIsCurrent ==
    /\ \A r \in DOMAIN releases' \ DOMAIN releases :
           releases'[r].kind = "managed" => releases'[r].source = Revision
    /\ \A i \in DOMAIN subscriptions' \ DOMAIN subscriptions :
           subscriptions'[i].revision = Revision
    /\ \A a \in DOMAIN assignments' :
           LET was == IF a \in DOMAIN assignments THEN assignments[a].status
                      ELSE None
               now == assignments'[a].status
           IN  was # now /\ now \in {"requested", "approved"}
                   => Signed(assignments'[a].release)
    /\ \A a \in installs' \ installs :
           /\ assignments[a].status = "approved"
           /\ Signed(assignments[a].release)

\* What was withdrawn or decided against never comes back by a decision or a
\* retry that was under way: decided submissions, rejected and suspended
\* releases, rejected and revoked assignments, revoked subscriptions.
WithdrawnStays ==
    /\ \A i \in DOMAIN submissions :
           submissions[i].status # "submitted"
               => submissions'[i] = submissions[i]
    /\ \A r \in DOMAIN releases :
           releases[r].status \in {"rejected", "suspended"}
               => releases'[r] = releases[r]
    /\ \A a \in DOMAIN assignments :
           assignments[a].status \in {"rejected", "revoked"}
               => assignments'[a] = assignments[a]
    /\ \A i \in DOMAIN subscriptions :
           subscriptions[i].status = "revoked"
               => subscriptions'[i] = subscriptions[i]
=============================================================================
