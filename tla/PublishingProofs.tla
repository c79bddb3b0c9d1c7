-------------------------- MODULE PublishingProofs --------------------------
(***************************************************************************)
(* What is signed, distributed, installed and read, for every value of the *)
(* constants.  A document is copied from table to table by requests that   *)
(* read it long before they commit: the first half follows the copies.  The*)
(* second half follows the locks, under which what a request relies on     *)
(* stays as it was when the lock was taken.                                *)
(***************************************************************************)
EXTENDS MCPublishing, TLAPS

USE DEF authoringVars, distributionVars, accessVars, privateVars

-----------------------------------------------------------------------------
(* The inductive invariant *)

(* Whoever has read a document to file or to sign it has read what was     *)
(* saved, and approved where that is needed; and the rows that name a      *)
(* source name one that exists.                                            *)
ReadsAreSaved ==
    /\ \A s \in submits :
          s.revision \in DOMAIN saved /\ s.document = saved[s.revision]
    /\ \A c \in candidates :
          /\ c.submission \in DOMAIN submissions
          /\ submissions[c.submission].status = "approved"
          /\ c.document = submissions[c.submission].snapshot
    /\ \A d \in managedReads : d.revision \in DOMAIN saved
    /\ \A i \in Listed : i \in DOMAIN submissions
    /\ \A r \in DOMAIN releases :
          /\ releases[r].kind = "integration" =>
                releases[r].source \in DOMAIN submissions
          /\ releases[r].kind = "managed" => releases[r].source \in DOMAIN saved

(* There is a client and a launch for every release, and the rows that name*)
(* a release or an assignment name one that exists.                        *)
RowsRefer ==
    /\ Len(releases) \in 0 .. MaxReleases
    /\ \A a \in DOMAIN assignments : assignments[a].release \in DOMAIN releases
    /\ \A i \in DOMAIN installations :
          LET a == installations[i].assignment IN
          a \in DOMAIN assignments /\ Reviewed(assignments[a].release)

HasAssignment == {"assignment", "client", "launch", "tenant"}
HasClient == {"client", "launch", "tenant"}
HasLaunch == {"launch", "tenant"}

(* A request about a store's assignment or installation                    *)
ForStore == {"install", "read", "open"}

(* What a request p knows of the rows it has locked.                       *)
HoldsRows(p) ==
    LET r == p.release
        a == p.assignment
    IN  /\ r \in DOMAIN releases
        /\ p.do \in ForStore => releases[r].kind # "integration"
        /\ p.do = "request" => p.at = "release"
        /\ p.do = "approve" =>
              /\ p.at \in {"read", "release"} /\ a \in DOMAIN assignments
              /\ assignments[a].release = r
        /\ p.do \notin ForStore /\ p.at = "release" => Signed(r)
        /\ p.at \in HasAssignment =>
              /\ p.do \in ForStore
              /\ a \in DOMAIN assignments
              /\ assignments[a].release = r
              /\ assignments[a].merchant = p.merchant
              /\ assignments[a].status = "approved"
              /\ Signed(r) /\ assignments[a].digest = releases[r].package
        /\ p.at \in HasClient => Reviewed(r) /\ clients[r] = "ready"
        /\ p.at \in HasLaunch => launches[r] = "approved"

(* What a request p that asked for q has found of the installation before  *)
(* it is let through to the store.                                         *)
HoldsStore(p, q) ==
    LET i == q.installation IN
    /\ p.do \in {"read", "open"} =>
          /\ q # None /\ i \in DOMAIN installations
          /\ installations[i].merchant = p.merchant
    /\ p.do = "read" => releases[p.release].kind = "resource"
    /\ p.at = "tenant" =>
          /\ p.do \in {"read", "open"}
          /\ installations[i].active
          /\ installations[i].assignment = p.assignment
          /\ p.do = "read" => q.client = p.release /\ q.scope \in RequiredScopes

LocksHold ==
    \A o \in Ops : ops[o] # None =>
        HoldsRows(ops[o]) /\ HoldsStore(ops[o], asked[o])

(* The signed version of a private app is its first document, for good.    *)
PrivateIsFirst ==
    private # None =>
        saved # <<>> /\ private = saved[1] /\ ~Public(private)

(* What a consent or a read q of a private app has found and holds.        *)
PrivateHolds(q) ==
    /\ q.at \in {"owner", "credential", "store"} =>
          enabled /\ q.actor = "owner" /\ private # None
    /\ q.do = "use" => /\ q.grant \in DOMAIN grants
                       /\ grants[q.grant].merchant = q.merchant
    /\ q.at = "store" =>
          /\ q.do = "use" /\ q.scope = "read_products"
          /\ grants[q.grant].active /\ grants[q.grant].document = private

PrivateLocksHold == \A o \in Ops : requests[o] # None => PrivateHolds(requests[o])

(* Requests about the release that interfaces begin with find it.          *)
FocusExists == focus = "interfaces" => 1 \in DOMAIN releases

PublishingInv ==
    /\ TypeOK /\ FocusExists
    /\ ReadsAreSaved /\ SignedIsReviewed
    /\ RowsRefer /\ LocksHold
    /\ PrivateIsFirst /\ PrivateLocksHold

-----------------------------------------------------------------------------
(* What a step may do to each table *)

SavedStep ==
    /\ saved' \in Seq(Document)
    /\ \A i \in DOMAIN saved : i \in DOMAIN saved' /\ saved'[i] = saved[i]

SubscriptionsStep ==
    /\ subscriptions' \in
           Seq([revision : Nat, version : Versions,
                status : {"pending", "revoked"}])
    /\ \A i \in DOMAIN subscriptions :
          /\ i \in DOMAIN subscriptions'
          /\ subscriptions[i].status = "revoked" =>
                subscriptions'[i] = subscriptions[i]
    /\ \A i \in DOMAIN subscriptions' \ DOMAIN subscriptions :
          subscriptions'[i].revision = Revision

SubmitsStep ==
    /\ submits' \subseteq [asked : Nat, revision : Nat, document : Document]
    /\ \A s \in submits' :
          \/ s \in submits
          \/ s.revision \in DOMAIN saved /\ s.document = saved[s.revision]

SubmissionsStep ==
    /\ submissions' \in Seq(SubmissionType)
    /\ \A i \in DOMAIN submissions :
          /\ i \in DOMAIN submissions'
          /\ submissions'[i].asked = submissions[i].asked
          /\ submissions'[i].snapshot = submissions[i].snapshot
          /\ submissions[i].status # "submitted" =>
                submissions'[i] = submissions[i]
    /\ \A i \in DOMAIN submissions' \ DOMAIN submissions :
          /\ submissions'[i].asked \in DOMAIN saved
          /\ submissions'[i].snapshot = saved[submissions'[i].asked]

CandidatesStep ==
    /\ candidates' \subseteq CandidateType
    /\ \A c \in candidates' :
          \/ c \in candidates
          \/ /\ c.submission \in DOMAIN submissions
             /\ submissions[c.submission].status = "approved"
             /\ c.document = submissions[c.submission].snapshot

(* What is listed is listed for an approved submission, or was before.     *)
CatalogStep ==
    /\ catalog' \in [1 .. MaxDraftRevision -> ListingType \cup {None}]
    /\ \A i \in DOMAIN catalog' : catalog'[i] # None =>
          \/ catalog[i] # None /\ catalog'[i].package = catalog[i].package
          \/ /\ i \in DOMAIN submissions
             /\ submissions[i].status = "approved"
             /\ catalog'[i].package = submissions[i].snapshot

(* A release that is held stays as it is, and one that was turned down or  *)
(* suspended does so for good.                                             *)
ReleasesStep ==
    /\ releases' \in Seq(ReleaseType) /\ Len(releases') \in 0 .. MaxReleases
    /\ \A r \in DOMAIN releases :
          /\ r \in DOMAIN releases'
          /\ releases'[r].kind = releases[r].kind
          /\ releases'[r].source = releases[r].source
          /\ releases'[r].manifest = releases[r].manifest
          /\ releases'[r].package \in {releases[r].package, releases[r].manifest}
          /\ ReleaseHeld(r) => releases'[r] = releases[r]
          /\ releases[r].status \in {"rejected", "suspended"} =>
                releases'[r] = releases[r]
    /\ \A r \in DOMAIN releases' \ DOMAIN releases :
          LET row == releases'[r] IN
          /\ row.package = None
          /\ row.kind = "integration" =>
                /\ row.source \in DOMAIN submissions
                /\ submissions[row.source].status = "approved"
                /\ row.manifest = submissions[row.source].snapshot
          /\ row.kind = "managed" =>
                /\ row.source \in DOMAIN saved /\ row.source = Revision
                /\ row.manifest = saved[row.source]

ManagedReadsStep ==
    /\ managedReads' \subseteq [revision : Nat, document : Document]
    /\ \A d \in managedReads' : d \in managedReads \/ d.revision \in DOMAIN saved

(* An approved assignment that is held stays approved; what is rejected or *)
(* revoked does so for good; nothing is requested or approved unless its   *)
(* release is signed.                                                      *)
AssignmentsStep ==
    /\ assignments' \in Seq(AssignmentType)
    /\ \A a \in DOMAIN assignments :
          /\ a \in DOMAIN assignments'
          /\ assignments'[a].release = assignments[a].release
          /\ assignments'[a].merchant = assignments[a].merchant
          /\ assignments'[a].digest = assignments[a].digest
          /\ AssignmentHeld(a) => assignments'[a] = assignments[a]
          /\ assignments[a].status \in {"rejected", "revoked"} =>
                assignments'[a] = assignments[a]
          /\ \/ assignments'[a].status \in {assignments[a].status,
                                           "rejected", "revoked"}
             \/ Signed(assignments[a].release) /\ releases' = releases
    /\ \A a \in DOMAIN assignments' \ DOMAIN assignments :
          /\ assignments'[a].release \in DOMAIN releases
          /\ Signed(assignments'[a].release) /\ releases' = releases

(* What is installed is approved, signed and, where it is reviewed, ready. *)
InstallsStep ==
    /\ installs' \subseteq Nat
    /\ \A a \in installs' \ installs :
          /\ assignments[a].status = "approved"
          /\ Signed(assignments[a].release)
          /\ Installable(a)

ClientsStep ==
    /\ clients' \in [1 .. MaxReleases -> ClientStatus]
    /\ \A r \in 1 .. MaxReleases : ClientHeld(r) => clients'[r] = clients[r]

LaunchesStep ==
    /\ launches' \in [1 .. MaxReleases -> LaunchStatus]
    /\ \A r \in 1 .. MaxReleases : LaunchHeld(r) => launches'[r] = launches[r]

InstallationsStep ==
    /\ installations' \in
           Seq([merchant : Merchants, assignment : Nat, active : BOOLEAN])
    /\ \A i \in DOMAIN installations :
          /\ i \in DOMAIN installations'
          /\ installations'[i].merchant = installations[i].merchant
          /\ installations'[i].assignment = installations[i].assignment
          /\ TenantHeld(installations[i].merchant) =>
                installations'[i] = installations[i]
    /\ \A i \in DOMAIN installations' \ DOMAIN installations :
          LET a == installations'[i].assignment IN
          a \in DOMAIN assignments /\ Reviewed(assignments[a].release)

heldTables == <<releases, assignments, clients, launches, installations>>

(* A request ends, goes on as it was, or holds what it now says it holds.  *)
OpsStep ==
    /\ ops' \in [Ops -> OpType \cup {None}]
    /\ asked' \in [Ops -> AskedType \cup {None}]
    /\ \A o \in Ops :
          \/ ops'[o] = None
          \/ /\ ops'[o] = ops[o]
             /\ ops[o].do \in {"read", "open"} => asked'[o] = asked[o]
          \/ /\ UNCHANGED heldTables
             /\ HoldsRows(ops'[o]) /\ HoldsStore(ops'[o], asked'[o])

(* Drafts, reviews, releases, stores, and private apps.                    *)
DraftsStep == SavedStep /\ SubscriptionsStep
ReviewStep == SubmitsStep /\ SubmissionsStep /\ CandidatesStep /\ CatalogStep
StoresStep ==
    /\ ReleasesStep /\ ManagedReadsStep /\ AssignmentsStep /\ InstallsStep
    /\ ClientsStep /\ LaunchesStep /\ InstallationsStep /\ OpsStep

(* A table that is left alone.                                             *)
LEMMA SameDrafts ==
    ASSUME TypeOK
    PROVE  /\ UNCHANGED saved => SavedStep
           /\ UNCHANGED subscriptions => SubscriptionsStep
  BY DEF TypeOK, AuthoringTypeOK, SavedStep, SubscriptionsStep

LEMMA SameReview ==
    ASSUME TypeOK
    PROVE  /\ UNCHANGED submits => SubmitsStep
           /\ UNCHANGED submissions => SubmissionsStep
           /\ UNCHANGED candidates => CandidatesStep
           /\ UNCHANGED catalog => CatalogStep
  BY DEF TypeOK, AuthoringTypeOK, SubmitsStep, SubmissionsStep, CandidatesStep,
         CatalogStep

LEMMA SameStores ==
    ASSUME TypeOK, RowsRefer
    PROVE  /\ UNCHANGED releases => ReleasesStep
           /\ UNCHANGED managedReads => ManagedReadsStep
           /\ UNCHANGED assignments => AssignmentsStep
           /\ UNCHANGED installs => InstallsStep
  BY DEF TypeOK, DistributionTypeOK, RowsRefer, ReleasesStep, ManagedReadsStep,
         AssignmentsStep, InstallsStep

LEMMA SameAccess ==
    ASSUME TypeOK
    PROVE  /\ UNCHANGED clients => ClientsStep
           /\ UNCHANGED launches => LaunchesStep
           /\ UNCHANGED installations => InstallationsStep
           /\ UNCHANGED <<ops, asked>> => OpsStep
  BY DEF TypeOK, DistributionTypeOK, AccessTypeOK, ClientsStep, LaunchesStep,
         InstallationsStep, OpsStep

-----------------------------------------------------------------------------
(* Drafts, submissions and listings: the actions of AppAuthoring *)

LEMMA SaveKeeps ==
    ASSUME TypeOK, NEW e, NEW d \in Document, Save(e, d)
    PROVE  DraftsStep /\ ReviewStep
  <1>1. saved \in Seq(Document) /\ saved' = Append(saved, d)
    BY DEF TypeOK, AuthoringTypeOK, Save, SaveDraft
  <1>2. SavedStep
    BY <1>1 DEF SavedStep
  <1> QED
    BY <1>2, SameDrafts, SameReview DEF Save, SaveDraft, DraftsStep, ReviewStep

LEMMA RequestSubscriptionKeeps ==
    ASSUME TypeOK, NEW r \in Nat, NEW v \in Versions, RequestSubscription(r, v)
    PROVE  DraftsStep /\ ReviewStep
  <1> DEFINE row == [revision |-> r, version |-> v, status |-> "pending"]
             Row == [revision : Nat, version : Versions,
                     status : {"pending", "revoked"}]
  <1>1. /\ subscriptions \in Seq(Row) /\ row \in Row /\ row.revision = Revision
        /\ subscriptions' = Append(subscriptions, row)
    BY DEF TypeOK, AuthoringTypeOK, RequestSubscription
  <1>2. SubscriptionsStep
    <2> HIDE DEF row
    <2> QED
      BY <1>1 DEF SubscriptionsStep
  <1> QED
    BY <1>2, SameDrafts, SameReview
    DEF RequestSubscription, DraftsStep, ReviewStep

LEMMA RevokeSubscriptionKeeps ==
    ASSUME TypeOK, NEW i \in DOMAIN subscriptions, RevokeSubscription(i)
    PROVE  DraftsStep /\ ReviewStep
  <1> DEFINE Row == [revision : Nat, version : Versions,
                     status : {"pending", "revoked"}]
             row == [subscriptions[i] EXCEPT !.status = "revoked"]
  <1>1. subscriptions \in Seq(Row) /\ subscriptions[i] \in Row
    <2>1. subscriptions \in Seq(Row)
      BY DEF TypeOK, AuthoringTypeOK
    <2> HIDE DEF Row
    <2> QED
      BY <2>1
  <1>2. row \in Row /\ subscriptions' = [subscriptions EXCEPT ![i] = row]
    BY <1>1 DEF RevokeSubscription
  <1>3. subscriptions[i].status # "revoked"
    BY DEF RevokeSubscription
  <1>4. SubscriptionsStep
    <2> HIDE DEF row
    <2> QED
      BY <1>1, <1>2, <1>3 DEF SubscriptionsStep
  <1> QED
    BY <1>4, SameDrafts, SameReview DEF RevokeSubscription, DraftsStep, ReviewStep

LEMMA ReadDraftKeeps ==
    ASSUME TypeOK, NEW r \in Nat, ReadDraft(r)
    PROVE  DraftsStep /\ ReviewStep
  <1>1. /\ saved \in Seq(Document) /\ Revision \in DOMAIN saved
        /\ Revision \in Nat /\ Draft \in Document
    BY DEF TypeOK, AuthoringTypeOK, ReadDraft, Revision, Draft
  <1>2. SubmitsStep
    BY <1>1 DEF TypeOK, AuthoringTypeOK, ReadDraft, SubmitsStep, Draft
  <1> QED
    BY <1>2, SameDrafts, SameReview DEF ReadDraft, DraftsStep, ReviewStep

(* The document filed is the one the developer named.                      *)
LEMMA FileSubmissionKeeps ==
    ASSUME TypeOK, ReadsAreSaved, NEW s \in submits, FileSubmission(s)
    PROVE  DraftsStep /\ ReviewStep
  <1> DEFINE row == [asked |-> s.asked, revision |-> s.revision,
                     snapshot |-> s.document, status |-> "submitted"]
  <1>1. /\ submissions \in Seq(SubmissionType) /\ row \in SubmissionType
        /\ submissions' = Append(submissions, row)
        /\ row.asked \in DOMAIN saved /\ row.snapshot = saved[row.asked]
    BY DEF TypeOK, AuthoringTypeOK, FileSubmission, SubmissionType, ReadsAreSaved
  <1>2. SubmissionsStep
    <2> HIDE DEF row
    <2> QED
      BY <1>1 DEF SubmissionsStep
  <1>3. SubmitsStep
    BY DEF TypeOK, AuthoringTypeOK, FileSubmission, SubmitsStep
  <1> QED
    BY <1>2, <1>3, SameDrafts, SameReview
    DEF FileSubmission, DraftsStep, ReviewStep

LEMMA DropSubmissionKeeps ==
    ASSUME TypeOK, NEW s \in submits, DropSubmission(s)
    PROVE  DraftsStep /\ ReviewStep
  <1>1. SubmitsStep
    BY DEF TypeOK, AuthoringTypeOK, DropSubmission, SubmitsStep
  <1> QED
    BY <1>1, SameDrafts, SameReview DEF DropSubmission, DraftsStep, ReviewStep

LEMMA DecideKeeps ==
    ASSUME TypeOK, NEW i \in DOMAIN submissions, NEW status, Decide(i, status)
    PROVE  DraftsStep /\ ReviewStep
  <1> DEFINE row == [submissions[i] EXCEPT !.status = status]
  <1>1. /\ submissions \in Seq(SubmissionType)
        /\ submissions[i] \in SubmissionType
        /\ submissions[i].status = "submitted"
        /\ status \in {"approved", "changes_requested", "rejected"}
    BY DEF TypeOK, AuthoringTypeOK, Decide, RecordDecision
  <1>2. /\ row \in SubmissionType /\ row.asked = submissions[i].asked
        /\ row.snapshot = submissions[i].snapshot
        /\ submissions' = [submissions EXCEPT ![i] = row]
    BY <1>1 DEF Decide, RecordDecision, SubmissionType
  <1>3. SubmissionsStep
    <2> HIDE DEF row
    <2> QED
      BY <1>1, <1>2 DEF SubmissionsStep
  <1> QED
    BY <1>3, SameDrafts, SameReview
    DEF Decide, RecordDecision, DraftsStep, ReviewStep

LEMMA ReadCandidateKeeps ==
    ASSUME TypeOK, NEW i \in DOMAIN submissions,
           NEW for \in {"catalog", "integration"}, ReadCandidate(i, for)
    PROVE  DraftsStep /\ ReviewStep
  <1>1. submissions[i] \in SubmissionType /\ i \in Nat
    BY DEF TypeOK, AuthoringTypeOK
  <1>2. CandidatesStep
    BY <1>1 DEF TypeOK, AuthoringTypeOK, ReadCandidate, CandidatesStep,
                CandidateType, SubmissionType
  <1> QED
    BY <1>2, SameDrafts, SameReview DEF ReadCandidate, DraftsStep, ReviewStep

LEMMA FewerCandidates ==
    ASSUME TypeOK, NEW c, candidates' = candidates \ {c}
    PROVE  CandidatesStep
  BY DEF TypeOK, AuthoringTypeOK, CandidatesStep

LEMMA DropCandidateKeeps ==
    ASSUME TypeOK, NEW c \in candidates, DropCandidate(c)
    PROVE  DraftsStep /\ ReviewStep
  BY FewerCandidates, SameDrafts, SameReview
  DEF DropCandidate, DraftsStep, ReviewStep

LEMMA SignListingKeeps ==
    ASSUME TypeOK, ReadsAreSaved, NEW c \in candidates, SignListing(c)
    PROVE  DraftsStep /\ ReviewStep
  <1> DEFINE row == [package |-> c.document, status |-> "signed", revision |-> 1]
  <1>1. /\ catalog \in [1 .. MaxDraftRevision -> ListingType \cup {None}]
        /\ row \in ListingType
        /\ catalog' = [catalog EXCEPT ![c.submission] = row]
        /\ c.submission \in DOMAIN submissions
        /\ submissions[c.submission].status = "approved"
        /\ row.package = submissions[c.submission].snapshot
    BY DEF TypeOK, AuthoringTypeOK, SignListing, CandidateType, ListingType,
           ReadsAreSaved
  <1>2. CatalogStep
    <2> HIDE DEF row
    <2> QED
      BY <1>1 DEF CatalogStep
  <1> QED
    BY <1>2, FewerCandidates, SameDrafts, SameReview
    DEF SignListing, DraftsStep, ReviewStep

LEMMA TransitionListingKeeps ==
    ASSUME TypeOK, NEW i \in Listed, NEW status \in {"published", "suspended"},
           NEW r \in Nat, TransitionListing(i, status, r)
    PROVE  DraftsStep /\ ReviewStep
  <1>1. /\ catalog \in [1 .. MaxDraftRevision -> ListingType \cup {None}]
        /\ i \in DOMAIN catalog /\ catalog[i] # None /\ catalog[i] \in ListingType
    BY DEF TypeOK, AuthoringTypeOK, Listed
  <1>2. PICK l \in ListingType : l = catalog[i]
    BY <1>1
  <1> DEFINE m == [l EXCEPT !.status = status]
             row == [m EXCEPT !.revision = r + 1]
  <1>3. catalog' = [catalog EXCEPT ![i] = row]
    BY <1>1, <1>2 DEF TransitionListing, CatalogTransition
  <1>4. m \in ListingType /\ m.package = l.package
    BY <1>2 DEF ListingType
  <1> HIDE DEF m
  <1>5. row \in ListingType /\ row.package = l.package
    BY <1>4 DEF ListingType
  <1> HIDE DEF row
  <1>6. CatalogStep
    BY <1>1, <1>2, <1>3, <1>5 DEF CatalogStep
  <1> QED
    BY <1>6, SameDrafts, SameReview
    DEF TransitionListing, CatalogTransition, DraftsStep, ReviewStep

LEMMA AuthoringKeeps ==
    ASSUME TypeOK, ReadsAreSaved,
           \/ \E forms \in SUBSET Form : DraftNext(forms)
           \/ SubscriptionNext \/ ReviewNext
    PROVE  DraftsStep /\ ReviewStep
  <1>1. ASSUME NEW forms \in SUBSET Form, DraftNext(forms)
        PROVE  DraftsStep /\ ReviewStep
    <2>1. PICK e \in 0 .. MaxDraftRevision, v \in Versions, f \in forms :
              Save(e, [version |-> v, form |-> f])
      BY <1>1 DEF DraftNext
    <2>2. [version |-> v, form |-> f] \in Document
      BY DEF Document
    <2> QED
      BY <2>1, <2>2, SaveKeeps
  <1>2. ASSUME SubscriptionNext PROVE DraftsStep /\ ReviewStep
    BY <1>2, RequestSubscriptionKeeps, RevokeSubscriptionKeeps, AuthoringAssumption
    DEF SubscriptionNext
  <1>3. ASSUME SubmissionNext PROVE DraftsStep /\ ReviewStep
    BY <1>3, ReadDraftKeeps, FileSubmissionKeeps, DropSubmissionKeeps,
       AuthoringAssumption
    DEF SubmissionNext
  <1>4. ASSUME DecisionNext PROVE DraftsStep /\ ReviewStep
    BY <1>4, DecideKeeps DEF DecisionNext
  <1>5. ASSUME CatalogNext PROVE DraftsStep /\ ReviewStep
    BY <1>5, ReadCandidateKeeps, SignListingKeeps, DropCandidateKeeps,
       TransitionListingKeeps, AuthoringAssumption
    DEF CatalogNext, Sign, Prepare
  <1> QED
    BY <1>1, <1>2, <1>3, <1>4, <1>5 DEF ReviewNext

-----------------------------------------------------------------------------
(* Releases *)

LEMMA KindsOfDocuments ==
    ASSUME NEW kind \in Kind, NEW app \in Nat, NEW source \in Nat,
           NEW d \in Document
    PROVE  /\ Submitted(kind, app, source, d) \in ReleaseType
           /\ Submitted(kind, app, source, d).package = None
           /\ Submitted(kind, app, source, d).kind = kind
           /\ Submitted(kind, app, source, d).source = source
           /\ Submitted(kind, app, source, d).manifest = d
  BY DEF Submitted, ReleaseType

(* A release is filed: its source exists and says what the release says.   *)
LEMMA FilingKeeps ==
    ASSUME TypeOK, RowsRefer, NEW row \in ReleaseType,
           Len(releases) < MaxReleases, releases' = Append(releases, row),
           row.package = None,
           row.kind = "integration" =>
               /\ row.source \in DOMAIN submissions
               /\ submissions[row.source].status = "approved"
               /\ row.manifest = submissions[row.source].snapshot,
           row.kind = "managed" =>
               /\ row.source \in DOMAIN saved /\ row.source = Revision
               /\ row.manifest = saved[row.source]
    PROVE  ReleasesStep
  <1>1. /\ releases \in Seq(ReleaseType) /\ MaxReleases \in Nat
        /\ releases' \in Seq(ReleaseType)
        /\ Len(releases') = Len(releases) + 1
    BY DistributionAssumption DEF TypeOK, DistributionTypeOK
  <1>2. /\ \A r \in DOMAIN releases :
              r \in DOMAIN releases' /\ releases'[r] = releases[r]
        /\ \A r \in DOMAIN releases' \ DOMAIN releases : releases'[r] = row
    BY <1>1
  <1>3. Len(releases') \in 0 .. MaxReleases
    BY <1>1
  <1> QED
    BY <1>1, <1>2, <1>3 DEF ReleasesStep

(* Nothing but releases, drafts read for them and candidates changes.      *)
OthersRest ==
    /\ UNCHANGED <<saved, subscriptions, submits, submissions, catalog>>
    /\ UNCHANGED <<assignments, ops, installs>>

LEMMA OthersRestKeep ==
    ASSUME TypeOK, RowsRefer, OthersRest, UNCHANGED accessVars,
           ReleasesStep, ManagedReadsStep, CandidatesStep
    PROVE  DraftsStep /\ ReviewStep /\ StoresStep
  BY SameDrafts, SameReview, SameStores, SameAccess
  DEF OthersRest, DraftsStep, ReviewStep, StoresStep

LEMMA SubmitIntegrationKeeps ==
    ASSUME TypeOK, ReadsAreSaved, RowsRefer, NEW c \in candidates,
           SubmitIntegration(c)
    PROVE  ReleasesStep /\ ManagedReadsStep /\ CandidatesStep /\ OthersRest
  <1> DEFINE row == Submitted("integration", 0, c.submission, c.document)
  <1>1. c \in CandidateType
    BY DEF TypeOK, AuthoringTypeOK
  <1>2. c.submission \in Nat /\ c.document \in Document
    BY <1>1 DEF CandidateType
  <1>3. /\ row \in ReleaseType /\ row.package = None /\ row.kind = "integration"
        /\ row.source = c.submission /\ row.manifest = c.document
    BY <1>2, KindsOfDocuments DEF Kind
  <1>4. /\ Len(releases) < MaxReleases /\ releases' = Append(releases, row)
        /\ candidates' = candidates \ {c} /\ UNCHANGED managedReads /\ OthersRest
    BY DEF SubmitIntegration, FileIntegration, Fresh, OthersRest
  <1> HIDE DEF row
  <1>5. ReleasesStep
    BY <1>3, <1>4, FilingKeeps DEF ReadsAreSaved
  <1> QED
    BY <1>4, <1>5, FewerCandidates, SameStores

LEMMA ReadManagedDraftKeeps ==
    ASSUME TypeOK, RowsRefer, NEW r \in Nat, ReadManagedDraft(r)
    PROVE  ReleasesStep /\ ManagedReadsStep /\ CandidatesStep /\ OthersRest
  <1>1. saved \in Seq(Document) /\ Revision \in DOMAIN saved /\ Draft \in Document
    BY DEF TypeOK, AuthoringTypeOK, ReadManagedDraft, Revision, Draft
  <1>2. ManagedReadsStep
    BY <1>1 DEF TypeOK, DistributionTypeOK, ReadManagedDraft, ManagedReadsStep
  <1> QED
    BY <1>2, SameStores, SameReview DEF ReadManagedDraft, OthersRest

(* The draft is read again when the release is filed.                      *)
LEMMA FileManagedKeeps ==
    ASSUME TypeOK, ReadsAreSaved, RowsRefer, NEW d \in managedReads,
           FileManaged(d)
    PROVE  ReleasesStep /\ ManagedReadsStep /\ CandidatesStep /\ OthersRest
  <1> DEFINE row == Submitted("managed", 0, d.revision, d.document)
  <1>1. /\ d \in [revision : Nat, document : Document]
        /\ d.revision = Revision /\ d.document = Draft
        /\ saved \in Seq(Document)
    BY DEF TypeOK, DistributionTypeOK, AuthoringTypeOK, FileManaged
  <1>2. d.revision \in Nat /\ d.document \in Document /\ "managed" \in Kind
    BY <1>1 DEF Kind
  <1>3. /\ row \in ReleaseType /\ row.package = None /\ row.kind = "managed"
        /\ row.source = d.revision /\ row.manifest = d.document
    <2>1. PICK n \in Nat, e \in Document : n = d.revision /\ e = d.document
      BY <1>2
    <2>2. row = Submitted("managed", 0, n, e)
      BY <2>1
    <2> QED
      BY <1>2, <2>1, <2>2, KindsOfDocuments
  <1>4. /\ Len(releases) < MaxReleases /\ releases' = Append(releases, row)
        /\ managedReads' = managedReads \ {d} /\ UNCHANGED candidates /\ OthersRest
    BY DEF FileManaged, Fresh, OthersRest
  <1> HIDE DEF row
  <1>5. d.revision \in DOMAIN saved /\ d.document = saved[d.revision]
    BY <1>1, <1>2 DEF Revision, Draft, ReadsAreSaved
  <1>6. ReleasesStep
    BY <1>1, <1>3, <1>4, <1>5, FilingKeeps
  <1> QED
    BY <1>4, <1>6, SameReview DEF TypeOK, DistributionTypeOK, ManagedReadsStep

LEMMA DropManagedKeeps ==
    ASSUME TypeOK, RowsRefer, NEW d \in managedReads, DropManaged(d)
    PROVE  ReleasesStep /\ ManagedReadsStep /\ CandidatesStep /\ OthersRest
  <1>1. ManagedReadsStep
    BY DEF TypeOK, DistributionTypeOK, DropManaged, ManagedReadsStep
  <1> QED
    BY <1>1, SameStores, SameReview DEF DropManaged, OthersRest

LEMMA SubmitAloneKeeps ==
    ASSUME TypeOK, RowsRefer, NEW kind \in {"ui", "resource"}, NEW app \in Nat,
           NEW v \in Versions, SubmitAlone(kind, app, v)
    PROVE  ReleasesStep /\ ManagedReadsStep /\ CandidatesStep /\ OthersRest
  <1> DEFINE d == [version |-> v, form |-> "endpoint"]
             row == Submitted(kind, app, 0, d)
  <1>1. d \in Document /\ kind \in Kind
    BY DEF Document, Form, Kind
  <1>2. row \in ReleaseType /\ row.package = None /\ row.kind = kind
    <2> HIDE DEF d
    <2> QED
      BY <1>1, KindsOfDocuments
  <1>3. /\ Len(releases) < MaxReleases /\ releases' = Append(releases, row)
        /\ UNCHANGED <<managedReads, candidates>> /\ OthersRest
    BY DEF SubmitAlone, Fresh, OthersRest
  <1> HIDE DEF row
  <1>4. ReleasesStep
    BY <1>2, <1>3, FilingKeeps
  <1> QED
    BY <1>3, <1>4, SameStores, SameReview

(* A change of status leaves the release under its lock.                   *)
LEMMA TransitionKeeps ==
    ASSUME TypeOK, RowsRefer, NEW r \in DOMAIN releases, NEW status \in Change,
           Transition(r, status)
    PROVE  ReleasesStep /\ ManagedReadsStep /\ CandidatesStep /\ OthersRest
  <1>1. releases \in Seq(ReleaseType) /\ releases[r] \in ReleaseType
    BY DEF TypeOK, DistributionTypeOK
  <1>2. PICK l \in ReleaseType : l = releases[r]
    BY <1>1
  <1> DEFINE m == [l EXCEPT !.status = status]
             signed == [m EXCEPT !.package = l.manifest]
             same == [m EXCEPT !.package = m.package]
  <1>3. releases' \in {[releases EXCEPT ![r] = signed], [releases EXCEPT ![r] = same]}
    BY <1>1, <1>2 DEF Transition
  <1>4. /\ m \in ReleaseType /\ m.kind = l.kind /\ m.source = l.source
        /\ m.manifest = l.manifest /\ m.package = l.package
        /\ l.manifest \in Document
    BY <1>2 DEF ReleaseType, Change
  <1> HIDE DEF m
  <1>5. /\ signed \in ReleaseType /\ signed.kind = l.kind
        /\ signed.source = l.source
        /\ signed.manifest = l.manifest /\ signed.package = l.manifest
    BY <1>4 DEF ReleaseType
  <1>6. /\ same \in ReleaseType /\ same.kind = l.kind /\ same.source = l.source
        /\ same.manifest = l.manifest /\ same.package = l.package
    BY <1>4 DEF ReleaseType
  <1> HIDE DEF signed, same
  <1>7. PICK row \in {signed, same} : releases' = [releases EXCEPT ![r] = row]
    BY <1>3
  <1>8. /\ row \in ReleaseType /\ row.kind = l.kind /\ row.source = l.source
        /\ row.manifest = l.manifest /\ row.package \in {l.package, l.manifest}
    BY <1>5, <1>6, <1>7
  <1>9. ~ReleaseHeld(r) /\ releases[r].status \notin {"rejected", "suspended"}
    BY DEF Transition, Allowed
  <1>10. /\ releases' \in Seq(ReleaseType) /\ Len(releases') = Len(releases)
         /\ DOMAIN releases' = DOMAIN releases /\ releases'[r] = row
         /\ \A s \in DOMAIN releases \ {r} : releases'[s] = releases[s]
    BY <1>1, <1>7, <1>8
  <1>11. ReleasesStep
    BY <1>2, <1>8, <1>9, <1>10 DEF ReleasesStep, RowsRefer
  <1> QED
    BY <1>11, SameStores, SameReview DEF Transition, OthersRest

LEMMA ReleasesKeep ==
    ASSUME TypeOK, ReadsAreSaved, RowsRefer, UNCHANGED accessVars,
           \/ IntegrationNext \/ FilingNext \/ ManagedNext
           \/ SubmitNext \/ DecideNext
    PROVE  DraftsStep /\ ReviewStep /\ StoresStep
  <1> SUFFICES ReleasesStep /\ ManagedReadsStep /\ CandidatesStep /\ OthersRest
    BY OthersRestKeep
  <1>1. CASE IntegrationNext
    BY <1>1, SubmitIntegrationKeeps, TransitionKeeps
    DEF IntegrationNext, TransitionIntegration
  <1>2. CASE FilingNext
    BY <1>2, ReadManagedDraftKeeps, FileManagedKeeps, DropManagedKeeps,
       AuthoringAssumption DEF FilingNext
  <1>3. CASE ManagedNext \/ DecideNext
    BY <1>3, TransitionKeeps
    DEF ManagedNext, DecideNext, TransitionManaged, DecideUI, DecideResource
  <1>4. CASE SubmitNext
    BY <1>4, SubmitAloneKeeps, DistributionAssumption
    DEF SubmitNext, SubmitUI, SubmitResource
  <1> QED
    BY <1>1, <1>2, <1>3, <1>4

-----------------------------------------------------------------------------
(* Requests that hold locks *)

(* A request moves on, and everything but requests is left alone.          *)
LEMMA OneMoves ==
    ASSUME TypeOK, RowsRefer, NEW o \in Ops, NEW p \in OpType,
           NEW q \in AskedType \cup {None},
           ops' = [ops EXCEPT ![o] = p],
           asked' \in {asked, [asked EXCEPT ![o] = q]}, asked'[o] = q,
           UNCHANGED <<managedReads, installs>>, UNCHANGED heldTables,
           HoldsRows(p), HoldsStore(p, q)
    PROVE  StoresStep
  <1>1. /\ ops \in [Ops -> OpType \cup {None}]
        /\ asked \in [Ops -> AskedType \cup {None}]
    BY DEF TypeOK, DistributionTypeOK, AccessTypeOK
  <1>2. /\ ops' \in [Ops -> OpType \cup {None}] /\ ops'[o] = p
        /\ asked' \in [Ops -> AskedType \cup {None}]
        /\ \A x \in Ops \ {o} : ops'[x] = ops[x] /\ asked'[x] = asked[x]
    BY <1>1
  <1>3. OpsStep
    BY <1>2 DEF OpsStep
  <1> QED
    BY <1>3, SameStores, SameAccess DEF StoresStep, heldTables

(* A request ends.                                                         *)
LEMMA OneEnds ==
    ASSUME TypeOK, NEW o \in Ops, ops' = [ops EXCEPT ![o] = None],
           asked' \in {asked, [asked EXCEPT ![o] = None]}
    PROVE  OpsStep
  <1>1. /\ ops \in [Ops -> OpType \cup {None}]
        /\ asked \in [Ops -> AskedType \cup {None}]
    BY DEF TypeOK, DistributionTypeOK, AccessTypeOK
  <1>2. /\ ops' \in [Ops -> OpType \cup {None}] /\ ops'[o] = None
        /\ asked' \in [Ops -> AskedType \cup {None}]
        /\ \A x \in Ops \ {o} : ops'[x] = ops[x] /\ asked'[x] = asked[x]
    BY <1>1
  <1> QED
    BY <1>2 DEF OpsStep

(* A request that is under way                                             *)
LEMMA UnderWay ==
    ASSUME TypeOK, LocksHold, NEW o \in Ops, ops[o] # None
    PROVE  /\ ops[o] \in OpType /\ asked[o] \in AskedType \cup {None}
           /\ HoldsRows(ops[o]) /\ HoldsStore(ops[o], asked[o])
  BY DEF TypeOK, DistributionTypeOK, AccessTypeOK, LocksHold

(* It goes on to its next step, about the same rows.                       *)
LEMMA StepMoves ==
    ASSUME TypeOK, RowsRefer, LocksHold, NEW o \in Ops, ops[o] # None,
           NEW at \in {"read", "release", "assignment", "client", "launch",
                       "tenant"},
           ops' = [ops EXCEPT ![o].at = at],
           UNCHANGED <<managedReads, installs, asked>>, UNCHANGED heldTables,
           HoldsRows([ops[o] EXCEPT !.at = at]),
           HoldsStore([ops[o] EXCEPT !.at = at], asked[o])
    PROVE  StoresStep
  <1> DEFINE p == [ops[o] EXCEPT !.at = at]
  <1>1. p \in OpType
    BY UnderWay DEF OpType
  <1>2. ops' = [ops EXCEPT ![o] = p] /\ HoldsRows(p) /\ HoldsStore(p, asked[o])
    OBVIOUS
  <1> HIDE DEF p
  <1>3. PICK q \in AskedType \cup {None} : q = asked[o]
    BY UnderWay
  <1> QED
    BY <1>1, <1>2, <1>3, OneMoves

LEMMA RequestMoves ==
    ASSUME TypeOK, RowsRefer, NEW o \in Ops, NEW r \in DOMAIN releases,
           NEW m \in Merchants, Request(o, r, m), UNCHANGED accessVars
    PROVE  StoresStep
  <1> DEFINE p == [do |-> "request", release |-> r, merchant |-> m,
                   assignment |-> None, at |-> "release"]
  <1>1. r \in Nat
    BY DEF TypeOK, DistributionTypeOK
  <1>2. p \in OpType /\ ops' = [ops EXCEPT ![o] = p]
    BY <1>1 DEF Request, OpType
  <1>3. HoldsRows(p) /\ HoldsStore(p, asked[o])
    BY DEF Request, HoldsRows, HoldsStore, ForStore, HasAssignment, HasClient,
           HasLaunch
  <1> HIDE DEF p
  <1>4. PICK q \in AskedType \cup {None} : q = asked[o]
    BY DEF TypeOK, AccessTypeOK
  <1> QED
    BY <1>2, <1>3, <1>4, OneMoves DEF Request, otherThanOps, heldTables

LEMMA ReadApprovalMoves ==
    ASSUME TypeOK, RowsRefer, NEW o \in Ops, NEW a \in DOMAIN assignments,
           ReadApproval(o, a), UNCHANGED accessVars
    PROVE  StoresStep
  <1>1. /\ assignments \in Seq(AssignmentType) /\ a \in Nat
        /\ assignments[a] \in AssignmentType
    BY DEF TypeOK, DistributionTypeOK
  <1>2. PICK row \in AssignmentType : row = assignments[a]
    BY <1>1
  <1> DEFINE p == [do |-> "approve", release |-> row.release,
                   merchant |-> row.merchant, assignment |-> a, at |-> "read"]
  <1>3. p \in OpType /\ ops' = [ops EXCEPT ![o] = p]
    BY <1>1, <1>2 DEF ReadApproval, OpType, AssignmentType
  <1>4. HoldsRows(p) /\ HoldsStore(p, asked[o])
    BY <1>2 DEF RowsRefer, HoldsRows, HoldsStore, ForStore, HasAssignment,
                HasClient, HasLaunch
  <1> HIDE DEF p
  <1>5. PICK q \in AskedType \cup {None} : q = asked[o]
    BY DEF TypeOK, AccessTypeOK
  <1> QED
    BY <1>3, <1>4, <1>5, OneMoves DEF ReadApproval, otherThanOps, heldTables

LEMMA HoldForApprovalMoves ==
    ASSUME TypeOK, RowsRefer, LocksHold, NEW o \in Ops, HoldForApproval(o),
           UNCHANGED accessVars
    PROVE  StoresStep
  <1>1. ops[o] # None /\ ops[o].do = "approve" /\ Signed(ops[o].release)
    BY DEF HoldForApproval, At
  <1>2. PICK w \in OpType : w = ops[o]
    BY <1>1, UnderWay
  <1>3. HoldsRows([w EXCEPT !.at = "release"])
    BY <1>1, <1>2, UnderWay
    DEF HoldsRows, OpType, ForStore, HasAssignment, HasClient, HasLaunch
  <1>4. HoldsStore([w EXCEPT !.at = "release"], asked[o])
    BY <1>1, <1>2 DEF HoldsStore, OpType
  <1> QED
    BY <1>1, <1>2, <1>3, <1>4, StepMoves
    DEF HoldForApproval, otherThanOps, heldTables

LEMMA HoldForInstallMoves ==
    ASSUME TypeOK, RowsRefer, NEW o \in Ops, NEW r \in DOMAIN releases,
           NEW m \in Merchants, UNCHANGED accessVars,
           HoldManaged(o, r, m) \/ HoldUI(o, r, m) \/ HoldResource(o, r, m)
    PROVE  StoresStep
  <1> DEFINE p == [do |-> "install", release |-> r, merchant |-> m,
                   assignment |-> None, at |-> "release"]
  <1>1. r \in Nat
    BY DEF TypeOK, DistributionTypeOK
  <1>2. p \in OpType /\ ops' = [ops EXCEPT ![o] = p]
    BY <1>1 DEF HoldManaged, HoldUI, HoldResource, HoldForInstall, OpType
  <1>3. HoldsRows(p) /\ HoldsStore(p, asked[o])
    BY DEF HoldManaged, HoldUI, HoldResource, HoldsRows, HoldsStore, ForStore,
           HasAssignment, HasClient, HasLaunch
  <1> HIDE DEF p
  <1>4. PICK q \in AskedType \cup {None} : q = asked[o]
    BY DEF TypeOK, AccessTypeOK
  <1> QED
    BY <1>2, <1>3, <1>4, OneMoves
    DEF HoldManaged, HoldUI, HoldResource, HoldForInstall, otherThanOps,
        heldTables

(* The assignment is held when the release is, and was requested for it.   *)
LEMMA HoldAssignmentMoves ==
    ASSUME TypeOK, RowsRefer, LocksHold, NEW o \in Ops, HoldAssignment(o),
           UNCHANGED accessVars
    PROVE  StoresStep
  <1>1. /\ ops[o] # None /\ ops[o].do \in ForStore /\ ops[o].at = "release"
    BY DEF HoldAssignment, At, ForStore
  <1>2. PICK w \in OpType : w = ops[o]
    BY <1>1, UnderWay
  <1>3. PICK a \in Current(w.release, w.merchant) :
            /\ assignments[a].status = "approved"
            /\ Signed(w.release)
            /\ assignments[a].digest = releases[w.release].package
            /\ ops' = [ops EXCEPT ![o].assignment = a, ![o].at = "assignment"]
    BY <1>2 DEF HoldAssignment
  <1>4. /\ a \in Nat /\ a \in DOMAIN assignments
        /\ assignments[a].release = w.release
        /\ assignments[a].merchant = w.merchant
    BY <1>3 DEF Current, TypeOK, DistributionTypeOK
  <1> DEFINE m == [w EXCEPT !.assignment = a]
             p == [m EXCEPT !.at = "assignment"]
  <1>5. ops' = [ops EXCEPT ![o] = p]
    BY <1>2, <1>3 DEF TypeOK, DistributionTypeOK
  <1>6. /\ m \in OpType /\ m.do = w.do /\ m.release = w.release
        /\ m.merchant = w.merchant /\ m.assignment = a
    BY <1>2, <1>4 DEF OpType
  <1> HIDE DEF m
  <1>7. /\ p \in OpType /\ p.do = w.do /\ p.release = w.release
        /\ p.merchant = w.merchant /\ p.assignment = a /\ p.at = "assignment"
    BY <1>6 DEF OpType
  <1> HIDE DEF p
  <1>8. HoldsRows(w) /\ HoldsStore(w, asked[o])
    BY <1>1, <1>2, UnderWay
  <1>9. HoldsRows(p)
    BY <1>1, <1>2, <1>3, <1>4, <1>7, <1>8
    DEF HoldsRows, ForStore, HasAssignment, HasClient, HasLaunch
  <1>10. HoldsStore(p, asked[o])
    BY <1>7, <1>8 DEF HoldsStore
  <1>11. PICK q \in AskedType \cup {None} : q = asked[o]
    BY DEF TypeOK, AccessTypeOK
  <1> QED
    BY <1>5, <1>7, <1>9, <1>10, <1>11, OneMoves
    DEF HoldAssignment, otherThanOps, heldTables

-----------------------------------------------------------------------------
(* What requests commit *)

LEMMA SignedDocument ==
    ASSUME TypeOK, NEW r \in DOMAIN releases, Signed(r)
    PROVE  releases[r].package \in Document
  <1>1. releases[r] \in ReleaseType
    BY DEF TypeOK, DistributionTypeOK
  <1>2. releases[r].manifest \in Document
    BY <1>1 DEF ReleaseType
  <1> QED
    BY <1>2 DEF Signed, Intact

(* An assignment is requested while its release is signed, and held.       *)
LEMMA CommitRequestKeeps ==
    ASSUME TypeOK, RowsRefer, LocksHold, NEW o \in Ops, CommitRequest(o),
           UNCHANGED accessVars
    PROVE  StoresStep
  <1>1. /\ ops[o] # None /\ ops[o].do = "request" /\ ops[o].at = "release"
    BY DEF CommitRequest, At
  <1>2. PICK w \in OpType : w = ops[o]
    BY <1>1, UnderWay
  <1>3. w.release \in DOMAIN releases /\ Signed(w.release)
    BY <1>1, <1>2, UnderWay DEF HoldsRows, ForStore
  <1> DEFINE row == [release |-> w.release, digest |-> releases[w.release].package,
                     merchant |-> w.merchant, status |-> "requested"]
  <1>4. row \in AssignmentType /\ row.release = w.release
    BY <1>2, <1>3, SignedDocument DEF OpType, AssignmentType
  <1>5. /\ assignments' = Append(assignments, row)
        /\ assignments \in Seq(AssignmentType)
    BY <1>2 DEF CommitRequest, TypeOK, DistributionTypeOK
  <1> HIDE DEF row
  <1>6. /\ assignments' \in Seq(AssignmentType)
        /\ \A a \in DOMAIN assignments :
              a \in DOMAIN assignments' /\ assignments'[a] = assignments[a]
        /\ \A a \in DOMAIN assignments' \ DOMAIN assignments :
              assignments'[a] = row
    BY <1>4, <1>5
  <1>7. UNCHANGED releases
    BY DEF CommitRequest
  <1>8. AssignmentsStep
    BY <1>3, <1>4, <1>6, <1>7 DEF AssignmentsStep
  <1>9. OpsStep
    BY OneEnds DEF CommitRequest, Done
  <1> QED
    BY <1>8, <1>9, SameStores, SameAccess DEF CommitRequest, StoresStep

(* One assignment changes its status, to what is permitted now.            *)
LEMMA OneAssignmentChanges ==
    ASSUME TypeOK, NEW a \in DOMAIN assignments,
           NEW status \in {"approved", "rejected", "revoked"},
           assignments' = [assignments EXCEPT ![a].status = status],
           ~AssignmentHeld(a), UNCHANGED releases,
           assignments[a].status \notin {"rejected", "revoked"},
           status = "approved" => Signed(assignments[a].release)
    PROVE  AssignmentsStep
  <1>1. assignments \in Seq(AssignmentType) /\ assignments[a] \in AssignmentType
    BY DEF TypeOK, DistributionTypeOK
  <1> DEFINE row == [assignments[a] EXCEPT !.status = status]
  <1>2. /\ row \in AssignmentType /\ row.release = assignments[a].release
        /\ row.merchant = assignments[a].merchant
        /\ row.digest = assignments[a].digest /\ row.status = status
    BY <1>1 DEF AssignmentType
  <1>3. assignments' = [assignments EXCEPT ![a] = row]
    OBVIOUS
  <1> HIDE DEF row
  <1>4. /\ assignments' \in Seq(AssignmentType)
        /\ DOMAIN assignments' = DOMAIN assignments /\ assignments'[a] = row
        /\ \A b \in DOMAIN assignments \ {a} : assignments'[b] = assignments[b]
    BY <1>1, <1>2, <1>3
  <1> QED
    BY <1>2, <1>4 DEF AssignmentsStep

(* It is approved while its release is signed, and held.                   *)
LEMMA CommitApprovalKeeps ==
    ASSUME TypeOK, RowsRefer, LocksHold, NEW o \in Ops, CommitApproval(o),
           UNCHANGED accessVars
    PROVE  StoresStep
  <1>1. /\ ops[o] # None /\ ops[o].do = "approve" /\ ops[o].at = "release"
    BY DEF CommitApproval, At
  <1>2. PICK w \in OpType : w = ops[o]
    BY <1>1, UnderWay
  <1>3. /\ w.assignment \in DOMAIN assignments /\ Signed(w.release)
        /\ assignments[w.assignment].release = w.release
    BY <1>1, <1>2, UnderWay DEF HoldsRows, ForStore
  <1>4. PICK a \in DOMAIN assignments : a = w.assignment
    BY <1>3
  <1>5. /\ assignments' = [assignments EXCEPT ![a].status = "approved"]
        /\ ~AssignmentHeld(a) /\ UNCHANGED releases
        /\ assignments[a].status = "requested"
        /\ Signed(assignments[a].release)
    BY <1>2, <1>3, <1>4 DEF CommitApproval
  <1>6. AssignmentsStep
    BY <1>5, OneAssignmentChanges
  <1>7. OpsStep
    BY OneEnds DEF CommitApproval, Done
  <1> QED
    BY <1>6, <1>7, SameStores, SameAccess DEF CommitApproval, StoresStep

LEMMA WithdrawKeeps ==
    ASSUME TypeOK, RowsRefer, NEW a \in DOMAIN assignments, NEW status,
           Withdraw(a, status), UNCHANGED accessVars
    PROVE  StoresStep
  <1>1. AssignmentsStep
    BY OneAssignmentChanges DEF Withdraw
  <1> QED
    BY <1>1, SameStores, SameAccess DEF Withdraw, StoresStep

(* A store installs what it holds: an approved assignment of a signed      *)
(* release, whose client and launch it holds too if it has an interface.   *)
LEMMA InstallIsInstallable ==
    ASSUME TypeOK, RowsRefer, LocksHold, NEW o \in Ops, CommitInstall(o)
    PROVE  /\ InstallsStep
           /\ ops' = [ops EXCEPT ![o] = None]
           /\ ops[o].assignment \in DOMAIN assignments
           /\ assignments[ops[o].assignment].release = ops[o].release
           /\ ops[o].merchant \in Merchants
  <1>1. /\ ops[o] # None /\ ops[o].do = "install"
        /\ \/ ops[o].at = "assignment" /\ ~Reviewed(ops[o].release)
           \/ ops[o].at = "launch"
    BY DEF CommitInstall, At
  <1>2. PICK w \in OpType : w = ops[o]
    BY <1>1, UnderWay
  <1>3. HoldsRows(w)
    BY <1>1, <1>2, UnderWay
  <1>4. /\ w.assignment \in DOMAIN assignments
        /\ assignments[w.assignment].release = w.release
        /\ assignments[w.assignment].status = "approved"
        /\ Signed(w.release)
        /\ assignments[w.assignment].digest = releases[w.release].package
        /\ releases[w.release].kind # "integration"
        /\ Reviewed(w.release) => Ready(w.release)
    BY <1>1, <1>2, <1>3
    DEF HoldsRows, ForStore, HasAssignment, HasClient, HasLaunch, Ready
  <1>5. Installable(w.assignment)
    BY <1>4 DEF Installable
  <1>6. w.assignment \in Nat /\ installs \subseteq Nat
    BY <1>4 DEF TypeOK, DistributionTypeOK
  <1>7. InstallsStep
    BY <1>2, <1>4, <1>5, <1>6 DEF CommitInstall, InstallsStep
  <1> QED
    BY <1>2, <1>4, <1>7 DEF CommitInstall, Done, OpType

LEMMA CommitInstallKeeps ==
    ASSUME TypeOK, RowsRefer, LocksHold, NEW o \in Ops, CommitInstall(o),
           UNCHANGED accessVars
    PROVE  StoresStep
  BY InstallIsInstallable, OneEnds, SameStores, SameAccess
  DEF CommitInstall, StoresStep

LEMMA EndRequestKeeps ==
    ASSUME TypeOK, RowsRefer, NEW o \in Ops, EndRequest(o)
    PROVE  StoresStep /\ UNCHANGED authoringVars
  <1>1. OpsStep
    BY OneEnds DEF EndRequest, Abandon, Done, Forget
  <1> QED
    BY <1>1, SameStores, SameAccess
    DEF EndRequest, Abandon, otherThanOps, StoresStep

LEMMA AssignmentsKeep ==
    ASSUME TypeOK, RowsRefer, LocksHold, UNCHANGED accessVars,
           AssignmentNext \/ InstallNext
    PROVE  StoresStep /\ UNCHANGED authoringVars
  <1>1. UNCHANGED authoringVars
    BY DEF AssignmentNext, InstallNext, Withdraw, StopForMerchant, Request,
           ReadApproval, CommitRequest, HoldForApproval, CommitApproval,
           HoldAssignment, HoldManaged, HoldForInstall, CommitInstall,
           otherThanOps
  <1>2. CASE AssignmentNext
    BY <1>1, <1>2, WithdrawKeeps, RequestMoves, ReadApprovalMoves,
       CommitRequestKeeps, HoldForApprovalMoves, CommitApprovalKeeps,
       HoldAssignmentMoves
    DEF AssignmentNext, StopForMerchant
  <1>3. CASE InstallNext
    BY <1>1, <1>3, HoldForInstallMoves, CommitInstallKeeps DEF InstallNext
  <1> QED
    BY <1>2, <1>3

-----------------------------------------------------------------------------
(* Clients, launches and installations of reviewed interfaces *)

LEMMA ChangeClientKeeps ==
    ASSUME TypeOK, RowsRefer, NEW r \in DOMAIN releases,
           NEW status \in ClientStatus, ChangeClient(r, status)
    PROVE  StoresStep
  <1>1. ClientsStep
    BY DEF TypeOK, AccessTypeOK, ChangeClient, ClientsStep
  <1> QED
    BY <1>1, SameStores, SameAccess DEF ChangeClient, StoresStep

LEMMA LaunchKeeps ==
    ASSUME TypeOK, RowsRefer, LocksHold, NEW r \in DOMAIN releases,
           \/ SubmitLaunch(r)
           \/ \E status \in LaunchStatus : DecideLaunch(r, status)
    PROVE  StoresStep
  <1>1. PICK status \in LaunchStatus : SetLaunch(r, status)
    BY DEF SubmitLaunch, DecideLaunch, LaunchStatus
  <1>2. launches[r] = "none" \/ ~LaunchHeld(r)
    BY DEF SubmitLaunch, DecideLaunch
  <1>3. ASSUME LaunchHeld(r) PROVE launches[r] = "approved"
    <2>1. PICK o \in Ops : /\ ops[o] # None /\ ops[o].release = r
                           /\ ops[o].at \in HasLaunch
      BY <1>3 DEF LaunchHeld, Busy, HasLaunch
    <2> QED
      BY <2>1, UnderWay DEF HoldsRows
  <1>4. LaunchesStep
    BY <1>1, <1>2, <1>3 DEF TypeOK, AccessTypeOK, SetLaunch, LaunchesStep
  <1> QED
    BY <1>1, <1>4, SameStores, SameAccess DEF SetLaunch, StoresStep

LEMMA UninstallKeeps ==
    ASSUME TypeOK, RowsRefer, NEW i \in DOMAIN installations, Uninstall(i)
    PROVE  StoresStep
  <1> DEFINE Row == [merchant : Merchants, assignment : Nat, active : BOOLEAN]
             row == [installations[i] EXCEPT !.active = FALSE]
  <1>1. installations \in Seq(Row)
    BY DEF TypeOK, AccessTypeOK
  <1>2. installations[i] \in Row
    <2> HIDE DEF Row
    <2> QED
      BY <1>1
  <1>3. /\ row \in Row /\ row.merchant = installations[i].merchant
        /\ row.assignment = installations[i].assignment
        /\ installations' = [installations EXCEPT ![i] = row]
    BY <1>2 DEF Uninstall
  <1>4. ~TenantHeld(installations[i].merchant)
    BY DEF Uninstall
  <1>5. InstallationsStep
    <2> HIDE DEF row
    <2> QED
      BY <1>1, <1>3, <1>4 DEF InstallationsStep
  <1> QED
    BY <1>5, SameStores, SameAccess DEF Uninstall, StoresStep

LEMMA InstallReviewedKeeps ==
    ASSUME TypeOK, RowsRefer, LocksHold, NEW o \in Ops, InstallReviewed(o)
    PROVE  StoresStep
  <1> DEFINE Row == [merchant : Merchants, assignment : Nat, active : BOOLEAN]
             row == [merchant |-> ops[o].merchant,
                     assignment |-> ops[o].assignment, active |-> TRUE]
  <1>1. /\ installations \in Seq(Row)
        /\ installations' = Append(installations, row)
        /\ assignments \in Seq(AssignmentType)
    BY DEF TypeOK, AccessTypeOK, DistributionTypeOK, InstallReviewed
  <1>2. /\ ops[o].assignment \in DOMAIN assignments
        /\ Reviewed(assignments[ops[o].assignment].release)
        /\ ops[o].merchant \in Merchants
    BY InstallIsInstallable DEF InstallReviewed
  <1>3. row \in Row /\ row.assignment = ops[o].assignment
    BY <1>1, <1>2
  <1>4. InstallationsStep
    <2> HIDE DEF row
    <2> QED
      BY <1>1, <1>2, <1>3 DEF InstallationsStep
  <1>5. InstallsStep /\ OpsStep
    BY InstallIsInstallable, OneEnds DEF InstallReviewed
  <1> QED
    BY <1>4, <1>5, SameStores, SameAccess
    DEF InstallReviewed, CommitInstall, StoresStep

LEMMA Operations ==
    \A path, view : Operation(path, view) \in Scope \cup {None}
  BY DEF Operation, Scope

(* An installation is of a reviewed release.                               *)
LEMMA InstalledFrom ==
    ASSUME TypeOK, RowsRefer, NEW i \in DOMAIN installations
    PROVE  \E r \in DOMAIN releases, m \in Merchants :
              /\ r = assignments[installations[i].assignment].release
              /\ m = installations[i].merchant
              /\ r \in Nat /\ i \in Nat
              /\ Reviewed(r)
  <1> DEFINE Row == [merchant : Merchants, assignment : Nat, active : BOOLEAN]
  <1>1. installations \in Seq(Row)
    BY DEF TypeOK, AccessTypeOK
  <1>2. installations[i] \in Row
    <2> HIDE DEF Row
    <2> QED
      BY <1>1
  <1> QED
    BY <1>1, <1>2 DEF RowsRefer, TypeOK, DistributionTypeOK

LEMMA BeginReadMoves ==
    ASSUME TypeOK, RowsRefer, NEW o \in Ops, NEW i \in DOMAIN installations,
           NEW c \in DOMAIN releases, NEW path, NEW view,
           BeginRead(o, i, c, path, view)
    PROVE  StoresStep
  <1>1. PICK r \in DOMAIN releases, m \in Merchants :
            /\ r = assignments[installations[i].assignment].release
            /\ m = installations[i].merchant
            /\ r \in Nat /\ i \in Nat
    BY InstalledFrom
  <1>2. PICK s \in Scope \cup {None} : s = Operation(path, view)
    BY Operations
  <1> DEFINE p == [do |-> "read", release |-> r, merchant |-> m,
                   assignment |-> None, at |-> "read"]
             q == [installation |-> i, client |-> c, scope |-> s]
  <1>3. /\ p \in OpType /\ q \in AskedType
        /\ ops' = [ops EXCEPT ![o] = p] /\ asked' = [asked EXCEPT ![o] = q]
    BY <1>1, <1>2
    DEF BeginRead, OpType, AskedType, TypeOK, DistributionTypeOK
  <1>4. releases[r].kind = "resource" /\ q # None
    BY <1>1, <1>3, AccessNoneAssumption DEF BeginRead
  <1>5. HoldsRows(p) /\ HoldsStore(p, q)
    <2>1. HoldsRows(p)
      BY <1>1, <1>4 DEF HoldsRows, ForStore, HasAssignment, HasClient, HasLaunch
    <2>2. /\ q.installation = i /\ p.do = "read" /\ p.at = "read"
          /\ p.merchant = m /\ p.release = r
      OBVIOUS
    <2> HIDE DEF p, q
    <2> QED
      BY <1>1, <1>4, <2>1, <2>2 DEF HoldsStore
  <1> HIDE DEF p, q
  <1>6. asked'[o] = q
    BY <1>3 DEF TypeOK, AccessTypeOK
  <1> QED
    BY <1>3, <1>5, <1>6, OneMoves
    DEF BeginRead, otherThanRequest, otherThanOps, heldTables

LEMMA BeginOpenMoves ==
    ASSUME TypeOK, RowsRefer, NEW o \in Ops, NEW i \in DOMAIN installations,
           BeginOpen(o, i)
    PROVE  StoresStep
  <1>1. PICK r \in DOMAIN releases, m \in Merchants :
            /\ r = assignments[installations[i].assignment].release
            /\ m = installations[i].merchant
            /\ r \in Nat /\ i \in Nat
            /\ Reviewed(r)
    BY InstalledFrom
  <1> DEFINE p == [do |-> "open", release |-> r, merchant |-> m,
                   assignment |-> None, at |-> "read"]
             q == [installation |-> i, client |-> None, scope |-> None]
  <1>2. /\ p \in OpType /\ q \in AskedType
        /\ ops' = [ops EXCEPT ![o] = p] /\ asked' = [asked EXCEPT ![o] = q]
    BY <1>1 DEF BeginOpen, OpType, AskedType
  <1>3. releases[r].kind # "integration" /\ q # None
    BY <1>1, <1>2, AccessNoneAssumption DEF Reviewed
  <1>4. HoldsRows(p) /\ HoldsStore(p, q)
    <2>1. HoldsRows(p)
      BY <1>1, <1>3 DEF HoldsRows, ForStore, HasAssignment, HasClient, HasLaunch
    <2>2. /\ q.installation = i /\ p.do = "open" /\ p.at = "read"
          /\ p.merchant = m /\ p.release = r
      OBVIOUS
    <2> HIDE DEF p, q
    <2> QED
      BY <1>1, <1>3, <2>1, <2>2 DEF HoldsStore
  <1> HIDE DEF p, q
  <1>5. asked'[o] = q
    BY <1>2 DEF TypeOK, AccessTypeOK
  <1> QED
    BY <1>2, <1>4, <1>5, OneMoves
    DEF BeginOpen, otherThanRequest, otherThanOps, heldTables

(* Each of the locks is taken on top of the ones before it.                *)
LEMMA HoldReleaseMoves ==
    ASSUME TypeOK, RowsRefer, LocksHold, NEW o \in Ops, HoldRelease(o)
    PROVE  StoresStep
  <1>1. ops[o] # None /\ ops[o].do \in {"read", "open"}
    BY DEF HoldRelease, At
  <1>2. PICK w \in OpType : w = ops[o]
    BY <1>1, UnderWay
  <1>3. HoldsRows([w EXCEPT !.at = "release"])
    BY <1>1, <1>2, UnderWay
    DEF HoldsRows, OpType, ForStore, HasAssignment, HasClient, HasLaunch
  <1>4. HoldsStore([w EXCEPT !.at = "release"], asked[o])
    BY <1>1, <1>2, UnderWay DEF HoldsStore, OpType
  <1> QED
    BY <1>1, <1>2, <1>3, <1>4, StepMoves
    DEF HoldRelease, otherThanRequest, otherThanOps, heldTables

LEMMA HoldClientMoves ==
    ASSUME TypeOK, RowsRefer, LocksHold, NEW o \in Ops, HoldClient(o)
    PROVE  StoresStep
  <1>1. /\ ops[o] # None /\ ops[o].at = "assignment"
        /\ Reviewed(ops[o].release) /\ clients[ops[o].release] = "ready"
    BY DEF HoldClient, Idle
  <1>2. PICK w \in OpType : w = ops[o]
    BY <1>1, UnderWay
  <1>3. HoldsRows([w EXCEPT !.at = "client"])
    BY <1>1, <1>2, UnderWay
    DEF HoldsRows, OpType, ForStore, HasAssignment, HasClient, HasLaunch
  <1>4. HoldsStore([w EXCEPT !.at = "client"], asked[o])
    BY <1>1, <1>2, UnderWay DEF HoldsStore, OpType
  <1> QED
    BY <1>1, <1>2, <1>3, <1>4, StepMoves
    DEF HoldClient, otherThanRequest, otherThanOps, heldTables

LEMMA HoldLaunchMoves ==
    ASSUME TypeOK, RowsRefer, LocksHold, NEW o \in Ops, HoldLaunch(o)
    PROVE  StoresStep
  <1>1. /\ ops[o] # None /\ ops[o].at = "client"
        /\ launches[ops[o].release] = "approved"
    BY DEF HoldLaunch, Idle
  <1>2. PICK w \in OpType : w = ops[o]
    BY <1>1, UnderWay
  <1>3. HoldsRows([w EXCEPT !.at = "launch"])
    BY <1>1, <1>2, UnderWay
    DEF HoldsRows, OpType, ForStore, HasAssignment, HasClient, HasLaunch
  <1>4. HoldsStore([w EXCEPT !.at = "launch"], asked[o])
    BY <1>1, <1>2, UnderWay DEF HoldsStore, OpType
  <1> QED
    BY <1>1, <1>2, <1>3, <1>4, StepMoves
    DEF HoldLaunch, otherThanRequest, otherThanOps, heldTables

(* The store's lock is the last, taken for what is installed and allowed.  *)
LEMMA StoreMoves ==
    ASSUME TypeOK, RowsRefer, LocksHold, NEW o \in Ops,
           SendRead(o) \/ GiveLaunch(o)
    PROVE  StoresStep
  <1>1. /\ ops[o] # None /\ ops[o].at = "launch"
        /\ ops[o].do \in {"read", "open"}
        /\ Eligible(o, asked[o].installation)
    BY DEF SendRead, GiveLaunch, At
  <1>2. PICK w \in OpType : w = ops[o]
    BY <1>1, UnderWay
  <1>3. w.do = "read" =>
            asked[o].client = w.release /\ asked[o].scope \in RequiredScopes
    BY <1>2 DEF SendRead, GiveLaunch, At, Allows
  <1>4. HoldsRows([w EXCEPT !.at = "tenant"])
    BY <1>1, <1>2, UnderWay
    DEF HoldsRows, OpType, ForStore, HasAssignment, HasClient, HasLaunch
  <1>5. HoldsStore([w EXCEPT !.at = "tenant"], asked[o])
    BY <1>1, <1>2, <1>3, UnderWay DEF HoldsStore, OpType, Eligible
  <1> QED
    BY <1>1, <1>2, <1>4, <1>5, StepMoves
    DEF SendRead, GiveLaunch, otherThanRequest, otherThanOps, heldTables

LEMMA AccessKeeps ==
    ASSUME TypeOK, RowsRefer, LocksHold, AccessNext
    PROVE  StoresStep /\ UNCHANGED authoringVars
  <1>1. ASSUME NEW r \in DOMAIN releases,
               \/ \E status \in ClientStatus : ChangeClient(r, status)
               \/ \E status \in LaunchStatus : DecideLaunch(r, status)
               \/ SubmitLaunch(r)
        PROVE  StoresStep /\ UNCHANGED authoringVars
    BY <1>1, ChangeClientKeeps, LaunchKeeps
    DEF ChangeClient, DecideLaunch, SubmitLaunch, SetLaunch
  <1>2. ASSUME NEW o \in Ops, NEW i \in DOMAIN installations,
               \/ BeginOpen(o, i)
               \/ \E c \in DOMAIN releases, p \in Paths,
                     view \in {"none", "inventory"} : BeginRead(o, i, c, p, view)
        PROVE  StoresStep /\ UNCHANGED authoringVars
    BY <1>2, BeginReadMoves, BeginOpenMoves
    DEF BeginOpen, BeginRead, otherThanRequest, otherThanOps
  <1>3. ASSUME NEW o \in Ops,
               \/ HoldRelease(o) \/ HoldClient(o) \/ HoldLaunch(o)
               \/ SendRead(o) \/ GiveLaunch(o)
        PROVE  StoresStep /\ UNCHANGED authoringVars
    BY <1>3, HoldReleaseMoves, HoldClientMoves, HoldLaunchMoves, StoreMoves
    DEF HoldRelease, HoldClient, HoldLaunch, SendRead, GiveLaunch,
        otherThanRequest, otherThanOps
  <1>4. ASSUME NEW o \in Ops, InstallReviewed(o)
        PROVE  StoresStep /\ UNCHANGED authoringVars
    BY <1>4, InstallReviewedKeeps DEF InstallReviewed, CommitInstall
  <1>5. ASSUME NEW i \in DOMAIN installations, Uninstall(i)
        PROVE  StoresStep /\ UNCHANGED authoringVars
    BY <1>5, UninstallKeeps DEF Uninstall
  <1> QED
    BY <1>1, <1>2, <1>3, <1>4, <1>5 DEF AccessNext

-----------------------------------------------------------------------------
(* Private apps *)

(* What a request for a private app relies on stays while it holds it.     *)
PrivateStep ==
    /\ PrivateTypeOK'
    /\ OwnerHeld => enabled' = enabled
    /\ private' # private =>
          private = None /\ saved = <<>> /\ saved' # <<>>
          /\ private' = saved'[1] /\ ~Public(private')
    /\ \A i \in DOMAIN grants :
          /\ i \in DOMAIN grants'
          /\ grants'[i].merchant = grants[i].merchant
          /\ StoreHeld(grants[i].merchant) => grants'[i] = grants[i]
    /\ \A o \in Ops :
          \/ requests'[o] \in {None, requests[o]}
          \/ UNCHANGED <<enabled, private, grants>> /\ PrivateHolds(requests'[o])

LEMMA SamePrivate ==
    ASSUME TypeOK, UNCHANGED privateVars
    PROVE  PrivateStep /\ PrivateConsentIsOwned
  BY DEF TypeOK, PrivateTypeOK, PrivateStep, PrivateConsentIsOwned

LEMMA PrivateTypes ==
    ASSUME TypeOK, NEW o \in Ops
    PROVE  /\ requests \in [Ops -> RequestType \cup {None}]
           /\ requests[o] # None => requests[o] \in RequestType
  BY DEF TypeOK, PrivateTypeOK

(* A request is made, goes on or ends, and nothing else happens.           *)
LEMMA RequestGoesOn ==
    ASSUME TypeOK, NEW o \in Ops, NEW q \in RequestType \cup {None},
           requests' = [requests EXCEPT ![o] = q],
           q # None => PrivateHolds(q),
           UNCHANGED <<secret, private, enabled, grants>>
    PROVE  PrivateStep /\ PrivateConsentIsOwned
  <1>1. /\ requests' \in [Ops -> RequestType \cup {None}] /\ requests'[o] = q
        /\ \A x \in Ops \ {o} : requests'[x] = requests[x]
    BY PrivateTypes
  <1>2. PrivateTypeOK'
    BY <1>1 DEF TypeOK, PrivateTypeOK
  <1> QED
    BY <1>1, <1>2 DEF PrivateStep, PrivateConsentIsOwned

(* The version of a private app is signed when the app is created.         *)
LEMMA CreateAppKeeps ==
    ASSUME TypeOK, PrivateIsFirst, NEW d \in Document, NEW hook \in BOOLEAN,
           CreateApp(d, hook)
    PROVE  PrivateStep /\ PrivateConsentIsOwned
  <1>1. saved = <<>> /\ saved' = <<d>>
    BY DEF TypeOK, AuthoringTypeOK, CreateApp, Revision, Save, SaveDraft
  <1>2. private = None /\ private' = SignedVersion(d)
    BY <1>1 DEF PrivateIsFirst, CreateApp
  <1>3. PrivateTypeOK'
    BY <1>2, PrivateAssumption
    DEF CreateApp, SignedVersion, TypeOK, PrivateTypeOK
  <1>4. private' # private => private' = d /\ ~Public(d)
    BY <1>2 DEF SignedVersion
  <1> QED
    BY <1>1, <1>2, <1>3, <1>4
    DEF CreateApp, PrivateStep, PrivateConsentIsOwned, TypeOK, PrivateTypeOK

(* The credential is replaced, or the account switched, when nobody holds  *)
(* it.                                                                     *)
LEMMA OwnerKeeps ==
    ASSUME TypeOK,
           \/ Backfill
           \/ \E version \in 1 .. MaxSecret : RotateSecret(version)
           \/ \E on \in BOOLEAN : SetEnabled(on)
    PROVE  PrivateStep /\ PrivateConsentIsOwned
  <1>1. UNCHANGED <<private, grants, requests>>
    BY DEF Backfill, RotateSecret, SetEnabled
  <1>2. secret \in 0 .. MaxSecret /\ MaxSecret \in Nat \ {0}
    BY PrivateAssumption DEF TypeOK, PrivateTypeOK
  <1>3. secret' \in 0 .. MaxSecret /\ enabled' \in BOOLEAN
    <2>1. CASE Backfill \/ \E version \in 1 .. MaxSecret : RotateSecret(version)
      BY <1>2, <2>1 DEF Backfill, RotateSecret, TypeOK, PrivateTypeOK
    <2>2. CASE \E on \in BOOLEAN : SetEnabled(on)
      BY <1>2, <2>2 DEF SetEnabled
    <2> QED
      BY <2>1, <2>2
  <1>4. PrivateTypeOK'
    BY <1>1, <1>3 DEF TypeOK, PrivateTypeOK
  <1>5. OwnerHeld => enabled' = enabled
    BY DEF Backfill, RotateSecret, SetEnabled
  <1> QED
    BY <1>1, <1>4, <1>5 DEF PrivateStep, PrivateConsentIsOwned, TypeOK, PrivateTypeOK

LEMMA BeginConsentMoves ==
    ASSUME TypeOK, NEW o \in Ops, NEW m \in Merchants,
           NEW actor \in {"owner", "other"}, BeginConsent(o, m, actor)
    PROVE  PrivateStep /\ PrivateConsentIsOwned
  <1> DEFINE q == [do |-> "consent", merchant |-> m, actor |-> actor,
                   grant |-> 0, scope |-> None, at |-> "begun"]
  <1>1. q \in RequestType /\ requests' = [requests EXCEPT ![o] = q]
    BY DEF BeginConsent, RequestType
  <1>2. PrivateHolds(q)
    BY DEF PrivateHolds
  <1> HIDE DEF q
  <1> QED
    BY <1>1, <1>2, RequestGoesOn DEF BeginConsent, otherThanRequests

GrantRow == [merchant : Merchants, document : Document, active : BOOLEAN]

LEMMA GrantTypes ==
    ASSUME TypeOK
    PROVE  /\ grants \in Seq(GrantRow)
           /\ \A i \in DOMAIN grants : i \in Nat /\ grants[i] \in GrantRow
                  /\ grants[i].merchant \in Merchants
  <1>1. grants \in Seq(GrantRow)
    BY DEF TypeOK, PrivateTypeOK, GrantRow
  <1>2. \A i \in DOMAIN grants : i \in Nat /\ grants[i] \in GrantRow
    BY <1>1
  <1> QED
    BY <1>1, <1>2 DEF GrantRow

LEMMA BeginUseMoves ==
    ASSUME TypeOK, NEW o \in Ops, NEW i \in DOMAIN grants, NEW presented,
           NEW path, NEW view, BeginUse(o, i, presented, path, view)
    PROVE  PrivateStep /\ PrivateConsentIsOwned
  <1>1. PICK m \in Merchants : m = grants[i].merchant
    BY GrantTypes
  <1>2. PICK s \in Scope \cup {None} : s = Operation(path, view)
    BY Operations
  <1> DEFINE q == [do |-> "use", merchant |-> m, actor |-> "owner",
                   grant |-> i, scope |-> s, at |-> "begun"]
  <1>3. q \in RequestType /\ requests' = [requests EXCEPT ![o] = q]
    BY <1>1, <1>2, GrantTypes DEF BeginUse, RequestType
  <1>4. PrivateHolds(q)
    BY <1>1 DEF PrivateHolds
  <1> HIDE DEF q
  <1> QED
    BY <1>3, <1>4, RequestGoesOn DEF BeginUse, otherThanRequests

(* The next lock is taken: owner, credential, store.                       *)
LEMMA PrivateMoves ==
    ASSUME TypeOK, PrivateLocksHold, NEW o \in Ops,
           HoldOwner(o) \/ HoldCredential(o) \/ SendUse(o)
    PROVE  PrivateStep /\ PrivateConsentIsOwned
  <1>1. requests[o] # None
    BY DEF HoldOwner, HoldCredential, SendUse, Stands
  <1>2. PICK w \in RequestType : w = requests[o]
    BY <1>1, PrivateTypes
  <1>3. PrivateHolds(w)
    BY <1>1, <1>2 DEF PrivateLocksHold
  <1>4. PICK at \in {"owner", "credential", "store"} :
            /\ requests' = [requests EXCEPT ![o] = [w EXCEPT !.at = at]]
            /\ at = "owner" => enabled /\ w.actor = "owner" /\ private # None
            /\ at # "owner" => w.at \in {"owner", "credential", "store"}
            /\ at = "store" => /\ w.do = "use" /\ w.scope = "read_products"
                               /\ grants[w.grant].active
                               /\ grants[w.grant].document = private
    BY <1>2 DEF HoldOwner, HoldCredential, SendUse, Stands, To, Allows
  <1> DEFINE q == [w EXCEPT !.at = at]
  <1>5. /\ q \in RequestType /\ q.at = at /\ q.do = w.do /\ q.actor = w.actor
        /\ q.grant = w.grant /\ q.scope = w.scope /\ q.merchant = w.merchant
    BY <1>2 DEF RequestType
  <1>6. requests' = [requests EXCEPT ![o] = q]
    BY <1>4
  <1> HIDE DEF q
  <1>7. PrivateHolds(q)
    BY <1>3, <1>4, <1>5 DEF PrivateHolds
  <1> QED
    BY <1>5, <1>6, <1>7, RequestGoesOn
    DEF HoldOwner, HoldCredential, SendUse, otherThanRequests

(* A consent commits for the owner, whose account is held.                 *)
LEMMA CommitConsentKeeps ==
    ASSUME TypeOK, PrivateLocksHold, NEW o \in Ops, CommitConsent(o)
    PROVE  PrivateStep /\ PrivateConsentIsOwned
  <1>1. requests[o] # None /\ requests[o].at = "credential"
    BY DEF CommitConsent, Stands
  <1>2. PICK w \in RequestType : w = requests[o]
    BY <1>1, PrivateTypes
  <1>3. enabled /\ w.actor = "owner" /\ private # None
    BY <1>1, <1>2 DEF PrivateLocksHold, PrivateHolds
  <1> DEFINE row == [merchant |-> w.merchant, document |-> private,
                     active |-> TRUE]
  <1>4. row \in GrantRow /\ row.merchant = w.merchant
    BY <1>2, <1>3 DEF RequestType, GrantRow, TypeOK, PrivateTypeOK
  <1>5. grants' = Append(grants, row) /\ requests' = [requests EXCEPT ![o] = None]
    BY <1>2 DEF CommitConsent
  <1> HIDE DEF row
  <1>6. /\ grants' \in Seq(GrantRow) /\ Len(grants') = Len(grants) + 1
        /\ grants'[Len(grants')] = row
        /\ \A i \in DOMAIN grants : i \in DOMAIN grants' /\ grants'[i] = grants[i]
    BY <1>4, <1>5, GrantTypes
  <1>7. /\ requests' \in [Ops -> RequestType \cup {None}]
        /\ requests'[o] = None
        /\ \A x \in Ops \ {o} : requests'[x] = requests[x]
    BY <1>5, PrivateTypes
  <1>8. UNCHANGED <<secret, private, enabled>>
    BY DEF CommitConsent
  <1>9. PrivateTypeOK'
    BY <1>6, <1>7, <1>8 DEF TypeOK, PrivateTypeOK, GrantRow
  <1>10. PrivateStep
    BY <1>6, <1>7, <1>8, <1>9 DEF PrivateStep
  <1>11. PrivateConsentIsOwned
    BY <1>1, <1>2, <1>3, <1>4, <1>6, <1>7, <1>8 DEF PrivateConsentIsOwned
  <1> QED
    BY <1>10, <1>11

LEMMA EndPrivateKeeps ==
    ASSUME TypeOK, NEW o \in Ops, EndPrivate(o)
    PROVE  PrivateStep /\ PrivateConsentIsOwned
  BY RequestGoesOn DEF EndPrivate, otherThanRequests

LEMMA UninstallPrivateKeeps ==
    ASSUME TypeOK, NEW i \in DOMAIN grants, UninstallPrivate(i)
    PROVE  PrivateStep /\ PrivateConsentIsOwned
  <1> DEFINE row == [grants[i] EXCEPT !.active = FALSE]
  <1>1. /\ row \in GrantRow /\ row.merchant = grants[i].merchant
        /\ grants' = [grants EXCEPT ![i] = row]
        /\ ~StoreHeld(grants[i].merchant)
        /\ UNCHANGED <<secret, private, enabled, requests>>
    BY GrantTypes DEF UninstallPrivate, GrantRow
  <1> HIDE DEF row
  <1>2. /\ grants' \in Seq(GrantRow) /\ Len(grants') = Len(grants)
        /\ DOMAIN grants' = DOMAIN grants /\ grants'[i] = row
        /\ \A j \in DOMAIN grants \ {i} : grants'[j] = grants[j]
    BY <1>1, GrantTypes
  <1>3. PrivateTypeOK'
    BY <1>1, <1>2 DEF TypeOK, PrivateTypeOK, GrantRow
  <1>4. PrivateStep
    BY <1>1, <1>2, <1>3 DEF PrivateStep
  <1>5. ~(Len(grants') > Len(grants))
    BY <1>2, GrantTypes
  <1> QED
    BY <1>4, <1>5 DEF PrivateConsentIsOwned

LEMMA PrivateNextKeeps ==
    ASSUME TypeOK, PrivateIsFirst, PrivateLocksHold, NEW forms \in SUBSET Form,
           PrivateNext(forms)
    PROVE  /\ PrivateStep /\ PrivateConsentIsOwned
           /\ DraftsStep /\ ReviewStep
           /\ UNCHANGED <<distributionVars, accessVars>>
  <1>1. ASSUME NEW d \in [version : Versions, form : forms],
               EditApp(d) \/ \E hook \in BOOLEAN : CreateApp(d, hook)
        PROVE  /\ PrivateStep /\ PrivateConsentIsOwned
               /\ DraftsStep /\ ReviewStep
               /\ UNCHANGED <<distributionVars, accessVars>>
    <2>1. d \in Document
      BY DEF Document
    <2>2. PICK e : Save(e, d)
      BY <1>1 DEF EditApp, CreateApp
    <2> QED
      BY <1>1, <2>1, <2>2, SaveKeeps, CreateAppKeeps, SamePrivate
      DEF EditApp, CreateApp
  <1>2. ASSUME \/ Backfill
               \/ \E version \in 1 .. MaxSecret : RotateSecret(version)
               \/ \E on \in BOOLEAN : SetEnabled(on)
        PROVE  /\ PrivateStep /\ PrivateConsentIsOwned
               /\ UNCHANGED <<authoringVars, distributionVars, accessVars>>
    BY <1>2, OwnerKeeps DEF Backfill, RotateSecret, SetEnabled
  <1>3. ASSUME NEW o \in Ops,
               \/ \E m \in Merchants, actor \in {"owner", "other"} :
                      BeginConsent(o, m, actor)
               \/ \E i \in DOMAIN grants, presented \in 1 .. MaxSecret,
                     p \in Paths, view \in {"none", "inventory"} :
                      BeginUse(o, i, presented, p, view)
               \/ HoldOwner(o) \/ HoldCredential(o)
               \/ SendUse(o) \/ CommitConsent(o) \/ EndPrivate(o)
        PROVE  /\ PrivateStep /\ PrivateConsentIsOwned
               /\ UNCHANGED <<authoringVars, distributionVars, accessVars>>
    <2>1. UNCHANGED <<authoringVars, distributionVars, accessVars>>
      BY <1>3 DEF BeginConsent, BeginUse, HoldOwner, HoldCredential, SendUse,
                  CommitConsent, EndPrivate, otherThanRequests
    <2> QED
      BY <1>3, <2>1, BeginConsentMoves, BeginUseMoves, PrivateMoves,
         CommitConsentKeeps, EndPrivateKeeps
  <1>4. ASSUME NEW i \in DOMAIN grants, UninstallPrivate(i)
        PROVE  /\ PrivateStep /\ PrivateConsentIsOwned
               /\ UNCHANGED <<authoringVars, distributionVars, accessVars>>
    BY <1>4, UninstallPrivateKeeps DEF UninstallPrivate
  <1>5. UNCHANGED authoringVars => DraftsStep /\ ReviewStep
    BY SameDrafts, SameReview DEF DraftsStep, ReviewStep
  <1> QED
    BY <1>1, <1>2, <1>3, <1>4, <1>5 DEF PrivateNext

-----------------------------------------------------------------------------
(* The invariant is kept *)

(* What was copied stays a copy of what is still there.                    *)
LEMMA CopiesStay ==
    ASSUME TypeOK, ReadsAreSaved, SignedIsReviewed,
           DraftsStep, ReviewStep, ReleasesStep, ManagedReadsStep
    PROVE  ReadsAreSaved' /\ SignedIsReviewed'
  <1>1. \A i \in DOMAIN saved : i \in DOMAIN saved' /\ saved'[i] = saved[i]
    BY DEF DraftsStep, SavedStep
  <1>2. \A i \in DOMAIN submissions :
            /\ i \in DOMAIN submissions'
            /\ submissions'[i].asked = submissions[i].asked
            /\ submissions'[i].snapshot = submissions[i].snapshot
            /\ submissions[i].status = "approved" =>
                  submissions'[i].status = "approved"
    BY DEF ReviewStep, SubmissionsStep
  <1>3. \A s \in submits' :
            s.revision \in DOMAIN saved' /\ s.document = saved'[s.revision]
    BY <1>1 DEF ReviewStep, SubmitsStep, ReadsAreSaved
  <1>4. \A c \in candidates' :
            /\ c.submission \in DOMAIN submissions'
            /\ submissions'[c.submission].status = "approved"
            /\ c.document = submissions'[c.submission].snapshot
    BY <1>2 DEF ReviewStep, CandidatesStep, ReadsAreSaved
  <1>5. \A d \in managedReads' : d.revision \in DOMAIN saved'
    BY <1>1 DEF ManagedReadsStep, ReadsAreSaved
  <1>6. \A i \in Listed' :
            /\ i \in DOMAIN submissions'
            /\ submissions'[i].status = "approved"
            /\ catalog'[i].package = submissions'[i].snapshot
    <2>1. SUFFICES ASSUME NEW i \in DOMAIN catalog', catalog'[i] # None
                   PROVE  /\ i \in DOMAIN submissions'
                          /\ submissions'[i].status = "approved"
                          /\ catalog'[i].package = submissions'[i].snapshot
      BY DEF Listed
    <2>2. DOMAIN catalog' = DOMAIN catalog
      BY DEF TypeOK, AuthoringTypeOK, ReviewStep, CatalogStep
    <2>3. \/ i \in Listed /\ catalog'[i].package = catalog[i].package
          \/ /\ i \in DOMAIN submissions
             /\ submissions[i].status = "approved"
             /\ catalog'[i].package = submissions[i].snapshot
      BY <2>1, <2>2 DEF ReviewStep, CatalogStep, Listed
    <2>4. /\ i \in DOMAIN submissions
          /\ submissions[i].status = "approved"
          /\ catalog'[i].package = submissions[i].snapshot
      BY <2>3 DEF ReadsAreSaved, SignedIsReviewed
    <2> QED
      BY <1>2, <2>4
  <1>7. \A r \in DOMAIN releases' :
            /\ releases'[r].kind = "integration" =>
                  /\ releases'[r].source \in DOMAIN submissions'
                  /\ submissions'[releases'[r].source].status = "approved"
                  /\ releases'[r].manifest =
                         submissions'[releases'[r].source].snapshot
            /\ releases'[r].kind = "managed" =>
                  /\ releases'[r].source \in DOMAIN saved'
                  /\ releases'[r].manifest = saved'[releases'[r].source]
            /\ releases'[r].package \in {None, releases'[r].manifest}
    <2> SUFFICES ASSUME NEW r \in DOMAIN releases'
                 PROVE  /\ releases'[r].kind = "integration" =>
                              /\ releases'[r].source \in DOMAIN submissions'
                              /\ submissions'[releases'[r].source].status
                                     = "approved"
                              /\ releases'[r].manifest =
                                     submissions'[releases'[r].source].snapshot
                        /\ releases'[r].kind = "managed" =>
                              /\ releases'[r].source \in DOMAIN saved'
                              /\ releases'[r].manifest =
                                     saved'[releases'[r].source]
                        /\ releases'[r].package \in {None, releases'[r].manifest}
      OBVIOUS
    <2>1. CASE r \in DOMAIN releases
      BY <1>1, <1>2, <2>1 DEF ReleasesStep, ReadsAreSaved, SignedIsReviewed
    <2>2. CASE r \notin DOMAIN releases
      BY <1>1, <1>2, <2>2 DEF ReleasesStep
    <2> QED
      BY <2>1, <2>2
  <1>8. \A i \in DOMAIN submissions' :
            /\ submissions'[i].asked \in DOMAIN saved'
            /\ submissions'[i].snapshot = saved'[submissions'[i].asked]
    <2> SUFFICES ASSUME NEW i \in DOMAIN submissions'
                 PROVE  /\ submissions'[i].asked \in DOMAIN saved'
                        /\ submissions'[i].snapshot
                               = saved'[submissions'[i].asked]
      OBVIOUS
    <2>1. CASE i \in DOMAIN submissions
      BY <1>1, <1>2, <2>1 DEF SignedIsReviewed
    <2>2. CASE i \notin DOMAIN submissions
      BY <1>1, <2>2 DEF ReviewStep, SubmissionsStep
    <2> QED
      BY <2>1, <2>2
  <1>9. ReadsAreSaved'
    BY <1>3, <1>4, <1>5, <1>6, <1>7 DEF ReadsAreSaved
  <1>10. SignedIsReviewed'
    BY <1>6, <1>7, <1>8 DEF SignedIsReviewed
  <1> QED
    BY <1>9, <1>10

LEMMA ReferencesStay ==
    ASSUME TypeOK, RowsRefer, StoresStep
    PROVE  RowsRefer'
  <1>1. \A r \in DOMAIN releases :
            r \in DOMAIN releases' /\ releases'[r].kind = releases[r].kind
    BY DEF StoresStep, ReleasesStep
  <1>2. \A a \in DOMAIN assignments :
            /\ a \in DOMAIN assignments'
            /\ assignments'[a].release = assignments[a].release
    BY DEF StoresStep, AssignmentsStep
  <1>3. \A a \in DOMAIN assignments' : assignments'[a].release \in DOMAIN releases'
    <2> SUFFICES ASSUME NEW a \in DOMAIN assignments'
                 PROVE  assignments'[a].release \in DOMAIN releases
      BY <1>1
    <2>1. CASE a \in DOMAIN assignments
      BY <1>2, <2>1 DEF RowsRefer
    <2>2. CASE a \notin DOMAIN assignments
      BY <2>2 DEF StoresStep, AssignmentsStep
    <2> QED
      BY <2>1, <2>2
  <1>4. \A i \in DOMAIN installations' :
            /\ installations'[i].assignment \in DOMAIN assignments'
            /\ releases'[assignments'[installations'[i].assignment].release].kind
                   \in {"ui", "resource"}
    <2> SUFFICES ASSUME NEW i \in DOMAIN installations'
                 PROVE  /\ installations'[i].assignment \in DOMAIN assignments'
                        /\ releases'[assignments'[
                               installations'[i].assignment].release].kind
                               \in {"ui", "resource"}
      OBVIOUS
    <2>1. /\ installations'[i].assignment \in DOMAIN assignments
          /\ Reviewed(assignments[installations'[i].assignment].release)
      <3>1. CASE i \in DOMAIN installations
        BY <3>1 DEF StoresStep, InstallationsStep, RowsRefer
      <3>2. CASE i \notin DOMAIN installations
        BY <3>2 DEF StoresStep, InstallationsStep
      <3> QED
        BY <3>1, <3>2
    <2>2. PICK a \in DOMAIN assignments, r \in DOMAIN releases :
              a = installations'[i].assignment /\ r = assignments[a].release
      BY <2>1 DEF RowsRefer
    <2>3. releases'[r].kind \in {"ui", "resource"}
      BY <1>1, <2>1, <2>2 DEF Reviewed
    <2> QED
      BY <1>2, <2>2, <2>3
  <1> QED
    BY <1>3, <1>4 DEF RowsRefer, Reviewed, StoresStep, ReleasesStep

(* What a request holds stays as it was, because whoever would change it   *)
(* waits for the request.                                                  *)
LEMMA HeldStays ==
    ASSUME TypeOK, RowsRefer, LocksHold, StoresStep, NEW o \in Ops,
           ops[o] # None, NEW p \in OpType, p = ops[o],
           NEW q \in AskedType \cup {None}, HoldsStore(p, q)
    PROVE  HoldsRows(p)' /\ HoldsStore(p, q)'
  <1>1. HoldsRows(p)
    BY UnderWay
  <1>2. PICK r \in DOMAIN releases : r = p.release
    BY <1>1 DEF HoldsRows
  <1>3. r \in 1 .. MaxReleases
    <2>1. releases \in Seq(ReleaseType) /\ Len(releases) <= MaxReleases
      BY DistributionAssumption DEF RowsRefer, TypeOK, DistributionTypeOK
    <2> QED
      BY <1>2, <2>1, DistributionAssumption
  <1>4. /\ r \in DOMAIN releases' /\ releases'[r].kind = releases[r].kind
        /\ p.at # "read" => releases'[r] = releases[r]
    BY <1>2 DEF StoresStep, ReleasesStep, ReleaseHeld, Busy
  <1>5. /\ p.at \in HasClient => clients'[r] = clients[r]
        /\ p.at \in HasLaunch => launches'[r] = launches[r]
    BY <1>2, <1>3 DEF StoresStep, ClientsStep, LaunchesStep, ClientHeld,
                     LaunchHeld, Busy, HasClient, HasLaunch
  <1>6. p.at # "read" => (Signed(r) => Signed(r)')
    BY <1>4 DEF Signed, Intact
  <1>7. ASSUME NEW a \in DOMAIN assignments, a = p.assignment
        PROVE  /\ a \in DOMAIN assignments'
               /\ assignments'[a].release = assignments[a].release
               /\ p.at \in HasAssignment => assignments'[a] = assignments[a]
    BY <1>7 DEF StoresStep, AssignmentsStep, AssignmentHeld, Busy, HasAssignment
  <1>8. HoldsRows(p)'
    <2>1. /\ p.release \in DOMAIN releases'
          /\ p.do \in ForStore => releases'[p.release].kind # "integration"
          /\ p.do = "request" => p.at = "release"
      BY <1>1, <1>2, <1>4 DEF HoldsRows
    <2>2. p.do = "approve" =>
              /\ p.at \in {"read", "release"}
              /\ p.assignment \in DOMAIN assignments'
              /\ assignments'[p.assignment].release = p.release
      BY <1>1, <1>7 DEF HoldsRows
    <2>3. p.do \notin ForStore /\ p.at = "release" => Signed(p.release)'
      BY <1>1, <1>2, <1>6 DEF HoldsRows
    <2>4. p.at \in HasAssignment =>
              /\ p.do \in ForStore
              /\ p.assignment \in DOMAIN assignments'
              /\ assignments'[p.assignment].release = p.release
              /\ assignments'[p.assignment].merchant = p.merchant
              /\ assignments'[p.assignment].status = "approved"
              /\ Signed(p.release)'
              /\ assignments'[p.assignment].digest = releases'[p.release].package
      BY <1>1, <1>2, <1>4, <1>6, <1>7 DEF HoldsRows, HasAssignment
    <2>5. /\ p.at \in HasClient => /\ Reviewed(p.release)'
                                   /\ clients'[p.release] = "ready"
          /\ p.at \in HasLaunch => launches'[p.release] = "approved"
      BY <1>1, <1>2, <1>4, <1>5 DEF HoldsRows, Reviewed
    <2> QED
      BY <2>1, <2>2, <2>3, <2>4, <2>5 DEF HoldsRows
  <1>9. ASSUME NEW i \in DOMAIN installations, i = q.installation,
               installations[i].merchant = p.merchant
        PROVE  /\ i \in DOMAIN installations'
               /\ installations'[i].merchant = p.merchant
               /\ p.at = "tenant" => installations'[i] = installations[i]
    BY <1>9 DEF StoresStep, InstallationsStep, TenantHeld, Busy
  <1>10. HoldsStore(p, q)'
    <2>1. p.do \in {"read", "open"} =>
              /\ q # None /\ q.installation \in DOMAIN installations'
              /\ installations'[q.installation].merchant = p.merchant
      BY <1>9 DEF HoldsStore
    <2>2. p.do = "read" => releases'[p.release].kind = "resource"
      BY <1>2, <1>4 DEF HoldsStore
    <2>3. p.at = "tenant" =>
              /\ p.do \in {"read", "open"}
              /\ installations'[q.installation].active
              /\ installations'[q.installation].assignment = p.assignment
              /\ p.do = "read" =>
                    q.client = p.release /\ q.scope \in RequiredScopes
      BY <1>9 DEF HoldsStore
    <2> QED
      BY <2>1, <2>2, <2>3 DEF HoldsStore
  <1> QED
    BY <1>8, <1>10

LEMMA LocksStay ==
    ASSUME TypeOK, RowsRefer, LocksHold, StoresStep
    PROVE  LocksHold'
  <1> SUFFICES ASSUME NEW o \in Ops, ops'[o] # None
               PROVE  (HoldsRows(ops[o]) /\ HoldsStore(ops[o], asked[o]))'
    BY DEF LocksHold
  <1>1. CASE /\ ops'[o] = ops[o]
             /\ ops[o].do \in {"read", "open"} => asked'[o] = asked[o]
    <2>1. PICK p \in OpType : p = ops[o]
      BY <1>1, UnderWay
    <2>2. PICK q \in AskedType \cup {None} : q = asked'[o]
      BY DEF StoresStep, OpsStep
    <2>3. HoldsStore(p, asked[o])
      BY <1>1, <2>1, UnderWay
    <2>4. HoldsStore(p, q)
      BY <1>1, <2>1, <2>2, <2>3 DEF HoldsStore
    <2> QED
      BY <1>1, <2>1, <2>2, <2>4, HeldStays
  <1>2. CASE /\ UNCHANGED heldTables
             /\ HoldsRows(ops'[o]) /\ HoldsStore(ops'[o], asked'[o])
    <2>1. PICK p \in OpType, q \in AskedType \cup {None} :
              p = ops'[o] /\ q = asked'[o]
      BY DEF StoresStep, OpsStep
    <2>2. HoldsRows(p)' /\ HoldsStore(p, q)'
      BY <1>2, <2>1 DEF heldTables, HoldsRows, HoldsStore, Signed, Intact, Reviewed
    <2> QED
      BY <2>1, <2>2
  <1> QED
    BY <1>1, <1>2 DEF StoresStep, OpsStep

LEMMA PrivateStays ==
    ASSUME TypeOK, PrivateIsFirst, PrivateLocksHold, PrivateStep, SavedStep
    PROVE  PrivateIsFirst' /\ PrivateLocksHold'
  <1>1. PrivateIsFirst'
    <2>1. CASE private' = private
      <3> SUFFICES ASSUME private # None
                   PROVE  /\ saved' # <<>> /\ private = saved'[1]
                          /\ ~Public(private)
        BY <2>1 DEF PrivateIsFirst, Public
      <3>1. saved # <<>> /\ saved \in Seq(Document)
        BY DEF PrivateIsFirst, TypeOK, AuthoringTypeOK
      <3>2. 1 \in DOMAIN saved
        BY <3>1
      <3> QED
        BY <3>1, <3>2 DEF PrivateIsFirst, SavedStep
    <2>2. CASE private' # private
      BY <2>2 DEF PrivateStep, PrivateIsFirst, Public
    <2> QED
      BY <2>1, <2>2
  <1>2. ASSUME NEW o \in Ops, requests'[o] # None
        PROVE  PrivateHolds(requests[o])'
    <2>1. CASE requests'[o] = requests[o]
      <3>1. PICK q \in RequestType : q = requests[o]
        BY <1>2, <2>1, PrivateTypes
      <3>2. PrivateHolds(q)
        BY <1>2, <2>1, <3>1 DEF PrivateLocksHold
      <3>3. q.at \in {"owner", "credential", "store"} =>
                enabled' = enabled /\ private # None /\ private' = private
        BY <3>1, <3>2, <1>2, <2>1 DEF PrivateStep, OwnerHeld, PrivateHolds
      <3>4. q.do = "use" =>
                /\ q.grant \in DOMAIN grants'
                /\ grants'[q.grant].merchant = q.merchant
                /\ q.at = "store" => grants'[q.grant] = grants[q.grant]
        BY <3>1, <3>2, <1>2, <2>1 DEF PrivateStep, StoreHeld, PrivateHolds
      <3>5. PrivateHolds(q)'
        BY <3>2, <3>3, <3>4 DEF PrivateHolds
      <3> QED
        BY <2>1, <3>1, <3>5
    <2>2. CASE UNCHANGED <<enabled, private, grants>> /\ PrivateHolds(requests'[o])
      BY <2>2 DEF PrivateHolds
    <2> QED
      BY <1>2, <2>1, <2>2 DEF PrivateStep
  <1> QED
    BY <1>1, <1>2 DEF PrivateLocksHold

-----------------------------------------------------------------------------
(* Every step, of whatever focus *)

PublishingStep ==
    /\ DraftsStep /\ ReviewStep /\ StoresStep
    /\ PrivateStep /\ PrivateConsentIsOwned
    /\ UNCHANGED focus

(* The tables of a part that does not move.                                *)
LEMMA AuthoringRests ==
    ASSUME TypeOK, UNCHANGED authoringVars
    PROVE  DraftsStep /\ ReviewStep
  BY SameDrafts, SameReview DEF DraftsStep, ReviewStep

LEMMA StoresRest ==
    ASSUME TypeOK, RowsRefer, UNCHANGED <<distributionVars, accessVars>>
    PROVE  StoresStep
  BY SameStores, SameAccess DEF StoresStep

LEMMA ReviewFocus ==
    ASSUME PublishingInv, UNCHANGED <<focus, accessVars, privateVars>>,
           \/ /\ DraftNext({"endpoint"}) \/ ReviewNext
              /\ UNCHANGED distributionVars
           \/ IntegrationNext
    PROVE  PublishingStep
  <1> USE DEF PublishingInv
  <1>1. PrivateStep /\ PrivateConsentIsOwned
    BY SamePrivate
  <1>2. CASE /\ DraftNext({"endpoint"}) \/ ReviewNext
             /\ UNCHANGED distributionVars
    <2>1. {"endpoint"} \in SUBSET Form
      BY DEF Form
    <2>2. DraftsStep /\ ReviewStep
      BY <1>2, <2>1, AuthoringKeeps
    <2> QED
      BY <1>1, <1>2, <2>2, StoresRest DEF PublishingStep
  <1>3. CASE IntegrationNext
    BY <1>1, <1>3, ReleasesKeep DEF PublishingStep
  <1> QED
    BY <1>2, <1>3

LEMMA RequestsFocus ==
    ASSUME PublishingInv, UNCHANGED <<focus, accessVars, privateVars>>,
           \/ /\ DraftNext({"scoped", "binding", "private"}) \/ SubscriptionNext
              /\ UNCHANGED distributionVars
           \/ FilingNext \/ ManagedNext
    PROVE  PublishingStep
  <1> USE DEF PublishingInv
  <1>1. PrivateStep /\ PrivateConsentIsOwned
    BY SamePrivate
  <1>2. CASE /\ \/ DraftNext({"scoped", "binding", "private"})
                \/ SubscriptionNext
             /\ UNCHANGED distributionVars
    <2>1. {"scoped", "binding", "private"} \in SUBSET Form
      BY DEF Form
    <2>2. DraftsStep /\ ReviewStep
      BY <1>2, <2>1, AuthoringKeeps
    <2> QED
      BY <1>1, <1>2, <2>2, StoresRest DEF PublishingStep
  <1>3. CASE FilingNext \/ ManagedNext
    BY <1>1, <1>3, ReleasesKeep DEF PublishingStep
  <1> QED
    BY <1>2, <1>3

LEMMA StoresFocus ==
    ASSUME PublishingInv, UNCHANGED <<focus, privateVars>>,
           \/ /\ \/ SubmitNext \/ DecideNext \/ ManagedNext
                 \/ AssignmentNext \/ InstallNext
              /\ UNCHANGED accessVars
           \/ AnyRequestEnds
    PROVE  PublishingStep
  <1> USE DEF PublishingInv
  <1>1. PrivateStep /\ PrivateConsentIsOwned
    BY SamePrivate
  <1>2. CASE /\ SubmitNext \/ DecideNext \/ ManagedNext
             /\ UNCHANGED accessVars
    BY <1>1, <1>2, ReleasesKeep DEF PublishingStep
  <1>3. CASE (AssignmentNext \/ InstallNext) /\ UNCHANGED accessVars
    <2>1. StoresStep /\ UNCHANGED authoringVars
      BY <1>3, AssignmentsKeep
    <2> QED
      BY <1>1, <2>1, AuthoringRests DEF PublishingStep
  <1>4. CASE AnyRequestEnds
    <2>1. StoresStep /\ UNCHANGED authoringVars
      BY <1>4, EndRequestKeeps DEF AnyRequestEnds
    <2> QED
      BY <1>1, <2>1, AuthoringRests DEF PublishingStep
  <1> QED
    BY <1>2, <1>3, <1>4

LEMMA InterfacesFocus ==
    ASSUME PublishingInv, focus = "interfaces", UNCHANGED <<focus, privateVars>>,
           \/ /\ \/ DecideNext \/ AssignmentNext
                 \/ \E o \in Ops : \/ HoldUI(o, 1, Someone)
                                   \/ HoldResource(o, 1, Someone)
              /\ UNCHANGED accessVars
           \/ AccessNext
           \/ AnyRequestEnds
    PROVE  PublishingStep
  <1> USE DEF PublishingInv
  <1>1. PrivateStep /\ PrivateConsentIsOwned
    BY SamePrivate
  <1>2. CASE DecideNext /\ UNCHANGED accessVars
    BY <1>1, <1>2, ReleasesKeep DEF PublishingStep
  <1>3. CASE AssignmentNext /\ UNCHANGED accessVars
    <2>1. StoresStep /\ UNCHANGED authoringVars
      BY <1>3, AssignmentsKeep
    <2> QED
      BY <1>1, <2>1, AuthoringRests DEF PublishingStep
  <1>4. ASSUME NEW o \in Ops, UNCHANGED accessVars,
               HoldUI(o, 1, Someone) \/ HoldResource(o, 1, Someone)
        PROVE  PublishingStep
    <2>1. 1 \in DOMAIN releases
      BY DEF FocusExists
    <2>2. StoresStep
      BY <1>4, <2>1, HoldForInstallMoves, PublishingAssumption
    <2>3. UNCHANGED authoringVars
      BY <1>4 DEF HoldUI, HoldResource, HoldForInstall, otherThanOps
    <2> QED
      BY <1>1, <2>2, <2>3, AuthoringRests DEF PublishingStep
  <1>5. CASE AccessNext
    <2>1. StoresStep /\ UNCHANGED authoringVars
      BY <1>5, AccessKeeps
    <2> QED
      BY <1>1, <2>1, AuthoringRests DEF PublishingStep
  <1>6. CASE AnyRequestEnds
    <2>1. StoresStep /\ UNCHANGED authoringVars
      BY <1>6, EndRequestKeeps DEF AnyRequestEnds
    <2> QED
      BY <1>1, <2>1, AuthoringRests DEF PublishingStep
  <1> QED
    BY <1>2, <1>3, <1>4, <1>5, <1>6

LEMMA EveryStep ==
    ASSUME PublishingInv, [Next]_vars
    PROVE  PublishingStep
  <1>1. CASE UNCHANGED vars
    <2>1. /\ UNCHANGED <<authoringVars, distributionVars, accessVars>>
          /\ UNCHANGED <<focus, privateVars>>
      BY <1>1 DEF vars
    <2> QED
      BY <2>1, AuthoringRests, StoresRest, SamePrivate
      DEF PublishingInv, PublishingStep
  <1>2. CASE /\ UNCHANGED focus /\ PrivateNext({"endpoint", "private"})
    <2>1. {"endpoint", "private"} \in SUBSET Form
      BY DEF Form
    <2>2. /\ PrivateStep /\ PrivateConsentIsOwned
          /\ DraftsStep /\ ReviewStep
          /\ UNCHANGED <<distributionVars, accessVars>>
      BY <1>2, <2>1, PrivateNextKeeps DEF PublishingInv
    <2> QED
      BY <1>2, <2>2, StoresRest DEF PublishingInv, PublishingStep
  <1> QED
    BY <1>1, <1>2, ReviewFocus, RequestsFocus, StoresFocus, InterfacesFocus
    DEF Next

LEMMA StepTypes ==
    ASSUME PublishingStep
    PROVE  TypeOK'
  <1>1. AuthoringTypeOK'
    BY DEF PublishingStep, DraftsStep, ReviewStep, SavedStep, SubscriptionsStep,
           SubmitsStep, SubmissionsStep, CandidatesStep, CatalogStep,
           AuthoringTypeOK
  <1>2. DistributionTypeOK'
    <2>1. installs' \subseteq Nat
      BY DEF PublishingStep, StoresStep, InstallsStep
    <2> QED
      BY <2>1 DEF PublishingStep, StoresStep, ReleasesStep, ManagedReadsStep,
                  AssignmentsStep, OpsStep, DistributionTypeOK
  <1>3. AccessTypeOK'
    BY DEF PublishingStep, StoresStep, ClientsStep, LaunchesStep,
           InstallationsStep, OpsStep, AccessTypeOK
  <1> QED
    BY <1>1, <1>2, <1>3 DEF TypeOK, PublishingStep, PrivateStep

LEMMA InvariantStays ==
    ASSUME PublishingInv, [Next]_vars
    PROVE  PublishingInv'
  <1>1. PublishingStep
    BY EveryStep
  <1>2. TypeOK'
    BY <1>1, StepTypes
  <1>3. FocusExists'
    BY <1>1 DEF PublishingInv, FocusExists, PublishingStep, StoresStep,
                ReleasesStep
  <1>4. ReadsAreSaved' /\ SignedIsReviewed'
    BY <1>1, CopiesStay DEF PublishingInv, PublishingStep, StoresStep
  <1>5. RowsRefer' /\ LocksHold'
    BY <1>1, ReferencesStay, LocksStay DEF PublishingInv, PublishingStep
  <1>6. PrivateIsFirst' /\ PrivateLocksHold'
    BY <1>1, PrivateStays DEF PublishingInv, PublishingStep, DraftsStep
  <1> QED
    BY <1>2, <1>3, <1>4, <1>5, <1>6 DEF PublishingInv

-----------------------------------------------------------------------------
(* Where a run begins *)

(* Every focus begins with nothing under way and nothing reviewed, listed  *)
(* or private.                                                             *)
LEMMA BeginningIsEmpty ==
    ASSUME Init
    PROVE  /\ subscriptions = <<>> /\ submits = {} /\ submissions = <<>>
           /\ candidates = {} /\ Listed = {}
           /\ catalog = [i \in 1 .. MaxDraftRevision |-> None]
           /\ managedReads = {} /\ installs = {} /\ installations = <<>>
           /\ ops = [o \in Ops |-> None] /\ asked = [o \in Ops |-> None]
           /\ private = None /\ PrivateTypeOK
           /\ requests = [o \in Ops |-> None]
  <1>1. /\ subscriptions = <<>> /\ submits = {} /\ submissions = <<>>
        /\ candidates = {}
        /\ catalog = [i \in 1 .. MaxDraftRevision |-> None]
    BY DEF Init, AuthoringInit
  <1>2. /\ managedReads = {} /\ installs = {} /\ installations = <<>>
        /\ ops = [o \in Ops |-> None] /\ asked = [o \in Ops |-> None]
    BY DEF Init, DistributionInit, AccessInit
  <1>3. /\ private = None /\ requests = [o \in Ops |-> None]
        /\ PrivateTypeOK
    BY PrivateAssumption DEF Init, PrivateInit, PrivateTypeOK
  <1>4. Listed = {}
    BY <1>1 DEF Listed
  <1> QED
    BY <1>1, <1>2, <1>3, <1>4

(* It may begin with a managed release of the first draft, or with an      *)
(* interface that is signed and assigned to a store.                       *)
LEMMA BeginningOfTables ==
    ASSUME Init
    PROVE  \/ focus # "interfaces" /\ saved = <<>> /\ releases = <<>>
              /\ assignments = <<>>
           \/ focus # "interfaces" /\ saved = <<Managed.manifest>>
              /\ releases = <<Managed>> /\ assignments = <<>>
           \/ /\ saved = <<>> /\ assignments = <<Assigned>>
              /\ \E kind \in {"ui", "resource"} : releases = <<Interface(kind)>>
  BY DEF Init, AuthoringInit, DistributionInit

LEMMA FirstRows ==
    /\ Managed \in ReleaseType /\ Managed.manifest \in Document
    /\ Managed.kind = "managed" /\ Managed.source = 1 /\ Managed.package = None
    /\ \A kind \in {"ui", "resource"} :
          LET row == Interface(kind)
          IN  row \in ReleaseType /\ row.kind = kind
              /\ row.package = row.manifest
    /\ Assigned \in AssignmentType /\ Assigned.release = 1
  <1>1. /\ [version |-> First, form |-> "endpoint"] \in Document
        /\ [version |-> First, form |-> "binding"] \in Document
    BY PublishingAssumption DEF Document, Form
  <1>2. /\ Managed \in ReleaseType /\ Managed.manifest \in Document
        /\ Managed.kind = "managed" /\ Managed.source = 1
        /\ Managed.package = None
    BY <1>1 DEF Managed, Submitted, ReleaseType, Kind
  <1>3. ASSUME NEW kind \in {"ui", "resource"}
        PROVE  /\ Interface(kind) \in ReleaseType
               /\ Interface(kind).kind = kind
               /\ Interface(kind).package = Interface(kind).manifest
    BY <1>1 DEF Interface, Submitted, ReleaseType, Kind
  <1>4. Assigned \in AssignmentType /\ Assigned.release = 1
    BY <1>1, PublishingAssumption DEF Assigned, AssignmentType
  <1> QED
    BY <1>2, <1>3, <1>4

(* So the tables agree with each other from the beginning.                 *)
TablesAgree ==
    /\ saved \in Seq(Document) /\ releases \in Seq(ReleaseType)
    /\ assignments \in Seq(AssignmentType)
    /\ Len(releases) \in 0 .. MaxReleases /\ FocusExists
    /\ \A r \in DOMAIN releases :
          /\ releases[r].kind # "integration"
          /\ releases[r].kind = "managed" =>
                /\ releases[r].source \in DOMAIN saved
                /\ releases[r].manifest = saved[releases[r].source]
          /\ releases[r].package \in {None, releases[r].manifest}
    /\ \A a \in DOMAIN assignments : assignments[a].release \in DOMAIN releases

LEMMA TablesBegin ==
    ASSUME Init
    PROVE  TablesAgree
  <1>1. CASE /\ focus # "interfaces" /\ saved = <<>> /\ releases = <<>>
             /\ assignments = <<>>
    BY <1>1, DistributionAssumption DEF TablesAgree, FocusExists
  <1>2. CASE /\ focus # "interfaces" /\ saved = <<Managed.manifest>>
             /\ releases = <<Managed>> /\ assignments = <<>>
    <2>1. PICK row \in ReleaseType : row = Managed
      BY FirstRows
    <2>2. /\ row.manifest \in Document /\ row.kind = "managed"
          /\ row.source = 1 /\ row.package = None
      BY <2>1, FirstRows
    <2>3. saved = <<row.manifest>> /\ releases = <<row>>
      BY <1>2, <2>1
    <2> QED
      BY <1>2, <2>2, <2>3, DistributionAssumption, PublishingAssumption
      DEF TablesAgree, FocusExists
  <1>3. ASSUME NEW kind \in {"ui", "resource"}, saved = <<>>,
               assignments = <<Assigned>>, releases = <<Interface(kind)>>
        PROVE  TablesAgree
    <2>1. PICK row \in ReleaseType, given \in AssignmentType :
              row = Interface(kind) /\ given = Assigned
      BY FirstRows
    <2>2. /\ row.kind = kind /\ row.package = row.manifest
          /\ given.release = 1
      BY <2>1, FirstRows
    <2>3. assignments = <<given>> /\ releases = <<row>>
      BY <1>3, <2>1
    <2> QED
      BY <1>3, <2>2, <2>3, DistributionAssumption, PublishingAssumption
      DEF TablesAgree, FocusExists
  <1> QED
    BY <1>1, <1>2, <1>3, BeginningOfTables

LEMMA InvariantBegins ==
    ASSUME Init
    PROVE  PublishingInv
  <1>1. TablesAgree
    BY TablesBegin
  <1>2. TypeOK
    <2>1. AuthoringTypeOK
      BY <1>1, BeginningIsEmpty DEF TablesAgree, AuthoringTypeOK
    <2>2. DistributionTypeOK
      BY <1>1, BeginningIsEmpty DEF TablesAgree, DistributionTypeOK
    <2>3. AccessTypeOK
      <3>1. PICK client \in ClientStatus, launch \in LaunchStatus :
                AccessInit(client, launch)
        BY DEF Init, ClientStatus, LaunchStatus
      <3>2. /\ clients \in [1 .. MaxReleases -> ClientStatus]
            /\ launches \in [1 .. MaxReleases -> LaunchStatus]
        BY <3>1 DEF AccessInit
      <3> QED
        BY <3>2, BeginningIsEmpty DEF AccessTypeOK
    <2> QED
      BY <2>1, <2>2, <2>3, BeginningIsEmpty DEF TypeOK
  <1>3. ReadsAreSaved /\ SignedIsReviewed
    BY <1>1, BeginningIsEmpty DEF TablesAgree, ReadsAreSaved, SignedIsReviewed
  <1>4. RowsRefer
    BY <1>1, BeginningIsEmpty DEF TablesAgree, RowsRefer
  <1>5. LocksHold /\ PrivateIsFirst /\ PrivateLocksHold
    BY BeginningIsEmpty DEF LocksHold, PrivateIsFirst, PrivateLocksHold
  <1> QED
    BY <1>1, <1>2, <1>3, <1>4, <1>5 DEF PublishingInv, TablesAgree

-----------------------------------------------------------------------------
(* The theorems *)

LEMMA PublishingInvariant == Spec => []PublishingInv
  <1>1. Init => PublishingInv
    BY InvariantBegins
  <1>2. PublishingInv /\ [Next]_vars => PublishingInv'
    BY InvariantStays
  <1> QED
    BY <1>1, <1>2, PTL DEF Spec

(* The tables of drafts, reviews, releases, stores and private apps keep   *)
(* their shape.                                                            *)
THEOREM TypeCorrect == Spec => []TypeOK
  <1>1. PublishingInv => TypeOK
    BY DEF PublishingInv
  <1> QED
    BY <1>1, PublishingInvariant, PTL

(* What Sign and Prepare sign, and Submit files, is what was reviewed: the *)
(* document saved as the revision the developer named, however long before *)
(* they commit it was read and however the draft was edited since.         *)
THEOREM WhatIsSignedWasReviewed == Spec => []SignedIsReviewed
  <1>1. PublishingInv => SignedIsReviewed
    BY DEF PublishingInv
  <1> QED
    BY <1>1, PublishingInvariant, PTL

LEMMA ReviewedReads ==
    ASSUME PublishingInv
    PROVE  ReviewedReadsAreAuthorised
  <1> SUFFICES ASSUME NEW o \in Busy, ops[o].at = "tenant"
               PROVE  LET i == installations[asked[o].installation]
                          r == assignments[i.assignment].release
                      IN  /\ i.active /\ i.merchant = ops[o].merchant
                          /\ Installable(i.assignment)
                          /\ ops[o].do = "read" =>
                                 /\ releases[r].kind = "resource"
                                 /\ asked[o].client = r
                                 /\ asked[o].scope \in RequiredScopes
    BY DEF ReviewedReadsAreAuthorised
  <1>1. PICK p \in OpType, q \in AskedType \cup {None} :
            /\ p = ops[o] /\ q = asked[o]
            /\ HoldsRows(p) /\ HoldsStore(p, q)
    BY UnderWay DEF Busy, PublishingInv
  <1>2. PICK i \in DOMAIN installations : i = q.installation
    BY <1>1 DEF HoldsStore
  <1>3. /\ p.do \in {"read", "open"}
        /\ installations[i].active /\ installations[i].merchant = p.merchant
        /\ installations[i].assignment = p.assignment
        /\ p.do = "read" =>
              /\ releases[p.release].kind = "resource"
              /\ q.client = p.release /\ q.scope \in RequiredScopes
    BY <1>1, <1>2 DEF HoldsStore
  <1>4. /\ assignments[p.assignment].release = p.release
        /\ assignments[p.assignment].status = "approved"
        /\ Signed(p.release) /\ Ready(p.release)
        /\ releases[p.release].package = assignments[p.assignment].digest
        /\ releases[p.release].kind # "integration"
    BY <1>1, <1>3 DEF HoldsRows, HasAssignment, HasClient, HasLaunch, ForStore,
                      Ready
  <1>5. Installable(p.assignment)
    BY <1>4 DEF Installable
  <1> QED
    BY <1>1, <1>2, <1>3, <1>4, <1>5

LEMMA PrivateReads ==
    ASSUME PublishingInv
    PROVE  PrivateReadsAreAuthorised
  <1> SUFFICES ASSUME NEW o \in Ops, Stands(o, "store")
               PROVE  LET g == grants[requests[o].grant]
                      IN  /\ g.active /\ g.merchant = requests[o].merchant
                          /\ g.document = private /\ g.document = saved[1]
                          /\ ~Public(g.document)
                          /\ enabled /\ requests[o].scope = "read_products"
    BY DEF PrivateReadsAreAuthorised
  <1>1. PICK q \in RequestType :
            q = requests[o] /\ q.at = "store" /\ PrivateHolds(q)
    BY PrivateTypes DEF Stands, PublishingInv, PrivateLocksHold
  <1>2. private # None /\ private = saved[1] /\ ~Public(private)
    BY <1>1 DEF PublishingInv, PrivateIsFirst, PrivateHolds
  <1> QED
    BY <1>1, <1>2 DEF PrivateHolds

(* Everything that authorises a read of a store's resources, or a launch,  *)
(* lasts until the answer: the locks that WithResourceAccess and the steps *)
(* before it take keep whoever would revoke it waiting.                    *)
THEOREM ReadsStayAuthorised == Spec => []ReadsAreAuthorised
  <1>1. PublishingInv => ReadsAreAuthorised
    BY ReviewedReads, PrivateReads DEF ReadsAreAuthorised
  <1> QED
    BY <1>1, PublishingInvariant, PTL

LEMMA StepIsCurrent ==
    ASSUME PublishingInv, PublishingStep
    PROVE  CommitIsCurrent /\ InstallsInstallable /\ PrivateConsentIsOwned
  <1>1. /\ \A r \in DOMAIN releases' \ DOMAIN releases :
              releases'[r].kind = "managed" => releases'[r].source = Revision
        /\ \A i \in DOMAIN subscriptions' \ DOMAIN subscriptions :
              subscriptions'[i].revision = Revision
    BY DEF PublishingStep, StoresStep, ReleasesStep, DraftsStep,
           SubscriptionsStep
  <1>2. ASSUME NEW a \in DOMAIN assignments'
        PROVE  LET was == IF a \in DOMAIN assignments
                          THEN assignments[a].status ELSE None
                   now == assignments'[a].status
               IN  was # now /\ now \in {"requested", "approved"}
                       => Signed(assignments'[a].release)
    <2>1. CASE a \in DOMAIN assignments
      <3>1. /\ assignments'[a].release = assignments[a].release
            /\ \/ assignments'[a].status \in {assignments[a].status,
                                               "rejected", "revoked"}
               \/ Signed(assignments[a].release)
        BY <2>1 DEF PublishingStep, StoresStep, AssignmentsStep
      <3> QED
        BY <2>1, <3>1
    <2>2. CASE a \notin DOMAIN assignments
      BY <1>2, <2>2 DEF PublishingStep, StoresStep, AssignmentsStep
    <2> QED
      BY <2>1, <2>2
  <1>3. \A a \in installs' \ installs :
            /\ assignments[a].status = "approved"
            /\ Signed(assignments[a].release) /\ Installable(a)
    BY DEF PublishingStep, StoresStep, InstallsStep
  <1> QED
    BY <1>1, <1>2, <1>3 DEF CommitIsCurrent, InstallsInstallable, PublishingStep

(* What a commit relies on was read earlier and in another session, and is *)
(* still so when it commits: the draft of a managed release and of a       *)
(* subscription, the signature under an assignment, the assignment, client *)
(* and launch under an installation, the owner of a private app.           *)
THEOREM CommitsRelyOnWhatIs == Spec => CommitsAreCurrent
  <1>1. PublishingInv /\ [Next]_vars =>
            [CommitIsCurrent /\ InstallsInstallable /\ PrivateConsentIsOwned]_vars
    BY EveryStep, StepIsCurrent
  <1> QED
    BY <1>1, PublishingInvariant, PTL DEF Spec, CommitsAreCurrent

(* A decision or a retry that was under way brings back no decided         *)
(* submission, no rejected or suspended release, no rejected or revoked    *)
(* assignment and no revoked subscription.                                 *)
THEOREM WithdrawnNeverReturns == Spec => WithdrawnStaysWithdrawn
  <1>1. PublishingStep => WithdrawnStays
    BY DEF PublishingStep, DraftsStep, ReviewStep, StoresStep, SubmissionsStep,
           ReleasesStep, AssignmentsStep, SubscriptionsStep, WithdrawnStays
  <1>2. PublishingInv /\ [Next]_vars => [WithdrawnStays]_vars
    BY <1>1, EveryStep
  <1> QED
    BY <1>2, PublishingInvariant, PTL DEF Spec, WithdrawnStaysWithdrawn
=============================================================================
