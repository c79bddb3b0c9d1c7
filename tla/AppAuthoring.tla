---------------------------- MODULE AppAuthoring ----------------------------
(***************************************************************************)
(* How one app of one developer organisation is written, reviewed and      *)
(* listed: drafts, webhook subscription requests, submissions with their   *)
(* reviews, and the catalog of signed listings.                            *)
(*                                                                         *)
(* A submission reads the draft before its transaction, and a signature    *)
(* reads the approved submission before its own: both readings are steps   *)
(* of their own here, and anything may happen before what follows them.    *)
(* A repeated request key answers what is stored: a stutter.  Requests of  *)
(* another organisation find nothing.                                      *)
(***************************************************************************)
EXTENDS Naturals, Sequences, FiniteSets, Null

CONSTANTS
    Versions,         \* version names a document may carry
    MaxDraftRevision, \* bound: saved revisions of the draft
    MaxPending,       \* submissions and signatures read and not yet committed
    MaxPendingTopics, \* subscription requests pending at a time (50 in the code)
    MaxSubscriptions, \* bound: subscription requests ever made
    MaxListed         \* bound: revisions of one catalog listing

ASSUME AuthoringAssumption ==
    /\ MaxDraftRevision \in Nat /\ MaxPending \in Nat
    /\ MaxPendingTopics \in Nat /\ MaxSubscriptions \in Nat
    /\ MaxListed \in Nat
    /\ None \notin Nat

VARIABLES
    saved,          \* the document of each revision, as draft_requests answers
    subscriptions,  \* subscription_requests for one topic, in their order
    submits,        \* submissions whose draft was read and is not yet filed
    submissions,    \* platform_review.submissions, in the order filed
    candidates,     \* approved submissions read to be signed
    catalog         \* catalog_releases, by submission

authoringVars ==
    <<saved, subscriptions, submits, submissions, candidates, catalog>>

\* What a document says, as far as anything depends on it.  "endpoint" and
\* "scoped" name an endpoint of a public app, the second also access scopes;
\* "binding" names neither; "private" reads the products of its own store.
Form == {"endpoint", "scoped", "binding", "private"}
Document == [version : Versions, form : Form]

\* ValidatePublicDistribution.
Public(d) == d.form # "private"
\* Document.Validate(true).
Complete(d) == d.form \in {"endpoint", "scoped"}
\* AccessScopes contains the scope the topic needs.
DeclaresScope(d) == d.form \in {"scoped", "private"}

Revision == Len(saved)
Draft == saved[Revision]

SubmissionType ==
    [asked : Nat,      \* the revision the developer named: requests.request_hash
     revision : Nat,   \* draft_revision
     snapshot : Document,
     status : {"submitted", "changes_requested", "approved", "rejected"}]
CandidateType ==
    [for : {"catalog", "integration"}, submission : Nat, document : Document]
ListingType ==
    [package : Document, status : {"signed", "published", "suspended"},
     revision : Nat]

\* None is no document and no listing.
ASSUME AuthoringNoneAssumption == None \notin Document /\ None \notin ListingType

AuthoringTypeOK ==
    /\ saved \in Seq(Document)
    /\ subscriptions \in
           Seq([revision : Nat, version : Versions,
                status : {"pending", "revoked"}])
    /\ submits \subseteq [asked : Nat, revision : Nat, document : Document]
    /\ submissions \in Seq(SubmissionType)
    /\ candidates \subseteq CandidateType
    /\ catalog \in [1 .. MaxDraftRevision -> ListingType \cup {None}]

AuthoringInit(drafts) ==
    /\ saved = drafts
    /\ subscriptions = <<>>
    /\ submits = {}
    /\ submissions = <<>>
    /\ candidates = {}
    /\ catalog = [i \in 1 .. MaxDraftRevision |-> None]

----------------------------------------------------------------------------
(* Drafts *)

\* SaveDraft: the first save creates the app, a later one names the revision
\* it changes.
SaveDraft(expected, d) ==
    /\ Revision < MaxDraftRevision
    /\ expected = Revision
    /\ saved' = Append(saved, d)
    /\ UNCHANGED <<subscriptions, submits, submissions, candidates, catalog>>

\* Save, which keeps the capability of the app.
Save(expected, d) ==
    /\ Revision > 0 => Public(d) = Public(Draft)
    /\ SaveDraft(expected, d)

\* Create, which locks the draft row.
RequestSubscription(revision, version) ==
    LET pending == {i \in DOMAIN subscriptions :
                        subscriptions[i].status = "pending"}
    IN  /\ Revision > 0
        /\ revision = Revision /\ version = Draft.version
        /\ DeclaresScope(Draft)
        /\ Cardinality(pending) < MaxPendingTopics
        /\ \A i \in pending : subscriptions[i].version # version
        /\ Len(subscriptions) < MaxSubscriptions
        /\ subscriptions' =
               Append(subscriptions, [revision |-> revision,
                                      version |-> version,
                                      status |-> "pending"])
        /\ UNCHANGED <<saved, submits, submissions, candidates, catalog>>

\* Revoke.
RevokeSubscription(i) ==
    /\ subscriptions[i].status = "pending"
    /\ subscriptions' = [subscriptions EXCEPT ![i].status = "revoked"]
    /\ UNCHANGED <<saved, submits, submissions, candidates, catalog>>

----------------------------------------------------------------------------
(* Review *)

\* Submit of the service: the draft is read outside any transaction.
ReadDraft(asked) ==
    /\ Revision > 0 /\ Public(Draft)
    /\ Cardinality(submits) < MaxPending
    /\ submits' = submits \cup
           {[asked |-> asked, revision |-> Revision, document |-> Draft]}
    /\ UNCHANGED <<saved, subscriptions, submissions, candidates, catalog>>

\* Whether an earlier submission stands in the way of s.
Blocks(row, s) ==
    \/ row.status = "submitted"
    \/ row.revision = s.revision
    \/ row.snapshot.version = s.document.version
       /\ row.status \in {"approved", "rejected"}

\* Mutant: the revision the developer named is not compared.
FileUnnamed(s) ==
    /\ s \in submits
    /\ Complete(s.document)
    /\ \A i \in DOMAIN submissions : ~Blocks(submissions[i], s)
    /\ submissions' =
           Append(submissions, [asked |-> s.asked, revision |-> s.revision,
                                snapshot |-> s.document,
                                status |-> "submitted"])
    /\ submits' = submits \ {s}
    /\ UNCHANGED <<saved, subscriptions, candidates, catalog>>

\* Submit of the repository.
FileSubmission(s) ==
    /\ s \in submits
    /\ s.asked = s.revision
    /\ Complete(s.document)
    /\ \A i \in DOMAIN submissions : ~Blocks(submissions[i], s)
    /\ submissions' =
           Append(submissions, [asked |-> s.asked, revision |-> s.revision,
                                snapshot |-> s.document,
                                status |-> "submitted"])
    /\ submits' = submits \ {s}
    /\ UNCHANGED <<saved, subscriptions, candidates, catalog>>

\* The submission is refused, or its request is lost.
DropSubmission(s) ==
    /\ s \in submits
    /\ submits' = submits \ {s}
    /\ UNCHANGED <<saved, subscriptions, submissions, candidates, catalog>>

\* Decide of the repository.  The submitter has a developer account and the
\* reviewer an administration account, so that they are never the same.
RecordDecision(i, status) ==
    /\ submissions[i].status = "submitted"
    /\ submissions' = [submissions EXCEPT ![i].status = status]
    /\ UNCHANGED <<saved, subscriptions, submits, candidates, catalog>>

\* Decide of the service.
Decide(i, status) ==
    /\ status \in {"approved", "changes_requested", "rejected"}
    /\ status = "approved" => Public(submissions[i].snapshot)
    /\ RecordDecision(i, status)

\* CatalogCandidate: what Sign and Prepare go on to sign.
ReadCandidate(i, for) ==
    /\ submissions[i].status = "approved"
    /\ Cardinality(candidates) < MaxPending
    /\ candidates' = candidates \cup
           {[for |-> for, submission |-> i,
             document |-> submissions[i].snapshot]}
    /\ UNCHANGED <<saved, subscriptions, submits, submissions, catalog>>

\* Sign of the catalogue, and Prepare of an integration, before they write.
Sign(i) == ReadCandidate(i, "catalog")
Prepare(i) == ReadCandidate(i, "integration")

\* The signature is refused or its request is lost.
DropCandidate(c) ==
    /\ c \in candidates
    /\ candidates' = candidates \ {c}
    /\ UNCHANGED <<saved, subscriptions, submits, submissions, catalog>>

----------------------------------------------------------------------------
(* Catalog *)

Listed == {i \in DOMAIN catalog : catalog[i] # None}

\* CatalogSign: one listing per submission and per version.
SignListing(c) ==
    /\ c \in candidates /\ c.for = "catalog"
    /\ catalog[c.submission] = None
    /\ \A i \in Listed : catalog[i].package.version # c.document.version
    /\ catalog' = [catalog EXCEPT ![c.submission] =
                       [package |-> c.document, status |-> "signed",
                        revision |-> 1]]
    /\ candidates' = candidates \ {c}
    /\ UNCHANGED <<saved, subscriptions, submits, submissions>>

\* CatalogTransition: the administrator names the revision that was read.
CatalogTransition(i, status, revision) ==
    /\ i \in Listed
    /\ catalog[i].revision = revision /\ revision < MaxListed
    /\ catalog[i].status # status
    /\ status = "suspended" => catalog[i].status = "published"
    /\ status = "published" =>
           \A j \in Listed : catalog[j].status # "published"
    /\ catalog' = [catalog EXCEPT ![i].status = status,
                              ![i].revision = revision + 1]
    /\ UNCHANGED <<saved, subscriptions, submits, submissions, candidates>>

\* Transition: a suspension asks nothing of the package.
TransitionListing(i, status, revision) ==
    /\ status \in {"published", "suspended"}
    /\ status = "published" => Public(catalog[i].package)
    /\ CatalogTransition(i, status, revision)

DraftNext(forms) ==
    \E e \in 0 .. MaxDraftRevision, v \in Versions, f \in forms :
        Save(e, [version |-> v, form |-> f])

SubscriptionNext ==
    \/ \E r \in 1 .. MaxDraftRevision, v \in Versions :
           RequestSubscription(r, v)
    \/ \E i \in DOMAIN subscriptions : RevokeSubscription(i)

SubmissionNext ==
    \/ \E r \in 1 .. MaxDraftRevision : ReadDraft(r)
    \/ \E s \in submits : FileSubmission(s) \/ DropSubmission(s)

DecisionNext ==
    \E i \in DOMAIN submissions,
       status \in {"approved", "changes_requested", "rejected"} :
        Decide(i, status)

CatalogNext ==
    \/ \E i \in DOMAIN submissions : Sign(i) \/ Prepare(i)
    \/ \E c \in candidates : SignListing(c) \/ DropCandidate(c)
    \/ \E i \in Listed, status \in {"published", "suspended"},
          r \in 1 .. MaxListed : TransitionListing(i, status, r)

ReviewNext == SubmissionNext \/ DecisionNext \/ CatalogNext
=============================================================================
