---------------------------- MODULE MCPublishing ----------------------------
(***************************************************************************)
(* Authoring, distribution and resource access on a small instance.  A run *)
(* is about one focus: the review of public documents, the requests made   *)
(* of a draft (managed releases and subscriptions), the distribution of    *)
(* releases to stores, what a store does with an app that has a reviewed   *)
(* interface, or a private app from its creation on.  What one focus       *)
(* leaves out shares no state with it, except the release that two of them *)
(* begin with, whose draft no longer matters once it is filed, and the     *)
(* credential of an app, which only the last one reads.                    *)
(***************************************************************************)
EXTENDS PrivateProducts, TLC

CONSTANTS
    First,    \* the version of the release that distribution begins with
    Someone   \* the store it is assigned to

\* Distribution begins with a release, so that there is room for one.
ASSUME PublishingAssumption ==
    First \in Versions /\ Someone \in Merchants /\ MaxReleases > 0

VARIABLE focus

vars == <<focus, authoringVars, distributionVars, accessVars, privateVars>>

Symmetry == Permutations(Versions \ {First})
                \cup Permutations(Merchants \ {Someone}) \cup Permutations(Ops)

Managed == Submitted("managed", 0, 1, [version |-> First, form |-> "binding"])
Interface(kind) ==
    LET document == [version |-> First, form |-> "endpoint"]
    IN  [Submitted(kind, 1, 0, document) EXCEPT !.status = "signed",
                                                !.package = document]
Assigned ==
    [release |-> 1, digest |-> [version |-> First, form |-> "endpoint"],
     merchant |-> Someone, status |-> "approved"]

Init ==
    /\ PrivateInit
    /\ \/ /\ focus \in {"review", "requests", "private"}
          /\ AuthoringInit(<<>>) /\ DistributionInit(<<>>, <<>>)
          /\ AccessInit("none", "none")
       \/ /\ focus = "stores"
          /\ AuthoringInit(<<Managed.manifest>>)
          /\ DistributionInit(<<Managed>>, <<>>)
          /\ AccessInit("none", "none")
       \/ /\ focus = "interfaces"
          /\ AuthoringInit(<<>>)
          /\ \E kind \in {"ui", "resource"} :
                 DistributionInit(<<Interface(kind)>>, <<Assigned>>)
          /\ AccessInit("ready", "approved")

AnyRequestEnds == \E o \in Ops : EndRequest(o)

Next ==
    /\ UNCHANGED focus
    /\ \/ /\ focus = "private"
          /\ PrivateNext({"endpoint", "private"})
       \/ /\ focus = "review"
          /\ \/ /\ DraftNext({"endpoint"}) \/ ReviewNext
                /\ UNCHANGED distributionVars
             \/ IntegrationNext
          /\ UNCHANGED <<accessVars, privateVars>>
       \/ /\ focus = "requests"
          /\ \/ /\ DraftNext({"scoped", "binding", "private"})
                   \/ SubscriptionNext
                /\ UNCHANGED distributionVars
             \/ FilingNext \/ ManagedNext
          /\ UNCHANGED <<accessVars, privateVars>>
       \/ /\ focus = "stores"
          /\ \/ /\ \/ SubmitNext \/ DecideNext \/ ManagedNext
                   \/ AssignmentNext \/ InstallNext
                /\ UNCHANGED accessVars
             \/ AnyRequestEnds
          /\ UNCHANGED privateVars
       \/ /\ focus = "interfaces"
          /\ \/ /\ \/ DecideNext \/ AssignmentNext
                   \/ \E o \in Ops : \/ HoldUI(o, 1, Someone)
                                     \/ HoldResource(o, 1, Someone)
                /\ UNCHANGED accessVars
             \/ AccessNext
             \/ AnyRequestEnds
          /\ UNCHANGED privateVars

Spec == Init /\ [][Next]_vars

\* The tables keep their shape.
TypeOK ==
    /\ AuthoringTypeOK /\ DistributionTypeOK /\ AccessTypeOK
    /\ PrivateTypeOK

\* Every commit is checked against what it was read from.
CommitsAreCurrent ==
    [][CommitIsCurrent /\ InstallsInstallable /\ PrivateConsentIsOwned]_vars

\* Everything that authorises a read of a store's resources, or a launch, by a
\* reviewed or a private app lasts until the answer.
ReadsAreAuthorised == ReviewedReadsAreAuthorised /\ PrivateReadsAreAuthorised

\* Nothing withdrawn comes back.
WithdrawnStaysWithdrawn == [][WithdrawnStays]_vars
=============================================================================
