--------------------------- MODULE MCInstallation ---------------------------
(***************************************************************************)
(* Small instances of Installation.  Ids and keys are numbers that are     *)
(* used in increasing order: any other order is the same up to renaming.   *)
(***************************************************************************)
EXTENDS InstallationAccess

Fixture(app, version, profile, scopes) ==
    [app |-> app, version |-> version, profile |-> profile, scopes |-> scopes,
     caps |-> {"payment"}, provider |-> None, assignment |-> 0,
     allowed |-> TRUE]

Managed(app, profile, provider, assignment) ==
    [app |-> app, version |-> 1, profile |-> profile,
     scopes |-> {"shipping.read"}, caps |-> {"shipping"},
     provider |-> provider, assignment |-> assignment, allowed |-> TRUE]

(* A remote app                                                            *)
RemoteReleases == {Fixture("remote-pay", 1, "local-remote", {"read"})}

(* With it an app that is distributed to the store and has no capability   *)
TwoKinds == RemoteReleases \cup
    {[Fixture("shop-view", 1, "resource-app", {"read"}) EXCEPT !.caps = {},
                                                       !.assignment = 1]}

(* The remote app, an earlier version of it that may be seeded late and    *)
(* then is the current one, and a rival for the payment capability         *)
RivalReleases == RemoteReleases \cup
    {Fixture("remote-pay", 0, "local-remote", {"read", "write"}),
     Fixture("pay-alt", 1, "local-simulator", {"read"})}

(* Two managed apps of one engine provider; the first can be distributed   *)
(* again under a second assignment                                         *)
ManagedReleases == {Managed("app_one", "managed-shipping-local", "emisell", 1),
                    Managed("app_one", "managed-shipping-local", "emisell", 2),
                    Managed("app_two", "provider-app", "emisell", 1)}

UsedInOrder(used) == \A m, n \in Nat \cap (1..6) :
                        m < n /\ n \in used => m \in used

(* State constraint                                                        *)
InOrder ==
    /\ UsedInOrder({i \in Intents : intents[i] # None})
    /\ UsedInOrder({id \in Installations : events[id] # <<>>})
    /\ UsedInOrder({t \in Tokens : tokens[t] # None})
    /\ \A o \in Owners :
          /\ UsedInOrder({r.key : r \in {q \in intentRequests : q.owner = o}})
          /\ UsedInOrder({r.key : r \in {q \in accessRequests : q.owner = o}})
    /\ \A u \in Users :
          UsedInOrder({r.key : r \in {q \in idempotency : q.owner = u}})
=============================================================================
