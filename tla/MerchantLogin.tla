--------------------------- MODULE MerchantLogin ---------------------------
(***************************************************************************)
(* Developer login through Core.  A browser or the CLI opens a login       *)
(* request; Core attests the merchant's identity once; the browser (or,    *)
(* after a confirmation, the polling CLI) trades the request for a         *)
(* session.  Requests are finished by many callers at once, each in a      *)
(* transaction that takes the request, then the advisory lock of the Core  *)
(* subject, then finds or makes the account.                               *)
(***************************************************************************)
EXTENDS PortalSessions

CONSTANTS
    Requests,    \* login requests
    Subjects,    \* identities Core vouches for
    Origins      \* the portals a login may start from

VARIABLES
    requests,    \* platform_identity.developer_login_requests
    links,       \* developer_core_links: the account of each subject
    finishes     \* each transaction that finishes a login

merchantVars == <<requests, links, finishes>>

\* A request has its code from the moment Core names the subject.
RequestType ==
    [kind : {"browser", "cli"}, origin : Origins,
     subject : Subjects \cup {None}, confirmed : BOOLEAN, expired : BOOLEAN,
     gone : BOOLEAN]              \* the row has been deleted
Stages == {"take", "lock", "account", "done", "refused", "conflict"}
FinishType ==
    [at : Stages, request : Requests, cli : BOOLEAN, origin : Origins,
     subject : Subjects \cup {None}, found : Accounts \cup {None}]

\* None is no row of a table, no transaction and none of its stages.
ASSUME MerchantAssumption ==
    /\ None \notin Subjects /\ None \notin Stages
    /\ None \notin RequestType /\ None \notin FinishType

MerchantTypeOK ==
    /\ requests \in [Requests -> RequestType \cup {None}]
    /\ links \in [Subjects -> Accounts \cup {None}]
    /\ finishes \in [DevLogins -> FinishType \cup {None}]

MerchantInit ==
    /\ requests = [r \in Requests |-> None]
    /\ links = [s \in Subjects |-> None]
    /\ finishes = [d \in DevLogins |-> None]

Open(r) == requests[r] # None /\ ~requests[r].gone
Alive(r) == Open(r) /\ ~requests[r].expired
Approved(r) == requests[r].subject # None
At(d) == IF finishes[d] = None THEN None ELSE finishes[d].at

\* The row locks of transactions that have not ended: the request one has
\* deleted, the subject one has locked.
Taken(r) == \E d \in DevLogins :
    At(d) \in {"lock", "account"} /\ finishes[d].request = r
Locked(s) == \E d \in DevLogins :
    At(d) = "account" /\ finishes[d].subject = s

\* start: a login sweeps the expired requests and adds its own.
Start(r, kind, origin) ==
    /\ requests[r] = None
    /\ \A q \in Requests : Taken(q) => ~requests[q].expired
    /\ requests' = [q \in Requests |->
            IF q = r
            THEN [kind |-> kind, origin |-> origin, subject |-> None,
                  confirmed |-> FALSE, expired |-> FALSE, gone |-> FALSE]
            ELSE IF Open(q) /\ requests[q].expired
            THEN [requests[q] EXCEPT !.gone = TRUE]
            ELSE requests[q]]
    /\ UNCHANGED <<links, finishes, portalVars>>

\* Five minutes pass; now() is fixed when a transaction begins.
RequestExpires(r) ==
    /\ Alive(r)
    /\ requests' = [requests EXCEPT ![r].expired = TRUE]
    /\ UNCHANGED <<links, finishes, portalVars>>

\* Core attests an identity with its platform key.  A second attestation,
\* of the same or another subject, is a conflict.
Approve(r, s) ==
    /\ Alive(r) /\ ~Taken(r)
    /\ ~Approved(r)
    /\ requests' = [requests EXCEPT ![r].subject = s]
    /\ UNCHANGED <<links, finishes, portalVars>>

\* The person who holds the code allows the CLI.
CLIConfirmation(r, origin) ==
    /\ Alive(r) /\ ~Taken(r)
    /\ requests[r].kind = "cli"
    /\ requests[r].origin = origin
    /\ Approved(r)
    /\ requests' = [requests EXCEPT ![r].confirmed = TRUE]
    /\ UNCHANGED <<links, finishes, portalVars>>

Begin(d, r, cli, origin) ==
    finishes' = [finishes EXCEPT ![d] =
        [at |-> "take", request |-> r, cli |-> cli, origin |-> origin,
         subject |-> None, found |-> None]]

\* A poll that sees the confirmation goes on to finish; it holds no lock
\* in between.  Before that it answers pending.
PollCLI(d, r, origin) ==
    /\ finishes[d] = None
    /\ Alive(r)
    /\ requests[r].kind = "cli"
    /\ requests[r].origin = origin
    /\ requests[r].confirmed
    /\ Begin(d, r, TRUE, origin)
    /\ UNCHANGED <<requests, links, portalVars>>

\* The browser comes back from Core; a CLI request is sent on to the
\* confirmation page instead.
FinishBrowser(d, r, origin) ==
    /\ finishes[d] = None
    /\ requests[r] # None
    /\ Alive(r) => requests[r].kind = "browser"
    /\ Begin(d, r, FALSE, origin)
    /\ UNCHANGED <<requests, links, portalVars>>

To(d, at) == finishes' = [finishes EXCEPT ![d].at = at]

\* The conditions of the DELETE.
Matches(d, r) ==
    /\ Alive(r)
    /\ requests[r].origin = finishes[d].origin
    /\ Approved(r)
    /\ IF finishes[d].cli
       THEN requests[r].kind = "cli" /\ requests[r].confirmed
       ELSE requests[r].kind = "browser"

\* Mutant: finish reads the request and deletes it when it commits, so that
\* two finishes read it side by side.
TakeShared(d) ==
    /\ At(d) = "take"
    /\ LET r == finishes[d].request IN
        /\ Matches(d, r)
        /\ finishes' = [finishes EXCEPT ![d].at = "lock",
                ![d].subject = requests[r].subject]
    /\ UNCHANGED <<requests, links, portalVars>>

\* finish deletes the request; a second finish waits for the first to
\* commit or to roll back.
Take(d) ==
    /\ At(d) = "take"
    /\ LET r == finishes[d].request IN
        /\ ~Taken(r)
        /\ IF Matches(d, r)
           THEN finishes' = [finishes EXCEPT ![d].at = "lock",
                    ![d].subject = requests[r].subject]
           ELSE To(d, "refused")
    /\ UNCHANGED <<requests, links, portalVars>>

\* The advisory lock of the subject, then the account it is linked to.
Lock(d) ==
    /\ At(d) = "lock"
    /\ LET s == finishes[d].subject IN
        /\ ~Locked(s)
        /\ finishes' = [finishes EXCEPT ![d].at = "account",
                ![d].found = links[s]]
    /\ UNCHANGED <<requests, links, portalVars>>

\* The rest of the transaction: a subject seen for the first time gets an
\* account, an organization and a link (core_subject is unique); a disabled
\* account rolls everything back, the deletion of the request included.
Commit(d) ==
    /\ At(d) = "account"
    /\ LET s == finishes[d].subject
           first == finishes[d].found = None
           account == IF first THEN d ELSE finishes[d].found
       IN IF first /\ links[s] # None
          THEN /\ To(d, "conflict")
               /\ UNCHANGED <<requests, links, portalVars>>
          ELSE IF ~first /\ account \notin enabled
          THEN /\ To(d, "refused")
               /\ UNCHANGED <<requests, links, portalVars>>
          ELSE /\ requests' = [requests EXCEPT ![finishes[d].request].gone = TRUE]
               /\ links' = [links EXCEPT ![s] = account]
               /\ linked' = linked \cup {account}
               /\ enabled' = IF first THEN enabled \cup {account} ELSE enabled
               /\ sessions' = [sessions EXCEPT ![d] = DeveloperSession(account)]
               /\ To(d, "done")
               /\ UNCHANGED <<credential, file, users, logins, update>>

\* The caller goes away or the connection is lost: the transaction rolls
\* back.
FinishFails(d) ==
    /\ At(d) \in {"take", "lock", "account"}
    /\ To(d, "refused")
    /\ UNCHANGED <<requests, links, portalVars>>

\* Mutant: any session is renewed that has not reached its expiry.
ActivityOfIdle(t) ==
    /\ sessions[t] # None
    /\ sessions[t].surface = "developer"
    /\ sessions' = [sessions EXCEPT ![t].idle = FALSE]
    /\ UNCHANGED <<credential, file, enabled, linked, users, logins, update,
                   merchantVars>>

\* Activity: only a session that is still good is renewed.
Activity(t) ==
    /\ sessions[t] # None
    /\ sessions[t].surface = "developer"
    /\ sessions[t].account \in enabled \cap linked
    /\ ~sessions[t].expired /\ ~sessions[t].idle
    /\ sessions' = [sessions EXCEPT ![t].idle = FALSE, ![t].expired = FALSE]
    /\ UNCHANGED <<credential, file, enabled, linked, users, logins, update,
                   merchantVars>>

BrowserNext ==
    \/ \E r \in Requests, o \in Origins :
        Start(r, "browser", o) \/ \E d \in DevLogins : FinishBrowser(d, r, o)
    \/ \E r \in Requests, s \in Subjects : Approve(r, s)

CLINext ==
    \E r \in Requests, o \in Origins :
        \/ Start(r, "cli", o) \/ CLIConfirmation(r, o)
        \/ \E d \in DevLogins : PollCLI(d, r, o)

ActivityNext == \E d \in DevLogins : Activity(d)

MerchantNext ==
    \/ BrowserNext \/ CLINext \/ ActivityNext
    \/ \E r \in Requests : RequestExpires(r)
    \/ \E d \in DevLogins : Take(d) \/ Lock(d) \/ Commit(d) \/ FinishFails(d)

----------------------------------------------------------------------------
(* Properties *)

\* However often a login request is approved, confirmed, polled and finished
\* at once, it becomes one session at most, that session belongs to the
\* account of the subject Core attested, and no first login of a merchant
\* fails because another one has just made the account.
OneSessionPerRequest ==
    \A d \in DevLogins :
        /\ At(d) # "conflict"
        /\ At(d) = "done" =>
            /\ \A e \in DevLogins \ {d} :
                    At(e) = "done" => finishes[e].request # finishes[d].request
            /\ requests[finishes[d].request].gone
            /\ sessions[d] # None =>
                    sessions[d].account = links[finishes[d].subject]

\* A token that has stopped authenticating never does so again: logout, a
\* replaced password, expiry and an hour without activity are final, and
\* neither activity nor a login in flight revives it.
Minting(t) ==
    /\ sessions[t] = None
    /\ IF t \in Logins THEN logins[t].at = "replace" ELSE At(t) = "account"

SessionsStayEnded ==
    /\ \A t \in Tokens : Authenticates(t)' => Authenticates(t) \/ Minting(t)
    /\ \A u \in UserLogins :
            UserAuthenticates(u)' => UserAuthenticates(u) \/ users[u] = None
=============================================================================
