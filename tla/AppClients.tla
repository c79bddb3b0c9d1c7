----------------------------- MODULE AppClients -----------------------------
(***************************************************************************)
(* The identity of an app: the client of a signed release, which proves by *)
(* a challenge that it controls the release's endpoint; the launch URL an  *)
(* administrator approves for it; and the app-level credential that        *)
(* outlives releases.                                                      *)
(*                                                                         *)
(* A repeated request key answers what is stored and changes nothing, so   *)
(* that such a request is a stutter here.  Challenges, probes and secrets  *)
(* are numbered in the order they are drawn.                               *)
(***************************************************************************)
EXTENDS Naturals, FiniteSets, Null

CONSTANTS
    RotateKeys,     \* Idempotency-Keys of credential rotations
    ProbeSlots,     \* probes at a time (4 in the code)
    MaxClientRevision,  \* bound: changes of a client
    MaxChallenges   \* bound: challenges drawn for a client

ASSUME ClientsAssumption ==
    /\ ProbeSlots \in Nat /\ MaxClientRevision \in Nat /\ MaxChallenges \in Nat
    /\ None \notin Nat

VARIABLES
    signed,     \* the release is signed and may be distributed
    client,     \* its row of app_clients
    endpoint,   \* the challenge the app's well-known URL answers with
    probes,     \* endpoint probes on their way
    launch,     \* embedded_launches
    credentialVersion, \* application_credentials.version
    rotations   \* application_credential_requests

clientVars == <<signed, client, endpoint, probes, launch,
                credentialVersion, rotations>>

ClientType ==
    [status : {"pending", "verified", "revoked"}, revision : Nat,
     challenge : Nat, lapsed : BOOLEAN,        \* challenge_expires_at
     stale : BOOLEAN,                          \* verified_until has passed
     recent : BOOLEAN,                         \* attempted within a minute
     result : {"not_checked", "checking", "failed", "verified"},
     secret : Nat \cup {None}, version : Nat,  \* secret_hash, secret_version
     proved : Nat \cup {None}]                 \* the challenge once answered
ProbeType ==
    [revision : Nat, challenge : Nat, ok : BOOLEAN \cup {None}]
LaunchType ==
    [status : {"submitted", "approved", "rejected", "revoked"},
     revision : Nat, signature : BOOLEAN]

ASSUME RowsExistAssumption == None \notin ClientType /\ None \notin LaunchType

ClientsTypeOK ==
    /\ signed \in BOOLEAN
    /\ client \in ClientType \cup {None}
    /\ endpoint \in Nat \cup {None}
    /\ probes \subseteq ProbeType
    /\ launch \in LaunchType \cup {None}
    /\ credentialVersion \in Nat
    /\ rotations \in [RotateKeys -> Nat \cup {None}]

ClientsInit ==
    /\ signed = TRUE
    /\ client = None /\ endpoint = None /\ probes = {}
    /\ launch = None
    /\ credentialVersion = 0
    /\ rotations = [k \in RotateKeys |-> None]

----------------------------------------------------------------------------
(* The client *)

otherThanClient == <<signed, endpoint, probes, launch,
                     credentialVersion, rotations>>

\* WithBinding holds the release while something depends on it.
ReleaseHeld == signed

\* current: the proof of the endpoint still counts.
Current == client.status = "verified" /\ ~client.stale

\* WithBoundReady.
Ready == client # None /\ Current /\ client.secret # None

\* Authenticate: the self-check of a client.
ClientAuthenticates(secret) ==
    /\ client # None
    /\ ReleaseHeld /\ Current
    /\ client.secret = secret

\* Create: one client for a release.
RegisterClient ==
    /\ client = None
    /\ ReleaseHeld
    /\ client' = [status |-> "pending", revision |-> 1, challenge |-> 0,
            lapsed |-> FALSE, stale |-> FALSE, recent |-> FALSE,
            result |-> "not_checked", secret |-> None, version |-> 0,
            proved |-> None]
    /\ UNCHANGED otherThanClient

\* Mutate locks the row and applies a change to the revision the caller saw.
Apply(c) ==
    /\ client.revision < MaxClientRevision
    /\ client' = [c EXCEPT !.revision = client.revision + 1]

Challenge ==
    /\ client # None
    /\ ReleaseHeld
    /\ client.status # "revoked"
    /\ client.challenge < MaxChallenges
    /\ Apply([client EXCEPT !.challenge = @ + 1, !.lapsed = FALSE,
            !.status = "pending", !.stale = FALSE, !.secret = None,
            !.result = "not_checked"])
    /\ UNCHANGED otherThanClient

\* All slots of the verifier are taken: it refuses at once.
Busy == Cardinality({p \in probes : p.ok = None}) >= ProbeSlots

\* verify commits, and only then probes, with no lock held.
Verify ==
    /\ client # None
    /\ ReleaseHeld
    /\ client.status = "pending"
    /\ ~client.lapsed /\ ~client.recent
    /\ Apply([client EXCEPT !.recent = TRUE, !.result = "checking"])
    /\ probes' = probes \cup {[revision |-> client.revision + 1,
            challenge |-> client.challenge, ok |-> IF Busy THEN FALSE ELSE None]}
    /\ UNCHANGED <<signed, endpoint, launch, credentialVersion,
                   rotations>>

RotateSecret ==
    /\ client # None
    /\ ReleaseHeld
    /\ Current
    /\ Apply([client EXCEPT !.version = @ + 1, !.secret = client.version + 1])
    /\ UNCHANGED otherThanClient

\* An owner or an administrator revokes; the release may be gone.
RevokeClient ==
    /\ client # None
    /\ Apply([client EXCEPT !.status = "revoked", !.secret = None,
            !.stale = FALSE])
    /\ UNCHANGED otherThanClient

\* A challenge lives 10 minutes, a proof 24 hours; attempts are a minute
\* apart.
ClientClock ==
    /\ client # None
    /\ \/ client' = [client EXCEPT !.lapsed = TRUE]
       \/ client' = [client EXCEPT !.recent = FALSE]
       \/ /\ client.status = "verified"
          /\ client' = [client EXCEPT !.stale = TRUE]
    /\ UNCHANGED otherThanClient

----------------------------------------------------------------------------
(* Probes *)

otherThanProbes == <<signed, client, endpoint, launch,
                     credentialVersion, rotations>>

\* The app serves the challenge its developer put there.
Serve(challenge) ==
    /\ endpoint' = challenge
    /\ UNCHANGED <<signed, client, probes, launch,
                   credentialVersion, rotations>>

\* The answer must be exactly the proof of the challenge the probe was sent
\* for.
Succeeds(p) == endpoint = p.challenge

\* Verifier.Verify.
Answer(p) ==
    /\ p.ok = None
    /\ probes' = (probes \ {p}) \cup {[p EXCEPT !.ok = Succeeds(p)]}
    /\ UNCHANGED otherThanProbes

\* The process dies with its probe: the client says "checking" until the
\* next attempt.
ProbeLost(p) ==
    /\ probes' = probes \ {p}
    /\ UNCHANGED otherThanProbes

\* Mutant: the probe finishes whatever became of the client meanwhile.
FinishAnyProbe(p) ==
    /\ p.ok # None
    /\ probes' = probes \ {p}
    /\ IF client.status = "pending" /\ p.ok
       THEN Apply([client EXCEPT !.status = "verified",
                !.result = "verified", !.stale = FALSE,
                !.proved = p.challenge])
       ELSE UNCHANGED client
    /\ UNCHANGED <<signed, endpoint, launch, credentialVersion, rotations>>

\* FinishProbe: the release and the revision are checked again, so that a
\* revocation, a new challenge or a suspension wins over a late probe.
FinishProbe(p) ==
    /\ p.ok # None
    /\ probes' = probes \ {p}
    /\ IF /\ ReleaseHeld
          /\ client.revision = p.revision
          /\ client.status = "pending" /\ client.result = "checking"
       THEN Apply(IF p.ok /\ ~client.lapsed
                  THEN [client EXCEPT !.status = "verified",
                        !.result = "verified", !.stale = FALSE,
                        !.proved = p.challenge]
                  ELSE [client EXCEPT !.result = "failed"])
       ELSE UNCHANGED client
    /\ UNCHANGED <<signed, endpoint, launch, credentialVersion,
                   rotations>>

\* The release is suspended, archived or brought back.
Distribute ==
    /\ signed' = ~signed
    /\ UNCHANGED <<client, endpoint, probes, launch,
                   credentialVersion, rotations>>

----------------------------------------------------------------------------
(* Reviewed launches *)

otherThanLaunch == <<signed, client, endpoint, probes,
                     credentialVersion, rotations>>

\* Submit: a launch URL on the proven endpoint's host; the same launch again
\* is a stutter, another one under the same release a conflict.
SubmitLaunch ==
    /\ ReleaseHeld /\ Ready
    /\ launch = None
    /\ launch' = [status |-> "submitted", revision |-> 1, signature |-> FALSE]
    /\ UNCHANGED otherThanLaunch

\* Decide and Review: to approve takes a ready client and signs in the same
\* transaction; to reject or to revoke does not ask for one.
ReviewLaunch(status) ==
    /\ launch # None
    /\ \/ launch.status = "submitted" /\ status = "rejected"
       \/ launch.status = "submitted" /\ status = "approved"
            /\ ReleaseHeld /\ Ready
       \/ launch.status = "approved" /\ status = "revoked"
    /\ launch' = [status |-> status, revision |-> launch.revision + 1,
            signature |-> launch.signature \/ status = "approved"]
    /\ UNCHANGED otherThanLaunch

\* CurrentBinding.WithBinding: release, client and launch, held together.
LaunchCurrent ==
    /\ ReleaseHeld /\ Ready
    /\ launch # None
    /\ launch.status = "approved" /\ launch.signature

----------------------------------------------------------------------------
(* The app-level credential *)

otherThanCredential == <<signed, client, endpoint, probes, launch>>

\* EnsureTx, in the transaction that saves a draft: the first time only.
EnsureCredential ==
    /\ credentialVersion = 0
    /\ credentialVersion' = 1
    /\ UNCHANGED <<otherThanCredential, rotations>>

\* Rotate: under a key that was used it answers the credential if nothing
\* happened since, and refuses otherwise; neither changes anything.
RotateCredential(key, expected) ==
    /\ credentialVersion > 0
    /\ rotations[key] = None
    /\ expected = credentialVersion
    /\ credentialVersion' = credentialVersion + 1
    /\ rotations' = [rotations EXCEPT ![key] = credentialVersion + 1]
    /\ UNCHANGED otherThanCredential

\* Reveal and Authenticate know the secret of the version in force only.
AppAuthenticates(version) ==
    credentialVersion > 0 /\ version = credentialVersion

ClientsNext ==
    \/ RegisterClient \/ Challenge \/ Verify \/ RotateSecret \/ RevokeClient
    \/ ClientClock \/ Distribute
    \/ \E c \in {None} \cup 0..MaxChallenges : Serve(c)
    \/ \E p \in probes : Answer(p) \/ ProbeLost(p) \/ FinishProbe(p)
    \/ SubmitLaunch
    \/ \E status \in {"approved", "rejected", "revoked"} : ReviewLaunch(status)

CredentialNext ==
    \/ EnsureCredential
    \/ \E k \in RotateKeys, v \in 1..Cardinality(RotateKeys) + 1 :
        RotateCredential(k, v)

----------------------------------------------------------------------------
(* Properties *)

\* A client counts as verified only while the endpoint has answered the very
\* challenge the client holds now: a probe that comes back after the client
\* was challenged anew, revoked or verified again changes nothing.  Only
\* behind such a proof does a secret authenticate, and only the newest one,
\* or is a launch current.
ProofIsOfThisChallenge ==
    client # None =>
        /\ client.status = "verified" => client.proved = client.challenge
        /\ \A n \in 1..client.version : ClientAuthenticates(n) =>
                n = client.version /\ client.proved = client.challenge
        /\ LaunchCurrent => client.proved = client.challenge

\* What has been taken away does not come back: a client's revocation and a
\* decision against a launch are final, a secret once replaced or cleared
\* never authenticates again.
SecretsStayDead ==
    /\ client # None =>
        /\ client.status = "revoked" => client'.status = "revoked"
        /\ \A n \in 1..client.version :
                client'.secret = n => client.secret = n
    /\ launch # None /\ launch.status \in {"rejected", "revoked"} =>
            launch' = launch
    /\ \A v \in 1..credentialVersion :
            AppAuthenticates(v)' => AppAuthenticates(v)
=============================================================================
