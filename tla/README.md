# A TLA+ verification of the Emisell apps platform

The platform installs apps for merchants, gives them scoped access, connects
remote apps by OAuth, routes capabilities to them and tells them what happened by
webhook. It is a Go server, a Go worker process, PostgreSQL and a NATS JetStream
broker. This directory holds a model of it in TLA+, model-checked with TLC, with
proofs checked by TLAPS.

`PROJECT.json` lists the components, the hazards, the runs, the mutants that show
that each property has teeth, the theorems, and the source lines of every
definition. Paths below are relative to `src/`.

## How to run

    tlc -workers 2 -config ConsentLifecycle.cfg MCInstallation
    tlapm InstallationProofs.tla

| run | module | distinct states | time |
| --- | --- | ---: | ---: |
| `ConsentLifecycle.cfg` | `MCInstallation` | 632,178 | 110 s |
| `CompatLifecycle.cfg` | `MCInstallation` | 395,528 | 60 s |
| `ManagedRelease.cfg` | `MCEngineGrants` | 237,006 | 70 s |
| `RemoteSafety.cfg` | `MCRemoteConnection` | 835,789 | 55 s |
| `RemoteCleanup.cfg` | `MCRemoteConnection` | 101,831 | 120 s |
| `EventFlow.cfg` | `MCOutboxRelay` | 126,339 | 36 s |
| `Webhooks.cfg` | `MCWebhookDelivery` | 187,641 | 26 s |
| `AnyApp.cfg` | `MCCoreProjection` | 298,915 | 90 s |
| `PaymentFlow.cfg` | `MCPaymentFlow` | 2,664,970 | 120 s |
| `LegacyPayment.cfg` | `MCPaymentFlow` | 211,642 | 70 s |
| `Identity.cfg` | `MCIdentity` | 538,169 | 50 s |
| `Publishing.cfg` | `MCPublishing` | 942,932 | 120 s |

| run | what it shows |
| --- | --- |
| `ConsentLifecycle` | `TokenAuthority`, `GrantFollowsRow`, `ConsentSpentOnce`, `EventsTellTheStory`, and that the tables implement `AccessAuthority`, through consent, expiry, token rotation and cleanup |
| `CompatLifecycle` | `RoutingExclusive`, `RowProvenance`, `ReceiptsMatchEffects` with both lifecycles at work |
| `ManagedRelease` | `ProviderExclusive`, `AuthorityUnderDistribution`, `GrantAnswersAreOrdered`, `EngineAnswersAreCurrent` while a release is withdrawn and assigned again |
| `RemoteSafety` | `UninstalledIsDisconnected`, `OneFamily`, `RevokedIsFinal` with late requests and crashes |
| `RemoteCleanup` | `CleanupEnds` (liveness) |
| `EventFlow` | `NothingIsLost`, `EveryEventSettles` (liveness) |
| `Webhooks` | `DeliveredOnce`, `NothingAfterUninstall`, `OutcomesAreFinal`, `EveryDeliverySettles` (liveness) |
| `AnyApp` | `HistoryIsExact`, `EveryPaymentWasInvited`, `AnswersNeverGoBack`, `CoreFollows`, `CoreIsALedger` against an app that is not trusted |
| `PaymentFlow` | `BookedOnce`, `LagIsOnRecord`, `AnswersKeepTheirWord` with the reference app |
| `LegacyPayment` | `EveryCallbackSettles` (liveness) |
| `Identity` | `SessionsFollowPassword`, `OneSessionPerRequest`, `OneKeyPerRequest`, `ProofIsOfThisChallenge`, `EndedStaysEnded` |
| `Publishing` | `SignedIsReviewed`, `CommitsAreCurrent`, `WithdrawnStaysWithdrawn`, `ReadsAreAuthorised` |

A type invariant is stated in every module that has state. TLAPS proves each of them, so
no run repeats it.

## Inventory

### How the parts interact

A merchant's change goes through one of two lifecycles into the tables of
`platform_installation`. Both take the same transaction-level advisory lock of the
merchant, and so does everything that talks to a remote app for an installation:
token refresh, OAuth callback, capability call, webhook delivery, cleanup
("the gate", `WithInstallation`, `WithActive`). Calls to the outside are made
*while the lock is held*; the row lock, not the answer, is what serializes them.
Every module writes its events to an outbox in the transaction of the change. A
worker process relays outboxes to the broker, routes the broker's messages to
webhook deliveries, delivers them, and cleans up after uninstalls.

### Components

**Installation lifecycle** (`internal/installation`). *State*: consent intents,
the current row of each app, consumptions, access grants, app tokens, receipts,
outbox. *Operations*: prepare, consent, deny, consume, activate, issue_token,
uninstall (consent lifecycle, keyed by merchant owner); install, activate,
uninstall (compatibility lifecycle, by user); cleanup completion. *Hard*: the registry, a release
source or a remote app is called in the middle of a transaction while the clock
runs; the compatibility lifecycle reads a manifest before it has the lock; an app
has one row, which the next installation takes over; grants and tokens end by a
trigger. *Correct when*: no token outlives its consent, the three tables agree, an
intent is spent once, a capability and an engine provider have one active server,
a key has one effect, and the outbox tells the story of the row.

**Release sources** (`internal/app/service/registry.go`, `internal/bootstrap/*_install.go`,
`internal/resourcerelease`). *State*: seeded releases, test assignments, managed
shipping and UI releases. They answer "is exactly one release on offer" and hold
share locks on it while it is consumed. *Correct when*: no authority is given under
a release that was withdrawn.

**OAuth connections** (`internal/oauth`). *State*: one-time states with PKCE
verifier, sealed credentials per installation. *Operations*: begin, callback,
refresh on access, readiness probe, invalidate, revoke. *Hard*: the state is
consumed before the lock is asked for; credentials are committed on another
connection than the one that holds the lock; a request that timed out may still
arrive. *Correct when*: after the cleanup began nothing writes credentials again,
and nothing usable remains after an uninstall.

**Cleanup worker** (`internal/installation/postgres/remote.go`, `monitor.go`,
`cmd/worker`). *State*: attempts, next attempt and revision of a row that is
`disabling`. *Hard*: a list read without lock, failures recorded outside the lock,
retries by owner and operator, a remote app that never answers. *Correct when*: it
ends, uninstalled or with its budget spent, and uninstalled means disconnected.

**Reference remote app** (`internal/referenceapp`). *State*: codes, grants and their
refresh history, webhook inbox, payments, callbacks. It is the other side of OAuth,
capability calls and webhooks. *Correct when*: a code and a refresh token work
once, one grant family lives, a revoked installation can do nothing, a delivery
counts once.

**Outbox and relay** (`internal/platform/outboxpg`, `internal/event`). *State*:
events with attempts, next attempt, published or dead. *Operations*: deliver one,
replay a dead one. *Hard*: publish acknowledgement lost, worker dying between
publish and commit, the broker's 24 hours duplicate window. *Correct when*: no
event is lost, and none is tried for ever.

**Webhook routing and delivery** (`internal/webhook`). *State*: inbox, deliveries
with attempts, revision and outcome. *Operations*: ingest, deliver one, operator
replay, owner retry. *Hard*: message acknowledgement and inbox commit are two
systems; the candidate is picked without a lock; answers are lost after the effect.
*Correct when*: one effect per event, none after the uninstall, outcomes are
final, every delivery ends.

**Capability invocation and payments** (`internal/capability`, `internal/runtime`).
*State*: executions by idempotency key, payments with the app's revision and an
event version of their own, callback inbox. *Operations*: invoke (under the gate,
the app answering), receive a callback. *Hard*: the app has executed and the
platform dies before it saved; callbacks are duplicated, out of order, and race the
answer that reports the same change; the app is not trusted. *Correct when*: one
payment per key, a status never regresses, every change is one event, no payment
comes in by a callback or by an answer about another one, no lag is silent. **Core reference consumer**
(`examples/core-reference`): *state*: inbox, quarantine, payment projection; *hard*:
a broker that repeats and reorders; *correct when* nothing the platform says is
quarantined and the newest event it has seen is shown.

**Authoring** (`internal/app/service/drafts.go`, `catalog.go`, `internal/review`,
`internal/webhook/subscriptions`). *State*: drafts with revisions, submissions,
catalog entries, subscriptions. *Operations*: save, submit, decide, sign, publish,
suspend, restore, unpublish. *Hard*: sign, prepare and submit read long before they
commit, in a session of their own, while the draft is edited. *Correct when*: what
is signed is what was reviewed. **Distribution** (`internal/app/service/testing.go`,
`managed_shipping.go`, `integration.go`, `ui_release.go`, `ui_resource_release.go`):
releases submitted, approved, signed, suspended; assignments requested, approved,
stopped, while stores install. *Hard*: a request holds shared locks in one session
and commits in another. *Correct when*: a commit relies on nothing that was taken
back, and what was withdrawn stays withdrawn. **Resource access** (`internal/installation/service/resources.go`,
`reviewed_ui.go`, `internal/oauth/embedded`, `internal/resourceclient`): a reviewed app is opened
by a store and reads its products, under locks on release, assignment, client,
launch and store. *Correct when*: nothing that authorises a read is taken back
while the upstream service answers. **Private products** (`app/repository/private_products.go`,
`bootstrap/private_products.go`): an app that only its owner installs, signed once when
it is created, and read under locks on version, owner, credential and store.
*Correct when*: the same, of the owner's account and the installation.

**App clients and credentials** (`internal/oauth/appclient`, `appidentity`,
`endpointproof`). *State*: clients with revision, challenge, probe result and
secret; an app credential. *Hard*: a probe calls out between two transactions.
*Correct when*: a client is verified by the answer to its own challenge. **Identity**
(`internal/identity`): portal accounts and sessions, user sessions, managed and
platform keys, the operator's key. *Hard*: a password is verified before the
transaction that makes the session; answers that tell a secret once get lost.
*Correct when*: no session outlives its password, one request makes one key, and
what ended stays ended. **Merchant login** (`internal/identity/merchantlogin`):
requests attested by Core, confirmed and polled by a CLI, finished by a browser.
*Correct when*: one request is one session. **Provider grants** (`internal/providergrant`,
migration 0022, `installation/postgres/managed.go`): numbered answers to the
shipping engine, and the check of the local one. *Correct when*: answers can be
ordered, and an engine acts only for whom it is bound to. **Transport** (`internal/transport`):
authentication of Core's calls, slots, and the registration of merchants.

**Stateless or without protocol**: contract packages, shipping clients and
simulator, developer organisations and contacts, decoding and error mapping,
bootstrap and commands, dashboards and SDK.

The hazards of these components, with the line where each bites and the
properties that cover it, are the list `hazards` of `PROJECT.json`. Those without
a property say why.

## Plan

Modules, most important first. Those marked + exist.

1. `Installation` +, `AccessAuthority` + (abstract), `InstallationAccess` +
   (refinement); `EngineGrants` + beside them; proofs of all in `InstallationProofs` +.
2. `RemoteConnection` +: OAuth, remote grants and cleanup under the gate; proofs in
   `RemoteConnectionProofs` +.
3. `OutboxRelay` +, proofs in `OutboxRelayProofs` +; `WebhookDelivery` +, proofs in
   `WebhookDeliveryProofs` +.
4. `PaymentStore` +, `PaymentLedger` + (abstract), `CoreProjection` +, proofs in
   `PaymentProofs` +; `PaymentFlow` + with the reference app and its callbacks,
   proofs in `PaymentFlowProofs` +.
5. `AppAuthoring` +: drafts, submissions, signing, catalog, subscriptions;
   `Distribution` + extends it, `ResourceAccess` + extends that,
   `PrivateProducts` + that; `MCPublishing` +, proofs in `PublishingProofs` +.
6. `PortalSessions` +, `MerchantLogin` + on top of it; `CoreKeys` +, `CoreCalls` + on
   top of it; `AppClients` +; `MCIdentity` +, proofs in `IdentityProofs` +.

Every safety property that a run checks is proved. The four liveness properties are
not, and cannot be here: see "What is only model-checked".

## Installation

One merchant, one database. Tables are functions keyed as their unique indexes
say: `installs` by app, `consumptions` and `grants` by installation, `tokens` by
id. `tx` is the transaction that holds the merchant's advisory lock *while
it waits for the registry, a release source or a remote app*. Such a mutation is
two actions: `Begin...` checks what the code checks before the call, and
`Commit...` what it checks after it, with the clock, release withdrawals, seeding
and the unlocked steps of others in between. A mutation that calls nobody is one
action. `legacy` holds what the compatibility lifecycle read before it asked for
the lock (`Service.Execute` reads the manifest, then `Repository.Change` locks).

`AccessAuthority` is the promise in five lines: authority is requested, granted,
carried by at most one credential, revoked for good. `InstallationAccess` maps the
grant table and the live token to it.

Three runs:

- `ConsentLifecycle`: two intents, two installations, of one remote app or of an
  app distributed to the store, two tokens, five keys, three ticks of the clock. Two intents and two installations
  are the least with which a row is taken over and an intent could be spent twice;
  two tokens let one rotate the other; an intent lives two ticks and a token one,
  so both expire inside transactions.
- `CompatLifecycle`: both lifecycles on two apps with one capability, an earlier
  version of the first being seeded late, so that a manifest read before the lock
  can be out of date in version and scopes. One owner, one user, three keys.
- `ManagedRelease`: two apps of one engine provider, the first distributed under
  two successive assignments, with the engines of `EngineGrants`.

Owner steps are interleaved through `tx` and `legacy`, not through a number of
owners: an owner has no state of its own beyond its receipts, and the second actor
is the user of the other lifecycle. Ids and keys are drawn at random by the code;
the constraint `InOrder` keeps one of the orders in which they may be used.

### What is abstracted

- Authentication, audit rows and response bodies; a request that is refused, or
  that a receipt answers, is a stuttering step. A digest of the release that
  changed under an intent is a refusal.
- The closed allowlist of scopes and capabilities is the attribute `allowed` of a
  release.
- Reads made without the lock and repeated under it are folded into `Begin`.
- The local pilot policy for embedded apps is left out; `provider_revision` is in
  `EngineGrants`.
- Configurations say `CHECK_DEADLOCK FALSE`: clock, ids and keys are bounded, so
  that runs stop when they are used up.

## EngineGrants

Extends `Installation` by what engines are told. `NumberGrants` conjoins the
trigger of migration 0022 to every step of the lifecycle: whichever statement
writes a grant, it takes a new number. `CheckGrant` is the one statement of
`providergrant`, whose answer an engine may keep (`heard`); `GrantAnswersAreOrdered`
compares it with what the statement would answer in every later state. The local
engine's check is three transactions, `ManagedTarget`, `HoldRelease` and
`WithManagedAccess`, and `EngineAnswersAreCurrent` says that the last one does not
trust the first.

The sequence is one for all installations; only numbers of one installation are
compared, so each counts its own, and numbers used up by transactions that roll
back are left out. Release lock outside, merchant lock inside is the order of both
consume and check, so that they cannot wait for each other in a circle. What an
engine does after it was allowed may finish while the grant is revoked, as the
comment above `WithManagedAccess` says.

## RemoteConnection

`gate` is the merchant's lifecycle lock with its holder and the answer it waits
for. `calls` are the HTTP requests under way: the holder may give up (`GiveUp`),
continue without the answer and release the gate, and the request may still be
served or be lost. `callbacks` have consumed their state and not yet reached the
gate. Credentials are written by a connection of its own, so `Crash` (the holder
dies, or its last write fails) leaves the tables as they are. The remote app
serializes its grants by one lock, so each of its answers is one action.

A grant family is one element of `Grants` with its current rotation; a refresh
token is a grant and a rotation, so a token out of the history is one whose
rotation is lower, which ends the family. A merchant has one row for the remote
app: successive installations have ids of their own, and their grants, states and
codes live on.

- `RemoteSafety`: two successive installations, two states, codes and grants, two
  requests under way at once (a late one and one that is waited for), one
  refresh per grant, one worker. Two of each are what a late request of the one
  connection needs to disturb the other.
- `RemoteCleanup`: one installation, two workers, a budget of two attempts, retries
  by owner and operator up to revision 4, which is past a budget spent once; here
  liveness is checked.

Abstractions: an access token's lifetime is a choice of the remote app; the binding
of a state to session and actor, and the PKCE verifier, are folded into
`StateExpires` (the state is consumed, nothing else happens); capability calls are
here what they do to the connection. While a holder works it holds the lock: the
loss of the lock's session during the work is not modelled.

### Fairness

`FairSpec` asks of the worker what `cmd/worker` does: it ticks (weak fairness of
listing and of recording failures), and its turn at the lock comes (strong fairness
of entering: PostgreSQL queues lock waiters, and others hold the gate no longer
than their HTTP deadlines, which is weak fairness of `GiveUp`, `Finish` and
`SendRevoke`). `Crash` may happen again and again; strong fairness of
`FinishCleanup` says that it does not hit every attempt. Nothing is asked of the
remote app: it may never answer. `Lose` is fair because a connection without a
reader does not live for ever.

## OutboxRelay

Two systems without a common transaction: `outbox` is a table, `stream` is the
broker's. `ingested` are the events that `Service.Ingest` has dealt with: behind the
gate it writes a row of `platform_webhook.inbox` with the delivery, or drops the event
because the installation is gone, not active or does not subscribe. Which of the two
does not matter to the relay, and the router acknowledges after both, so they are one
action here; what follows the row is `WebhookDelivery`. An event that is dropped has
therefore reached its end and counts as not lost. `relays` are the rows each worker has locked (`FOR UPDATE SKIP
LOCKED`); `sent` are publishes that may reach the broker after their publisher
gave up; `recent` is the broker's duplicate window by message id. `routers` are
the messages being routed; an acknowledgement that gets lost is `AbandonRouting`
after `Ingest`, and the message comes again. `EventFlow` has two events, one of which
the publisher refuses for good, two workers, a budget of two publishes, one operator
replay and two copies of an event in the stream, so that a replay after the duplicate
window is in reach. An event ages by one step to "older than a day", at any time.

Abstractions: the order of rows by `next_attempt_at` is a choice among all that
are due; the stream's retention is longer than the outages considered; one of the
two outbox schemas is modelled, which share the code. A message that does not
decode, or has another event's subject, is terminated by the router (`msg.Term`); it
is left out, because the relay's publisher validates an event and derives the subject
from it before it publishes.

`FairSpec` adds weak fairness of the workers' and the broker's own steps together
(`Work`), and that workers do not die for ever. The broker owes nothing to a
publisher: publishes may all be lost. `EveryEventSettles` then holds because of the
budget alone. A single weak fairness is enough because every step of `Work` moves
one of finitely many bounded counters on: no branch of it can repeat for ever.

## WebhookDelivery

Begins where `OutboxRelay` ends. `hooks` counts the grants the remote app made for
an installation, its last number being the webhook secret, `connections` is the
secret the platform has; they disagree after a connect whose answer was lost.
A worker picks a candidate without a lock (`Pick`), looks again under gate and row
lock (`Picked`), posts, and settles with the answer or at the deadline; POSTs that
nobody waits for stay in `requests`. Owners act on a revision they read earlier
(`readings`), operators on the row itself.

`Webhooks` has one event: deliveries of different events share nothing but the
gate, where the model lets any holder come first. Two workers, two attempts, two
connections, revisions up to 6 so that a delivery can die, be replayed and die again
by both recoveries.

Abstractions: the installation's own lifecycle is cut down to what a delivery can
see, each step a step of the modules above; an error of the registry records
nothing and is a `Crash`; the cancellation because of a lost subscription cannot
happen (the remote app has one release, which is never rewritten).

`FairSpec` is as for `OutboxRelay`, and nothing is asked of the receiver. It rests on
workers that some time stop failing: a delivery whose registry lookup fails every
time records nothing and stays the first candidate (`service.go:89`), and then those
behind it do wait.

## Payments

Four modules, from what does not depend on the app to what does.

`PaymentLedger` is what every copy of the payments promises its readers: a payment
that is there stays, keeps reference and money, and only moves on.

`PaymentStore` is the platform's tables (`resources`, `idempotency`, `inbox` for
`callback_inbox`) and the status events of each payment (`history`). Two
transactions write them: `Execute` stores the answer to an invocation, `ApplyCallback` a
callback; both save a snapshot (`SavePayment`, the code's `savePayment`). The *app
is arbitrary*: an answer is anything `remote.Client` accepts, a callback
carries any snapshot, so whatever holds here holds for every app. `References` are
a payment's reference and amount; the currency is always IDR, because the client
lets nothing else through, also when the caller asked for another.

A request names a payment or none (`id = None`, the empty `resourceId`), and the
code looks the payment up (`capability/postgres/repository.go:36`) and compares its
id with the answered one (`runtime/remote/client.go:63`) only when one is named.
Neither `Service.Invoke` nor the HTTP and Connect handlers refuse a capture, a
refund or a status without it; only the simulator, and so the reference app, does.
Therefore one cannot say that every payment was ordered: an app may answer such a
call with a payment that nobody ordered, and `savePayment` inserts it. What holds is
`EveryPaymentWasInvited`: a payment comes in only by an invocation that names none,
an order gets the reference and the amount it asked for, and the caller who brought
a payment in was told what its history begins with. A callback or the answer to a
call about another payment never brings one in.

Two numbers must
not be confused: the app's `revision`, by which snapshots are ordered, and the
platform's `version`, by which events are. A row of before migration 6 has neither
(`Legacy`). A repeated key that has an entry reads and writes nothing; the
`capability.invoked` event stands and falls with the entry.

`CoreProjection` adds Core: `Apply` takes any event of any payment that has not been
applied. A message that comes again finds itself in the inbox, so delivery at least
once and in any order is a set of events not yet applied.

`PaymentFlow` replaces the arbitrary app by the reference app, and the atomic
invocation by its steps: `Begin` under the gate, a request on the `wire` that may
be performed after nobody waits for it any more (`GiveUp`), the app's books under the
app's own lock (`Perform`, `Repeat`, `Refuse`), and `Finish`, `Reject` or `Disconnect`
with the answer. The app's operator may `Simulate`. Each change of the books queues a
callback in the same transaction; a worker locks the row (`Send`), posts, and
settles with the platform's verdict or at the deadline, the post perhaps still under
way (`TimeOut`, `Crash`). The platform receives a post behind the same gate.

A verdict of "not active", "not connected" or "contradiction" is HTTP 401 or 409
and ends a callback for good, as item 10 of `docs/adr/0006-payment-status-callbacks.md` asks; so the platform may stay behind
the app's books, and `LagIsOnRecord` says that then the callback that tells them is
pending, dead or cancelled, never "delivered".

- `AnyApp`: two payments, one of them legacy, two identities, two keys, two
  deliveries, revisions 0 to 2. Three revisions are earlier, same and later; two
  identities are needed to contradict one; with two keys an answer has a predecessor.
- `PaymentFlow`: one payment to be created, captured or asked about, and captured or
  refunded by the operator, with a second payment's worth of room, into which any
  double booking would fall; one more call captures without naming the payment, and is
  refused by the app. `MaxLate = 1` message at a time is late, one worker, two
  attempts.
- `LegacyPayment`: a payment that both sides know from before, in any status; here
  liveness is checked.

Abstractions: one installation (another one's payments are refused by
`installation_id`, like another reference); reconnecting is `RemoteConnection`'s, so
`Disconnect` and `GrantEnds` are final here; a provider error that is not one of the
named ones is a `GiveUp`; the back-off before the next attempt is any time.

`FairSpec`: the reference app's command ticks its worker every second and its
HTTP client has a deadline, so `CallbackWorker` is weakly fair; crashes stop some
time. Nothing is asked of the platform: it may leave every post unanswered.

## Credentials

Five modules, which share no state except where one extends another.

`PortalSessions`: an administrator's login reads the account and verifies the
password (`at`), and makes the session in a later transaction that compares the
password hash under a row lock; the operator's `update-admin` writes the database
and then a private file. A hash is numbered, because `HashPassword` salts it.
`SessionsFollowPassword` says that whichever comes first, no session of an earlier
password remains. Users' sessions are one row each.

`MerchantLogin`: a request is attested by Core (`Approve`), confirmed in the browser
for a CLI, and finished by any number of callers. A finishing transaction deletes
the request, takes the advisory lock of the subject, and finds or makes the
account; locks of transactions that have not ended are `Taken` and `Locked`.

`CoreKeys`: an administrator's POST carries a request key that the browser repeats
after a lost answer; the transaction takes the advisory lock of actor and request
key. The operator's commands change the database first and the token file
afterwards. `CoreCalls`: a call is admitted to one of the slots, intercepted, and
authorized again by its service; the registration of a merchant share-locks the
key, which a revocation must take exclusively. What the other calls then do is
modelled elsewhere; that a key revoked after `Authorize` lets a running call finish
is the code's choice, and only the registration of a merchant excludes it.

`AppClients`: `Challenge`, a probe of the endpoint between two transactions, and
`FinishProbe`, which compares the revision the probe began with. Secrets are numbered;
the app's credential is revealed and rotated under a request key.

`Identity` checks one *focus* at a time: the modules share no state, so that their
product adds nothing. Two administrator logins race one replacement of the
password; three developer logins, of which one is there before, share two requests
of one subject; three calls with one request key and two bodies; two calls of Core
for one slot; one probe at a time, two challenges, and revisions up to 6.

Abstractions: hashes, codes and verifiers are the identity of the thing they prove;
clocks are steps (`Expire`, `lapsed`, `stale`, `recent`) that may happen at any time; the
rate limit of the ingress is a refusal; lists, audit rows and `IssueToken`'s
formatting are left out; a user's login that replaces a session is a login and a
logout, which are two transactions in the code as well.

## Publishing

`AppAuthoring` keeps every revision ever saved (`saved`), so that what a submission,
a listing or a managed release carries can be compared with what was reviewed.
Operations that read before they commit leave what they read in `submits`,
`candidates` or `managedReads`; their commits look again at what the code looks at
again, and at nothing else.

`Distribution` has one table of `releases` for the four kinds, whose transitions are the
same, and their `assignments`. An entry of `ops` is a request that holds shared locks
in one session (`at` says how far it has got) while another session commits. A
change of a release or an assignment takes the row exclusively, so it waits for
`ReleaseHeld` and `AssignmentHeld`. The order of the locks is that of the code.

`ResourceAccess` adds the reviewed apps: the locks go on to client, launch and store,
and the upstream request is made under all of them. `ReadsAreAuthorised` is about that
moment. (The comment above `WithApproved` asks that no remote request be made in it,
and `internal/bootstrap` says the same of its sources; `Products.Read` makes one. The
read ends after ten seconds, `EndRequest`.)

`PrivateProducts` is about the apps with the one policy that needs no review. Creating
an app makes its credential, and a private one its signed version (`private`), in one
transaction; the version never changes, whatever becomes of the draft. Consent and
reads hold the owner's account and the credential shared, so an operator who
disables the account, and a developer who rotates the secret, wait for them; an
uninstall waits for the store only, and needs none of the sources. The link between
account and Core identity, the membership and the client's name never change, so
what is left of their checks is the actor that Core asserts. A secret rotated between
`Authenticate` and `ClientIDTx` still serves that one read: the credential is
locked, not compared again. `ReadsAreAuthorised` covers both kinds of app.


`Publishing` checks one focus at a time: `review` (drafts, submissions, catalog,
integrations), `requests` (managed releases and subscriptions of a draft), `stores`
(a managed release, assignments and installation), `interfaces` (a reviewed app
that is installed and read) and `private` (a private app from its creation on).
`stores` and `interfaces` begin with a release that is filed, whose
draft no longer matters. Two versions and two draft revisions let a document be
edited while it is read; two stores and two operations let one revoke while the
other works; two releases and two assignments let a withdrawn one have a successor.

Abstractions: a document is its version and whatever rule it satisfies (`form`);
submitter and reviewer are different people by their portal surfaces; the status
changes that the transition table refuses are refused; consent and activation of a
reviewed app are one step (the steps between them are in `Installation`); the
connection pools, which `CurrentBinding` uses twice in one request and can exhaust
until the ten seconds are over, are not modelled; nor is the loss of the session
that holds the locks while the other one commits. A secret rotated after the app has
authenticated is not looked at again, and the end of `verified_until` takes no
lock: `ReadsAreAuthorised` speaks of status and secret, not of that clock.

## What is proved

For every value of the constants, from the named assumptions of the modules
(`ReleaseAssumption`, `TimeAssumption` and `NoneAssumption` of `Installation`,
`RelayAssumption` and `NoneAssumption` of `OutboxRelay`, and so on for every module
with a theorem). Those on bounds say that a number is one; those on `None` that the
value for "no row" is no row, no state of a call and no number. `IdentityAssumption`
says that the run's constants name what they are to name: signed-in developers are
developers, the two calls that made Core's keys are two calls. `FlowAssumption` says
that the platform's store has room for the revisions 0 to 3 of the reference app,
that its deliveries are numbered 1 to 3, and that no caller uses an operator's key.

`InstallationProofs` proves `TypeCorrect`. `Shape` is `TypeOK` and `References`: what a
consumption, a token or a receipt points to exists. The proof goes action by action
and shows on the way which tables each action keeps (`Kept`).

Its second part proves `TokenAuthority`, `GrantFollowsRow`, `RowProvenance`,
`ConsentSpentOnce`, `RoutingExclusive` and `ProviderExclusive` by one inductive
invariant, `Safe`. None of them is inductive alone:

- `RowIdentity`: rows of different apps are different installations, and every row
  has announced itself. Without it a new installation could be given an id in use.
- `RowProvenance` says which of the two lifecycles a row belongs to, which
  `GrantFollowsRow` needs when the compatibility lifecycle writes a row.
- `TokensOwned`: a token belongs to a consumed installation, so that the trigger
  that ends a grant finds its tokens.
- `TxCurrent`: what the holder of the lock checked before its outgoing call still
  holds when it commits, because every writer of those tables needs the lock. This
  is the invariant that carries the correctness of calling out within a transaction.

`RowStepKeeps`, `QuietStep` and `WritingStep` say once what a step that touches one
row, or none, keeps; each action then shows what it does to its own row.

The third part uses `Safe` for two facts about steps. `WhoWritesAuthority`
sorts the steps by whether they write grants or tokens: consuming, activating,
issuing, or retiring a row, by whichever path. `AuthorityUnderDistribution` follows
with `TxCurrent`. For `ImplementsAccessAuthority` each of the four is one step of
`AccessAuthority`; retiring a row that has no authority (any more) is a stutter.
The mapping chooses the live token of an installation, so `TokenAuthority`, which
makes it unique, carries the argument (`TheLiveToken`, `CredentialStays`).

The last two parts are about what the lifecycle tells. An event is told with the
row it is about (`TellStep`), by every action that writes a row (`EveryStepTells`);
`Storied` adds to `EventsTellTheStory` that the kinds only rise (`Rises`), without
which "nothing is said twice" is not inductive. `Receipted` adds to
`ReceiptsMatchEffects` the receipts that are not there, and that the key which a
transaction found unused stays unused until it commits (`KeyHeld`): that is the lock
again, and what makes a retry that overtakes its first attempt harmless.

`OutboxRelayProofs` proves `TypeCorrect` (with `RowsAreHeld`: a relay's row is pending,
and no two relays hold the same one) and `NoEventIsLost`. Its invariant `Tracked`
says that what the broker has acknowledged or remembers is in the stream or has been
ingested, and that so has a routed message. The lemma `ReachKept` shows that
an event within reach never leaves it.

The end of `InstallationProofs` is about `EngineGrants` and builds on `Safe`.
`EnginesKeepTheLifecycle` says that the engines
only read, so that everything proved of `Installation` holds beside them. A kept
answer is behind its grant, or has its number and says what the grant says
(`HeardIsBehind`); `GrantAnswersCanBeOrdered` follows with `GrantStaysRevoked`, that the
lifecycle never revives a grant. `CheckHoldsRelease` carries
`EnginesActOnCurrentGrants`: once a check holds the release, the consumed
installation's release stays distributed until it is answered, and `ProviderExclusive`
makes the target unique at that moment.

`RemoteConnectionProofs` has three layers. `Shape` says who may do what while holding
the lifecycle lock (`HolderIsEntitled`, `HolderWaits`, `HolderIsGranted`) and what the
rows, callbacks and requests under way refer to; a revoked connection belongs to a
cleanup (`RevokedIsGone`), and `RevokedStaysRevoked` follows, because only a holder
writes credentials and a holder is entitled. `OneLive` needs that an exchange ends the
other grants of its installation and nothing else makes one that lives
(`OnlyExchangeGrants`). `NothingIsLeftBehind` is about requests the platform has
given up on: an installation is `Cut` when no grant of it is alive and every exchange
under way carries a code that is spent. `RevocationHolds` says that an acknowledged
revocation has cut its installation, and `CutStays` that nothing joins it again.

`WebhookDeliveryProofs`: a delivery is pending and due while a worker waits for its
answer (`HolderIsDue`), live grants belong to installations in use (`GrantsAreInUse`),
and there is an answer only after a receipt (`AnswersAreRecorded`). With these
`DeliveredOnce` is inductive; `UninstalledTakesNothing` is `GrantsAreInUse` at the
receiver, and `OutcomesNeverChange` goes through the steps that write a row.

`IdentityProofs` has one invariant for each credential, and a last part that puts
them together under the focus of a run.

- Portals: `AdminSessions`, and that a login has a session only when it is in
  (`LoginsAreIn`), so that the token a login brings is a new one and revives none.
- Merchant login: a finish that has taken the request holds it alone (`TakenIsHeld`),
  one that has locked the subject holds that (`SubjectIsHeld`), and what it found
  there is still so, which is why no insertion of a link conflicts.
- Core keys: `CallsKnow` says of every call what its stage knows of keys and requests;
  a call that may insert is alone with its request, and nobody has used it.
- Calls with keys: a registration that shares its key's row works with a key that is
  not revoked (`SharedIsGood`), because a revocation waits for it; and two
  registrations never both insert a merchant (`InsertedIsNew`).
- Clients: a probe of the client's present revision carries its present challenge
  (`ProbesAreAbout`); every change of a client is a `GoesOn`.

`WhatEndedStaysEnded` is the conjunction of what each part shows of its steps.

`PaymentProofs` proves, in its first half, everything the run `AnyApp` checks of the
platform.
`SaveMovesOn` is the heart: saving touches one payment, which keeps its identity and
goes back neither in revision nor in rank, and the caller is given what is stored
then. `HistoriesAreExact` needs in addition that an announced change of a payment
with a history is strictly beyond its status (`ChangesMoveOn`: the same revision with
another status, and a later revision with an earlier one, are contradictions), and
the case of a legacy row, whose first event may tell any status. `AnswersMoveOn` is not
inductive: it follows from `AnswersAreReached`, that the stored payment is at least
as far as every answer ever given. `PaymentsAreInvited` rests on three facts: entries
stay (`EntriesStay`), histories are only appended to (`HistoriesOnlyGrow`), and a
snapshot of an unknown payment is announced as the first event of its history. `StoreIsALedger` is the refinement of
`PaymentLedger`. No theorem mentions what the app does.

Its second half lifts that to Core. `NothingContradicts` shows that an event of an
exact history is never one Core has a reason to quarantine, and `ApplyKeepsCore` that
the row shown is the newest of the applied events; with it each step of Core is
a step of `PaymentLedger` or a stutter.

`PaymentFlowProofs` puts the reference app in the place of the arbitrary one. Its
invariant speaks of snapshots, wherever they are: in the app's books, under a key, in
a callback, in the answer on its way, in the platform's row (`IsTold`). `Chain` says that
all snapshots of a payment agree pairwise, a later revision being a later status, and
that none is beyond the books. This is what makes a late answer and a late callback
harmless in either order: the platform meets no contradiction, only news or old news.

- `Queued`: every revision of the books has a callback under its number, made in the
  transaction that made the revision; `Delivered`: one the platform has accepted is
  behind its row. `NoChangeIsLostSilently` follows from the two with `Chain`.
- `OneAwaited`: a request that is awaited is the only one, so that the answer that
  comes belongs to the call that holds the gate. Late requests are never awaited.
- `BookedByKey` ties a payment in the books to the key it was ordered under, which is
  what `KeysBookOnce` needs when a request arrives after its retry.
- `AnswersKeepTheirWord` is inductive with `Chain`, because the platform replaces an
  old answer only by a row that has got further.

`FlowIsAStore` is the refinement of `PaymentStore`: an invocation that ends and a
callback that is accepted are its two steps, everything else leaves the platform's
tables alone. So what `PaymentProofs` shows for every app holds here.

`PublishingProofs` is about `MCPublishing`, that is, the four modules from `AppAuthoring`
to `PrivateProducts` under any of the five focuses. What a step may do is said once
for each table (`SavedStep` to `PrivateStep`); every action is shown to do no more, and
the invariant and the action properties are shown of those steps. `PublishingInv` has two
halves. The first follows copies:

- `ReadsAreSaved`: what `submits` and `candidates` carry is to the letter what was saved
  or approved, because revisions are only appended and a decided submission does
  not change. `WhatIsSignedWasReviewed` follows with it, however late the commit
  is and however the draft was edited since.
- `RowsRefer`: the rows that name a release or an assignment name one there is.

The second follows locks:

- `HoldsRows` and `HoldsStore` say what a request knows at each step of the order release,
  assignment, client, launch, store. `HeldStays` shows that it goes on to know it:
  whoever would change one of these rows finds it held (`ReleaseHeld` to `TenantHeld`).
  At the last step that is everything `ReadsStayAuthorised` says of a reviewed app.
- An installing request commits at the end of that chain, which gives
  `CommitsRelyOnWhatIs` its part about stores (`InstallIsInstallable`). A request for an
  assignment, and an approval, hold only the release; what they know of assignments
  they look at again when they commit.
- `PrivateHolds` is the same chain for a private app, and `PrivateIsFirst` that its signed
  version is its first document for good: only a new app is given one, in the
  transaction that saves that document.

`WithdrawnNeverReturns` is a conjunct of the steps. What the theorems assume is that a
bound is a number, that `None` is none of the rows, documents or requests, and
`PublishingAssumption`: `First` and `Someone`, with which two focuses begin, are a
version and a store, and there is room for the release they begin with. The
invariant was checked by TLC on the instance of `Publishing` before it was proved.

## What is only model-checked

Liveness: `CleanupEnds`, `EveryEventSettles`, `EveryDeliverySettles` and
`EveryCallbackSettles`. They rest on fairness, whose `ENABLED` is beyond the prover,
so the instances of their runs are all that is known of them.

## What is not modelled

- Generated code (`pkg/sdk/gen`), contract packages that validate and sign
  immutable values, decoding, error mapping, lists and views: no state, or no step
  that changes it. Generated code alone is a quarter of the implementation's lines.
- Bootstrap, configuration, one-shot commands, dashboards, the developer CLI.
- Developer organisations and contacts: single rows without a protocol.
- `UIResourceInstallSource`, `PostgresResourceAssignments` and `ResourceClientSource`
  (`resourcerelease/source.go`), which only tests use; `Launcher.Open`, which only
  `cmd/embedded-demo` uses.
- The shipping profiles of capability invocation, which keep no payment.
- The loss of an advisory lock's session while its holder still works. Nothing in
  the code fences such a holder, and no document promises anything about it; the
  models let a holder work only while it holds its lock.
- Connection pools and rate limits, except as refusals.
