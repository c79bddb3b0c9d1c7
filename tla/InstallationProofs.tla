------------------------- MODULE InstallationProofs -------------------------
(***************************************************************************)
(* Theorems about Installation, for every value of its constants: its type *)
(* correctness, and its safety invariants.  None of these is inductive     *)
(* alone.  Together with what the lock protects (TxCurrent), the identity  *)
(* of rows (RowIdentity) and the shape of the tables they are.  Last comes *)
(* EngineGrants, whose engines do not disturb that.                        *)
(***************************************************************************)
EXTENDS InstallationAccess, EngineGrants, FiniteSetTheorems, TLAPS

(***************************************************************************)
(* Type correctness                                                        *)
(***************************************************************************)

USE DEF environment, access, consent, rows, compat

(* An event is appended, whatever the installation's story so far.         *)
LEMMA EmitGrows ==
    ASSUME TypeOK, NEW id \in Installations, NEW kind \in Kinds, Emit(id, kind)
    PROVE  /\ events' \in [Installations -> Seq(Kinds)]
           /\ events'[id] # <<>>
           /\ \A other \in Installations :
                 events[other] # <<>> => events'[other] # <<>>
  <1>1. events \in [Installations -> Seq(Kinds)]
    BY DEF TypeOK
  <1>2. events' = [events EXCEPT ![id] = Append(events[id], kind)]
    BY DEF Emit
  <1>3. Append(events[id], kind) \in Seq(Kinds) /\ Append(events[id], kind) # <<>>
    BY <1>1
  <1> QED
    BY <1>1, <1>2, <1>3

(* The update of a row to a retired status, with its trigger and event     *)
LEMMA RetireType ==
    ASSUME TypeOK, NEW a \in Apps, installs[a] # None,
           NEW status \in {"disabling", "uninstalled"}, Retire(a, status)
    PROVE  /\ installs' \in [Apps -> RowType \cup {None}]
           /\ grants' \in [Installations -> GrantType \cup {None}]
           /\ tokens' \in [Tokens -> TokenType \cup {None}]
           /\ events' \in [Installations -> Seq(Kinds)]
           /\ \A id \in Installations : events[id] # <<>> => events'[id] # <<>>
  <1>1. installs[a] \in RowType
    BY DEF TypeOK
  <1>2. installs' \in [Apps -> RowType \cup {None}]
    BY <1>1 DEF TypeOK, Retire, RowType, Statuses, Live
  <1>3. grants' \in [Installations -> GrantType \cup {None}]
    BY <1>1 DEF TypeOK, Retire, RevokeAccess, GrantType, RowType
  <1>4. tokens' \in [Tokens -> TokenType \cup {None}]
    <2>1. SUFFICES ASSUME NEW t \in Tokens, tokens[t] # None
                   PROVE  [tokens[t] EXCEPT !.revoked = TRUE] \in TokenType
      BY <2>1 DEF TypeOK, Retire, RevokeAccess
    <2> QED
      BY <2>1 DEF TypeOK, TokenType
  <1>5. /\ events' \in [Installations -> Seq(Kinds)]
        /\ \A id \in Installations : events[id] # <<>> => events'[id] # <<>>
    <2>1. installs[a].id \in Installations
      BY <1>1 DEF RowType
    <2>2. status \in Kinds
      BY DEF Kinds
    <2> QED
      BY <2>1, <2>2, EmitGrows DEF Retire
  <1> QED
    BY <1>2, <1>3, <1>4, <1>5

LEMMA RetiredStatusType ==
    ASSUME NEW profile
    PROVE  RetiredStatus(profile) \in {"disabling", "uninstalled"}
  BY DEF RetiredStatus

(* What the tables refer to exists: a consumption names a recorded intent  *)
(* and has announced its installation, and the transaction in progress     *)
(* names a recorded intent or a consumption, with the consented release.   *)
References ==
    /\ \A id \in Installations : consumptions[id] # None =>
          IntentOf(id) # None /\ events[id] # <<>>
    /\ tx # None => IF tx.op \in {"consent", "consume"}
                    THEN /\ intents[tx.intent] # None
                         /\ tx.release = intents[tx.intent].release
                    ELSE /\ consumptions[tx.ins] # None
                         /\ tx.release = ReleaseOf(tx.ins)

Shape == TypeOK /\ References

LEMMA ShapeInit == Init => Shape
  BY TimeAssumption DEF Init, Shape, TypeOK, References

LEMMA ConsumedType ==
    ASSUME Shape, NEW id \in Installations, consumptions[id] # None
    PROVE  /\ consumptions[id] \in ConsumptionType
           /\ consumptions[id].intent \in Intents
           /\ IntentOf(id) \in IntentType
           /\ ReleaseOf(id) \in Releases
           /\ AppOf(id) \in Apps
  <1>1. consumptions[id] \in ConsumptionType
    BY DEF Shape, TypeOK
  <1>2. IntentOf(id) \in IntentType
    BY <1>1 DEF Shape, TypeOK, References, IntentOf, ConsumptionType
  <1>3. ReleaseOf(id) \in Releases
    BY <1>2 DEF IntentType, ReleaseOf
  <1>4. AppOf(id) \in Apps
    BY <1>3, ReleaseAssumption DEF AppOf, ReleaseType
  <1> QED
    BY <1>1, <1>2, <1>3, <1>4 DEF ConsumptionType

(* Recorded facts are never rewritten: an intent keeps its snapshot, a     *)
(* consumption its intent; a story that has begun goes on.                 *)
Kept ==
    /\ \A i \in Intents : intents[i] # None =>
          /\ intents'[i] # None
          /\ intents'[i].release = intents[i].release
          /\ intents'[i].expires = intents[i].expires
    /\ \A id \in Installations : consumptions[id] # None =>
          consumptions'[id] = consumptions[id]
    /\ \A id \in Installations : events[id] # <<>> => events'[id] # <<>>

(* A step that consumes nothing and starts no transaction keeps References.*)
LEMMA ReferencesKept ==
    ASSUME Shape, Kept, consumptions' = consumptions, tx' = tx \/ tx' = None
    PROVE  References'
  <1>1. \A id \in Installations : consumptions[id] # None =>
            /\ IntentOf(id)' # None /\ events'[id] # <<>>
            /\ ReleaseOf(id)' = ReleaseOf(id)
    <2>1. TAKE id \in Installations
    <2>2. HAVE consumptions[id] # None
    <2>3. /\ consumptions[id].intent \in Intents /\ IntentOf(id) # None
          /\ events[id] # <<>>
      BY <2>2, ConsumedType DEF Shape, References
    <2> QED
      BY <2>3 DEF Kept, IntentOf, ReleaseOf
  <1>2. ASSUME tx' = tx, tx # None
        PROVE  IF tx.op \in {"consent", "consume"}
               THEN /\ intents'[tx.intent] # None
                    /\ tx.release = intents'[tx.intent].release
               ELSE /\ consumptions'[tx.ins] # None
                    /\ tx.release = ReleaseOf(tx.ins)'
    <2>1. tx \in TxType
      BY <1>2 DEF Shape, TypeOK
    <2>2. CASE tx.op \in {"consent", "consume"}
      <3>1. tx.intent \in Intents
        BY <2>1, <2>2 DEF TxType
      <3> QED
        BY <1>2, <2>2, <3>1 DEF Shape, References, Kept
    <2>3. CASE tx.op \notin {"consent", "consume"}
      <3>1. tx.ins \in Installations
        BY <2>1, <2>3 DEF TxType
      <3>2. consumptions[tx.ins] # None /\ tx.release = ReleaseOf(tx.ins)
        BY <1>2, <2>3 DEF Shape, References
      <3> QED
        BY <1>1, <1>2, <2>3, <3>1, <3>2 DEF ReleaseOf, IntentOf
    <2> QED
      BY <2>2, <2>3
  <1> QED
    BY <1>1, <1>2 DEF References

LEMMA KeptByDefault ==
    ASSUME intents' = intents, consumptions' = consumptions,
           \A id \in Installations : events[id] # <<>> => events'[id] # <<>>
    PROVE  Kept
  BY DEF Kept

Sound == Shape' /\ Kept

(* Each kind of step leaves every table with its shape.                    *)
LEMMA PrepareSound ==
    ASSUME Shape, NEW o \in Owners, NEW k \in Keys, NEW i \in Intents,
           NEW r \in Releases, Prepare(o, k, i, r)
    PROVE  Sound
  <1>1. now + IntentTTL \in Nat
    BY TimeAssumption DEF Shape, TypeOK
  <1>2. TypeOK'
    BY <1>1 DEF Shape, TypeOK, Prepare, IntentType, IntentReceiptType
  <1>3. Kept
    BY DEF Shape, TypeOK, Prepare, Kept
  <1>4. References'
    BY <1>3, ReferencesKept DEF Prepare
  <1> QED
    BY <1>2, <1>3, <1>4 DEF Sound, Shape

LEMMA DecisionSound ==
    ASSUME Shape, NEW o \in Owners, NEW k \in Keys, NEW i \in Intents,
           NEW op \in {"consent", "deny"}, NEW state \in {"consented", "denied"},
           intents[i] # None, RecordDecision(o, k, i, op, state),
           tx' \in {tx, None},
           UNCHANGED <<environment, rows, access, compat>>
    PROVE  Sound
  <1>1. intents[i] \in IntentType
    BY DEF Shape, TypeOK
  <1>2. [intents[i] EXCEPT !.state = state] \in IntentType
    BY <1>1 DEF IntentType
  <1>3. /\ [intents[i] EXCEPT !.state = state].release = intents[i].release
        /\ [intents[i] EXCEPT !.state = state].expires = intents[i].expires
    BY <1>1 DEF IntentType
  <1>4. intents' = [intents EXCEPT ![i] = [intents[i] EXCEPT !.state = state]]
    BY DEF RecordDecision
  <1>5. intentRequests' \subseteq IntentReceiptType
    BY DEF Shape, TypeOK, RecordDecision, IntentReceiptType
  <1>6. TypeOK'
    BY <1>2, <1>4, <1>5 DEF Shape, TypeOK
  <1>7. Kept
    BY <1>2, <1>3, <1>4, NoneAssumption DEF Shape, TypeOK, Kept
  <1>8. References'
    BY <1>7, ReferencesKept
  <1> QED
    BY <1>6, <1>7, <1>8 DEF Sound, Shape

LEMMA BeginSound ==
    ASSUME Shape, tx' \in TxType,
           UNCHANGED <<environment, consent, rows, access, compat>>,
           IF tx'.op \in {"consent", "consume"}
           THEN /\ intents[tx'.intent] # None
                /\ tx'.release = intents[tx'.intent].release
           ELSE /\ consumptions[tx'.ins] # None
                /\ tx'.release = ReleaseOf(tx'.ins)
    PROVE  Sound
  <1>1. TypeOK'
    BY DEF Shape, TypeOK
  <1>2. Kept
    BY KeptByDefault
  <1>3. References'
    BY DEF Shape, References, IntentOf, ReleaseOf
  <1> QED
    BY <1>1, <1>2, <1>3 DEF Sound, Shape

LEMMA AccessSound ==
    ASSUME Shape, NEW o \in Owners, NEW k \in Keys, NEW id \in Installations,
           Uninstall(o, k, id)
    PROVE  Sound
  <1>1. accessRequests' \subseteq AccessReceiptType
    BY DEF Shape, TypeOK, Uninstall, AccessReceipt, AccessReceiptType
  <1>2. AppOf(id) \in Apps
    BY ConsumedType DEF Uninstall, Accessible
  <1>3. /\ TypeOK'
        /\ \A n \in Installations : events[n] # <<>> => events'[n] # <<>>
    <2>1. CASE StatusOf(id) \in Live
      <3>1. installs[AppOf(id)] # None
        BY <2>1 DEF StatusOf, IsCurrent, Live
      <3>2. Retire(AppOf(id), RetiredStatus(ReleaseOf(id).profile))
        BY <2>1 DEF Uninstall
      <3> QED
        BY <1>1, <1>2, <3>1, <3>2, RetiredStatusType, RetireType
        DEF Shape, TypeOK, Uninstall
    <2>2. CASE StatusOf(id) \notin Live
      BY <1>1, <2>2 DEF Shape, TypeOK, Uninstall
    <2> QED
      BY <2>1, <2>2
  <1>4. Kept
    BY <1>3, KeptByDefault DEF Uninstall
  <1>5. References'
    BY <1>4, ReferencesKept DEF Uninstall
  <1> QED
    BY <1>3, <1>4, <1>5 DEF Sound, Shape

LEMMA OwnerSound ==
    ASSUME Shape, NEW o \in Owners, NEW k \in Keys, OwnerStep(o, k)
    PROVE  Sound
  <1>1. ASSUME NEW i \in Intents, Deny(o, k, i)
        PROVE  Sound
    BY <1>1, DecisionSound DEF Deny, Decidable
  <1>2. ASSUME NEW i \in Intents, BeginConsent(o, k, i)
        PROVE  Sound
    <2>1. intents[i] \in IntentType /\ intents[i] # None
      BY <1>2 DEF Shape, TypeOK, BeginConsent, Decidable
    <2>2. tx' \in TxType
      BY <1>2, <2>1 DEF BeginConsent, TxType, IntentType
    <2> QED
      BY <1>2, <2>1, <2>2, BeginSound DEF BeginConsent
  <1>3. ASSUME NEW i \in Intents, BeginConsume(o, k, i)
        PROVE  Sound
    <2>1. intents[i] \in IntentType /\ intents[i] # None
      BY <1>3 DEF Shape, TypeOK, BeginConsume
    <2>2. tx' \in TxType
      BY <1>3, <2>1 DEF BeginConsume, TxType, IntentType
    <2> QED
      BY <1>3, <2>1, <2>2, BeginSound DEF BeginConsume
  <1>4. ASSUME NEW id \in Installations,
               NEW op \in {"activate", "issue_token"}, BeginAccess(o, k, id, op)
        PROVE  Sound
    <2>1. consumptions[id] # None /\ ReleaseOf(id) \in Releases
      BY <1>4, ConsumedType DEF BeginAccess, Accessible
    <2>2. tx' \in TxType
      BY <1>4, <2>1 DEF BeginAccess, TxType
    <2> QED
      BY <1>4, <2>1, <2>2, BeginSound DEF BeginAccess
  <1> QED
    BY <1>1, <1>2, <1>3, <1>4, PrepareSound, AccessSound DEF OwnerStep

LEMMA CommitSound ==
    ASSUME Shape, CommitStep
    PROVE  Sound
  <1>1. ASSUME CommitConsent
        PROVE  Sound
    <2>1. /\ tx \in TxType /\ tx.op = "consent" /\ tx' = None
          /\ intents[tx.intent] # None
      BY <1>1 DEF Shape, TypeOK, References, CommitConsent
    <2>2. tx.owner \in Owners /\ tx.key \in Keys /\ tx.intent \in Intents
      BY <2>1 DEF TxType
    <2> QED
      BY <1>1, <2>1, <2>2, DecisionSound DEF CommitConsent
  <1>2. ASSUME NEW id \in Installations, CommitConsume(id)
        PROVE  Sound
    <2>1. /\ tx \in TxType /\ tx.op = "consume" /\ tx' = None
          /\ intents[tx.intent] # None
          /\ tx.release = intents[tx.intent].release
      BY <1>2 DEF Shape, TypeOK, References, CommitConsume
    <2>2. /\ tx.owner \in Owners /\ tx.key \in Keys /\ tx.intent \in Intents
          /\ tx.release \in Releases
      BY <2>1 DEF TxType
    <2>3. tx.release \in ReleaseType
      BY <2>2, ReleaseAssumption
    <2>4. consumptions[id] = None
      BY <1>2 DEF Shape, References, CommitConsume, Unused
    <2>5. /\ events' \in [Installations -> Seq(Kinds)]
          /\ events'[id] # <<>>
          /\ \A n \in Installations : events[n] # <<>> => events'[n] # <<>>
      <3>1. Emit(id, "installed") /\ "installed" \in Kinds
        BY <1>2 DEF CommitConsume, Kinds
      <3> QED
        BY <3>1, EmitGrows DEF Shape
    <2>6. /\ consumptions' = [consumptions EXCEPT ![id] =
                                [intent |-> tx.intent, at |-> now]]
          /\ [intent |-> tx.intent, at |-> now] \in ConsumptionType
          /\ intents' = intents
      BY <1>2, <2>2 DEF Shape, TypeOK, CommitConsume, ConsumptionType
    <2>7. Kept
      BY <2>4, <2>5, <2>6 DEF Shape, TypeOK, Kept
    <2>8. References'
      <3>1. consumptions'[id].intent = tx.intent
        BY <2>6 DEF Shape, TypeOK
      <3>2. \A n \in Installations \ {id} : consumptions'[n] = consumptions[n]
        BY <2>6 DEF Shape, TypeOK
      <3> QED
        BY <2>1, <2>5, <2>6, <3>1, <3>2 DEF Shape, References, IntentOf
    <2>9. installs' \in [Apps -> RowType \cup {None}]
      <3>1. RoutedCapabilities(tx.release) \in SUBSET Capabilities
        BY <2>3 DEF RoutedCapabilities, ReleaseType
      <3>2. [id |-> id, version |-> tx.release.version, status |-> "pending",
             scopes |-> tx.release.scopes,
             caps |-> RoutedCapabilities(tx.release),
             intent |-> tx.intent] \in RowType
        BY <2>2, <2>3, <3>1 DEF ReleaseType, RowType, Statuses, Live
      <3> QED
        BY <1>2, <3>2 DEF Shape, TypeOK, CommitConsume
    <2>10. grants' \in [Installations -> GrantType \cup {None}]
      BY <1>2 DEF Shape, TypeOK, CommitConsume, GrantType
    <2>11. accessRequests' \subseteq AccessReceiptType
      BY <1>2, <2>2 DEF Shape, TypeOK, CommitConsume, AccessReceipt,
                        AccessReceiptType
    <2>12. TypeOK'
      BY <1>2, <2>5, <2>6, <2>9, <2>10, <2>11
      DEF Shape, TypeOK, CommitConsume
    <2> QED
      BY <2>7, <2>8, <2>12 DEF Sound, Shape
  <1>3. ASSUME CommitActivate
        PROVE  Sound
    <2>1. /\ tx \in TxType /\ tx.op = "activate" /\ tx' = None
          /\ consumptions[tx.ins] # None /\ tx.release = ReleaseOf(tx.ins)
      BY <1>3 DEF Shape, TypeOK, References, CommitActivate
    <2>2. tx.owner \in Owners /\ tx.key \in Keys /\ tx.ins \in Installations
      BY <2>1 DEF TxType
    <2>3. /\ tx.release \in ReleaseType /\ tx.release.app \in Apps
          /\ AppOf(tx.ins) = tx.release.app
      BY <2>1, <2>2, ConsumedType, ReleaseAssumption DEF AppOf, ReleaseType
    <2>4. installs[tx.release.app] \in RowType
      BY <1>3, <2>3 DEF Shape, TypeOK, CommitActivate, StatusOf, IsCurrent
    <2>5. installs' \in [Apps -> RowType \cup {None}]
      BY <1>3, <2>3, <2>4
      DEF Shape, TypeOK, CommitActivate, RowType, Statuses, Live
    <2>6. grants' \in [Installations -> GrantType \cup {None}]
      BY <1>3, <2>3
      DEF Shape, TypeOK, CommitActivate, GrantType, ReleaseType
    <2>7. /\ events' \in [Installations -> Seq(Kinds)]
          /\ \A n \in Installations : events[n] # <<>> => events'[n] # <<>>
      BY <1>3, <2>2, EmitGrows DEF Shape, CommitActivate, Kinds
    <2>8. accessRequests' \subseteq AccessReceiptType
      BY <1>3, <2>2 DEF Shape, TypeOK, CommitActivate, AccessReceipt,
                        AccessReceiptType
    <2>9. Kept
      BY <1>3, <2>7, KeptByDefault DEF CommitActivate
    <2>10. References'
      BY <1>3, <2>9, ReferencesKept DEF CommitActivate
    <2>11. TypeOK'
      BY <1>3, <2>5, <2>6, <2>7, <2>8 DEF Shape, TypeOK, CommitActivate
    <2> QED
      BY <2>9, <2>10, <2>11 DEF Sound, Shape
  <1>4. ASSUME CommitActivateAgain
        PROVE  Sound
    <2>1. /\ tx \in TxType /\ tx.op = "activate"
      BY <1>4 DEF Shape, TypeOK, CommitActivateAgain
    <2>2. tx.owner \in Owners /\ tx.key \in Keys /\ tx.ins \in Installations
      BY <2>1 DEF TxType
    <2>3. Kept
      BY <1>4, KeptByDefault DEF CommitActivateAgain
    <2>4. References'
      BY <1>4, <2>3, ReferencesKept DEF CommitActivateAgain
    <2>5. TypeOK'
      BY <1>4, <2>2 DEF Shape, TypeOK, CommitActivateAgain, AccessReceipt,
                        AccessReceiptType
    <2> QED
      BY <2>3, <2>4, <2>5 DEF Sound, Shape
  <1>5. ASSUME NEW t \in Tokens, CommitIssueToken(t)
        PROVE  Sound
    <2>1. /\ tx \in TxType /\ tx.op = "issue_token"
      BY <1>5 DEF Shape, TypeOK, CommitIssueToken
    <2>2. tx.owner \in Owners /\ tx.key \in Keys /\ tx.ins \in Installations
      BY <2>1 DEF TxType
    <2>3. now + TokenTTL \in Nat
      BY TimeAssumption DEF Shape, TypeOK
    <2>4. tokens' \in [Tokens -> TokenType \cup {None}]
      <3>1. [ins |-> tx.ins, expires |-> now + TokenTTL, revoked |-> FALSE]
              \in TokenType
        BY <2>2, <2>3 DEF TokenType
      <3>2. ASSUME NEW u \in Tokens, tokens[u] # None
            PROVE  [tokens[u] EXCEPT !.revoked = TRUE] \in TokenType
        BY <3>2 DEF Shape, TypeOK, TokenType
      <3> QED
        BY <1>5, <3>1, <3>2 DEF Shape, TypeOK, CommitIssueToken
    <2>5. Kept
      BY <1>5, KeptByDefault DEF CommitIssueToken
    <2>6. References'
      BY <1>5, <2>5, ReferencesKept DEF CommitIssueToken
    <2>7. accessRequests' \subseteq AccessReceiptType
      BY <1>5, <2>2 DEF Shape, TypeOK, CommitIssueToken, AccessReceipt,
                        AccessReceiptType
    <2>8. TypeOK'
      BY <1>5, <2>4, <2>7 DEF Shape, TypeOK, CommitIssueToken
    <2> QED
      BY <2>5, <2>6, <2>8 DEF Sound, Shape
  <1>6. ASSUME Rollback
        PROVE  Sound
    <2>1. Kept
      BY <1>6, KeptByDefault DEF Rollback
    <2>2. References'
      BY <1>6, <2>1, ReferencesKept DEF Rollback
    <2>3. TypeOK'
      BY <1>6 DEF Shape, TypeOK, Rollback
    <2> QED
      BY <2>1, <2>2, <2>3 DEF Sound, Shape
  <1> QED
    BY <1>1, <1>2, <1>3, <1>4, <1>5, <1>6 DEF CommitStep

(* What a legacy request leaves alone, and the receipt it writes           *)
LEMMA LegacyCommitShape ==
    ASSUME Shape, NEW u \in Users,
           NEW type \in {"install", "activate", "uninstall"},
           LegacyCommit(u, type)
    PROVE  /\ legacy[u] \in LegacyType /\ legacy[u].type = type
           /\ legacy' \in [Users -> LegacyType \cup {None}]
           /\ idempotency' \subseteq IdempotencyType
           /\ UNCHANGED <<environment, consent, consumptions, accessRequests, tx>>
  <1>1. legacy[u] \in LegacyType /\ legacy[u].type = type
    BY DEF Shape, TypeOK, LegacyCommit
  <1>2. legacy' \in [Users -> LegacyType \cup {None}]
    BY DEF Shape, TypeOK, LegacyCommit
  <1>3. [owner |-> u, key |-> legacy[u].key, op |-> type,
         app |-> legacy[u].manifest.app] \in IdempotencyType
    BY <1>1, ReleaseAssumption DEF LegacyType, IdempotencyType, ReleaseType
  <1>4. idempotency' \subseteq IdempotencyType
    BY <1>3 DEF Shape, TypeOK, LegacyCommit
  <1> QED
    BY <1>1, <1>2, <1>4 DEF LegacyCommit

LEMMA LegacySound ==
    ASSUME Shape, NEW u \in Users, LegacyStep(u)
    PROVE  Sound
  <1>1. ASSUME NEW k \in Keys, NEW type \in {"install", "activate", "uninstall"},
               NEW r \in Releases, LegacyRead(u, k, type, r)
        PROVE  Sound
    <2>1. r.app \in Apps
      BY ReleaseAssumption DEF ReleaseType
    <2>2. TypeOK'
      BY <1>1, <2>1 DEF Shape, TypeOK, LegacyRead, LegacyType
    <2>3. Kept
      BY <1>1, KeptByDefault DEF LegacyRead
    <2>4. References'
      BY <1>1, <2>3, ReferencesKept DEF LegacyRead
    <2> QED
      BY <2>2, <2>3, <2>4 DEF Sound, Shape
  <1>2. ASSUME LegacyRefuse(u)
        PROVE  Sound
    <2>1. TypeOK'
      BY <1>2 DEF Shape, TypeOK, LegacyRefuse
    <2>2. Kept
      BY <1>2, KeptByDefault DEF LegacyRefuse
    <2>3. References'
      BY <1>2, <2>2, ReferencesKept DEF LegacyRefuse
    <2> QED
      BY <2>1, <2>2, <2>3 DEF Sound, Shape
  <1>3. ASSUME NEW id \in Installations, LegacyInstall(u, id)
        PROVE  Sound
    <2> DEFINE r   == legacy[u].manifest
               new == [id |-> id, version |-> r.version, status |-> "pending",
                       scopes |-> r.scopes, caps |-> r.caps,
                       intent |-> IF installs[r.app] = None THEN None
                                  ELSE installs[r.app].intent]
    <2>1. LegacyCommit(u, "install")
      BY <1>3 DEF LegacyInstall
    <2>2. r \in Releases /\ r \in ReleaseType
      BY <2>1, LegacyCommitShape, ReleaseAssumption DEF LegacyType
    <2>3. new.intent \in Intents \cup {None}
      BY <2>2 DEF Shape, TypeOK, RowType, ReleaseType
    <2>4. new \in RowType
      BY <2>2, <2>3 DEF RowType, ReleaseType, Statuses, Live
    <2>5. installs' \in [Apps -> RowType \cup {None}]
      BY <1>3, <2>4 DEF Shape, TypeOK, LegacyInstall
    <2>6. /\ events' \in [Installations -> Seq(Kinds)]
          /\ \A n \in Installations : events[n] # <<>> => events'[n] # <<>>
      BY <1>3, EmitGrows DEF Shape, LegacyInstall, Kinds
    <2>7. grants' = grants /\ tokens' = tokens
      BY <1>3 DEF LegacyInstall
    <2> HIDE DEF r, new
    <2>8. TypeOK'
      BY <2>1, <2>5, <2>6, <2>7, LegacyCommitShape DEF Shape, TypeOK
    <2>9. Kept
      BY <2>1, <2>6, LegacyCommitShape, KeptByDefault
    <2>10. References'
      BY <2>1, <2>9, LegacyCommitShape, ReferencesKept
    <2> QED
      BY <2>8, <2>9, <2>10 DEF Sound, Shape
  <1>4. ASSUME LegacyActivate(u)
        PROVE  Sound
    <2> DEFINE a == legacy[u].manifest.app
    <2>1. LegacyCommit(u, "activate")
      BY <1>4 DEF LegacyActivate
    <2>2. a \in Apps
      BY <2>1, LegacyCommitShape, ReleaseAssumption DEF LegacyType, ReleaseType
    <2>3. installs[a] \in RowType
      BY <1>4, <2>2 DEF Shape, TypeOK, LegacyActivate, AppStatus
    <2>4. installs' \in [Apps -> RowType \cup {None}]
      BY <1>4, <2>2, <2>3
      DEF Shape, TypeOK, LegacyActivate, RowType, Statuses, Live
    <2>5. /\ events' \in [Installations -> Seq(Kinds)]
          /\ \A n \in Installations : events[n] # <<>> => events'[n] # <<>>
      <3>1. installs[a].id \in Installations
        BY <2>3 DEF RowType
      <3>2. Emit(installs[a].id, "activated") /\ "activated" \in Kinds
        BY <1>4 DEF LegacyActivate, Kinds
      <3> QED
        BY <3>1, <3>2, EmitGrows DEF Shape
    <2>6. grants' = grants /\ tokens' = tokens
      BY <1>4 DEF LegacyActivate
    <2> HIDE DEF a
    <2>7. TypeOK'
      BY <2>1, <2>4, <2>5, <2>6, LegacyCommitShape DEF Shape, TypeOK
    <2>8. Kept
      BY <2>1, <2>5, LegacyCommitShape, KeptByDefault
    <2>9. References'
      BY <2>1, <2>8, LegacyCommitShape, ReferencesKept
    <2> QED
      BY <2>7, <2>8, <2>9 DEF Sound, Shape
  <1>5. ASSUME LegacyUninstall(u)
        PROVE  Sound
    <2> DEFINE r == legacy[u].manifest
    <2>1. LegacyCommit(u, "uninstall")
      BY <1>5 DEF LegacyUninstall
    <2>2. r.app \in Apps
      BY <2>1, LegacyCommitShape, ReleaseAssumption DEF LegacyType, ReleaseType
    <2>3. installs[r.app] # None
      BY <1>5 DEF LegacyUninstall, AppStatus, Live
    <2>4. Retire(r.app, RetiredStatus(r.profile))
      BY <1>5 DEF LegacyUninstall
    <2> HIDE DEF r
    <2>5. /\ installs' \in [Apps -> RowType \cup {None}]
          /\ grants' \in [Installations -> GrantType \cup {None}]
          /\ tokens' \in [Tokens -> TokenType \cup {None}]
          /\ events' \in [Installations -> Seq(Kinds)]
          /\ \A n \in Installations : events[n] # <<>> => events'[n] # <<>>
      BY <2>2, <2>3, <2>4, RetiredStatusType, RetireType DEF Shape
    <2>6. TypeOK'
      BY <2>1, <2>5, LegacyCommitShape DEF Shape, TypeOK
    <2>7. Kept
      BY <2>1, <2>5, LegacyCommitShape, KeptByDefault
    <2>8. References'
      BY <2>1, <2>7, LegacyCommitShape, ReferencesKept
    <2> QED
      BY <2>6, <2>7, <2>8 DEF Sound, Shape
  <1>6. ASSUME LegacyUnchanged(u)
        PROVE  Sound
    <2>1. PICK type \in {"install", "activate", "uninstall"} :
                  LegacyCommit(u, type)
      BY <1>6 DEF LegacyUnchanged
    <2>2. UNCHANGED <<installs, events, grants, tokens>>
      BY <1>6 DEF LegacyUnchanged
    <2>3. TypeOK'
      BY <2>1, <2>2, LegacyCommitShape DEF Shape, TypeOK
    <2>4. Kept
      BY <2>1, <2>2, LegacyCommitShape, KeptByDefault
    <2>5. References'
      BY <2>1, <2>4, LegacyCommitShape, ReferencesKept
    <2> QED
      BY <2>3, <2>4, <2>5 DEF Sound, Shape
  <1> QED
    BY <1>1, <1>2, <1>3, <1>4, <1>5, <1>6 DEF LegacyStep

LEMMA CleanupSound ==
    ASSUME Shape, NEW a \in Apps, CompleteCleanup(a)
    PROVE  Sound
  <1>1. installs[a] # None /\ Retire(a, "uninstalled")
    BY DEF CompleteCleanup
  <1>2. installs[a].id \in Installations
    BY <1>1 DEF Shape, TypeOK, RowType
  <1>3. idempotency' \subseteq IdempotencyType
    BY <1>2 DEF Shape, TypeOK, CompleteCleanup, IdempotencyType
  <1>4. /\ installs' \in [Apps -> RowType \cup {None}]
        /\ grants' \in [Installations -> GrantType \cup {None}]
        /\ tokens' \in [Tokens -> TokenType \cup {None}]
        /\ events' \in [Installations -> Seq(Kinds)]
        /\ \A n \in Installations : events[n] # <<>> => events'[n] # <<>>
    BY <1>1, RetireType DEF Shape
  <1>5. UNCHANGED <<environment, consent, consumptions, accessRequests,
                    legacy, tx>>
    BY DEF CompleteCleanup
  <1>6. TypeOK'
    BY <1>3, <1>4, <1>5 DEF Shape, TypeOK
  <1>7. Kept
    BY <1>4, <1>5, KeptByDefault
  <1>8. References'
    BY <1>5, <1>7, ReferencesKept
  <1> QED
    BY <1>6, <1>7, <1>8 DEF Sound, Shape

LEMMA EnvironmentSound ==
    ASSUME Shape, EnvironmentStep
    PROVE  Sound
  <1>1. UNCHANGED <<consent, rows, access, compat, tx>>
    BY DEF EnvironmentStep, Tick, SeedRelease, Distribute, StopDistribution
  <1>2. /\ now' \in Nat /\ registry' \subseteq Releases
        /\ distributed' \subseteq Releases /\ withdrawn' \subseteq Releases
    BY DEF Shape, TypeOK, EnvironmentStep, Tick, SeedRelease, Distribute,
           StopDistribution
  <1>3. TypeOK'
    BY <1>1, <1>2 DEF Shape, TypeOK
  <1>4. Kept
    BY <1>1, KeptByDefault
  <1>5. References'
    BY <1>1, <1>4, ReferencesKept
  <1> QED
    BY <1>3, <1>4, <1>5 DEF Sound, Shape

LEMMA NextSound ==
    ASSUME Shape, Next
    PROVE  Sound
  BY OwnerSound, CommitSound, LegacySound, CleanupSound, EnvironmentSound
  DEF Next

LEMMA StutterSound ==
    ASSUME Shape, UNCHANGED vars
    PROVE  Sound
  <1>1. Kept
    BY KeptByDefault DEF vars
  <1>2. References'
    BY <1>1, ReferencesKept DEF vars
  <1>3. TypeOK'
    BY DEF Shape, TypeOK, vars
  <1> QED
    BY <1>1, <1>2, <1>3 DEF Sound, Shape

LEMMA ShapeAlways == Spec => []Shape
  <1>1. Init => Shape
    BY ShapeInit
  <1>2. Shape /\ [Next]_vars => Shape'
    BY NextSound, StutterSound DEF Sound
  <1> QED
    BY <1>1, <1>2, PTL DEF Spec

(* Every table keeps its shape, whatever the handlers interleave.          *)
THEOREM TypeCorrect == Spec => []TypeOK
  <1>1. Shape => TypeOK
    BY DEF Shape
  <1> QED
    BY <1>1, ShapeAlways, PTL

-----------------------------------------------------------------------------

(***************************************************************************)
(* Safety                                                                  *)
(***************************************************************************)

(* A row is the only one of its installation, which it has announced.      *)
RowIdentity ==
    /\ \A a \in Apps : installs[a] # None => events[installs[a].id] # <<>>
    /\ \A a, b \in Apps :
          /\ installs[a] # None /\ installs[b] # None
          /\ installs[a].id = installs[b].id
          => a = b

TokensOwned ==
    \A t \in Tokens : tokens[t] # None => consumptions[tokens[t].ins] # None

(* What a transaction checked when it took the lock holds until it ends.   *)
TxCurrent ==
    tx # None =>
        /\ tx.op = "consent" => intents[tx.intent].state = "pending"
        /\ tx.op = "consume" => /\ intents[tx.intent].state = "consented"
                                /\ ~Consumed(tx.intent)
        /\ tx.op = "issue_token" => StatusOf(tx.ins) = "active"
        /\ Sourced(tx.release) => tx.release \in distributed

Safe ==
    /\ Shape
    /\ RowIdentity
    /\ RowProvenance
    /\ GrantFollowsRow
    /\ TokensOwned
    /\ TokenAuthority
    /\ ConsentSpentOnce
    /\ RoutingExclusive
    /\ ProviderExclusive
    /\ TxCurrent

(* A decision is taken once: what is no longer pending stays as it is.     *)
Settled ==
    \A i \in Intents : intents[i] # None /\ intents[i].state # "pending" =>
        intents'[i].state = intents[i].state

LEMMA SafeInit == Init => Safe
  <1> SUFFICES ASSUME Init PROVE Safe
    OBVIOUS
  <1>1. Shape
    BY ShapeInit
  <1>2. RowIdentity /\ RowProvenance /\ TokensOwned /\ TokenAuthority
    BY DEF Init, RowIdentity, RowProvenance, TokensOwned, TokenAuthority,
           LiveToken
  <1>3. GrantFollowsRow /\ ConsentSpentOnce
    BY DEF Init, GrantFollowsRow, ConsentSpentOnce
  <1>4. RoutingExclusive /\ ProviderExclusive /\ TxCurrent
    BY DEF Init, RoutingExclusive, ProviderExclusive, ServesEngine, TxCurrent
  <1> QED
    BY <1>1, <1>2, <1>3, <1>4 DEF Safe

(***************************************************************************)
(* Steps that leave rows, grants, tokens and consumptions alone            *)
(***************************************************************************)

LEMMA ViewUnchanged ==
    ASSUME Shape, Kept, UNCHANGED <<installs, consumptions>>,
           NEW id \in Installations, consumptions[id] # None
    PROVE  /\ IntentOf(id)'.release = IntentOf(id).release
           /\ IntentOf(id)'.expires = IntentOf(id).expires
           /\ ReleaseOf(id)' = ReleaseOf(id)
           /\ AppOf(id)' = AppOf(id)
           /\ StatusOf(id)' = StatusOf(id)
           /\ RowAgrees(id)' <=> RowAgrees(id)
           /\ DueGrant(id)' = DueGrant(id)
  <1>1. consumptions[id].intent \in Intents /\ IntentOf(id) # None
    BY ConsumedType DEF Shape, References
  <1> QED
    BY <1>1 DEF Kept, IntentOf, ReleaseOf, AppOf, StatusOf, IsCurrent, RowAgrees,
                RoutedCapabilities, DueGrant

(* The invariants about rows and tokens stay when their tables do.         *)
RowInvariants ==
    /\ RowIdentity
    /\ RowProvenance
    /\ GrantFollowsRow
    /\ TokensOwned
    /\ TokenAuthority
    /\ RoutingExclusive
    /\ ProviderExclusive

LEMMA SameRows ==
    ASSUME Safe, Kept, UNCHANGED <<installs, consumptions, grants>>
    PROVE  /\ RowIdentity' /\ RowProvenance' /\ GrantFollowsRow'
           /\ RoutingExclusive' /\ ProviderExclusive'
  <1>1. RowIdentity'
    <2>1. \A a \in Apps : installs[a] # None => installs[a].id \in Installations
      BY DEF Safe, Shape, TypeOK, RowType
    <2> QED
      BY <2>1 DEF Safe, Kept, RowIdentity
  <1>2. RowProvenance'
    <2>1. SUFFICES ASSUME NEW a \in Apps, installs[a] # None,
                          consumptions[installs[a].id] # None
                   PROVE  AppOf(installs[a].id)' = AppOf(installs[a].id)
      BY DEF Safe, RowProvenance
    <2>2. installs[a].id \in Installations
      BY <2>1 DEF Safe, Shape, TypeOK, RowType
    <2> QED
      BY <2>1, <2>2, ViewUnchanged DEF Safe
  <1>3. GrantFollowsRow'
    <2>1. SUFFICES ASSUME NEW id \in Installations, consumptions[id] # None
                   PROVE  /\ grants[id] = DueGrant(id)'
                          /\ StatusOf(id)' \in Live => RowAgrees(id)'
      BY DEF Safe, GrantFollowsRow
    <2>2. /\ DueGrant(id)' = DueGrant(id)
          /\ StatusOf(id)' = StatusOf(id)
          /\ RowAgrees(id)' <=> RowAgrees(id)
      BY <2>1, ViewUnchanged DEF Safe
    <2> QED
      BY <2>1, <2>2 DEF Safe, GrantFollowsRow
  <1>4. RoutingExclusive'
    BY DEF Safe, RoutingExclusive
  <1>5. ProviderExclusive'
    <2>1. \A id \in Installations : consumptions[id] # None =>
              ReleaseOf(id)' = ReleaseOf(id) /\ StatusOf(id)' = StatusOf(id)
      BY ViewUnchanged DEF Safe
    <2> QED
      BY <2>1 DEF Safe, ProviderExclusive, ServesEngine
  <1> QED
    BY <1>1, <1>2, <1>3, <1>4, <1>5

LEMMA TablesUnchanged ==
    ASSUME Safe, Kept, UNCHANGED <<installs, consumptions, grants, tokens>>
    PROVE  RowInvariants'
  <1>1. TokensOwned'
    BY DEF Safe, TokensOwned
  <1>2. TokenAuthority'
    <2>1. SUFFICES ASSUME NEW t \in Tokens, LiveToken(t)
                   PROVE  /\ consumptions[tokens[t].ins] # None
                          /\ StatusOf(tokens[t].ins)' = "active"
                          /\ grants[tokens[t].ins].state = "active"
                          /\ grants[tokens[t].ins].scopes
                                = ReleaseOf(tokens[t].ins)'.scopes
                          /\ \A u \in Tokens :
                                LiveToken(u) /\ tokens[u].ins = tokens[t].ins
                                => u = t
      BY DEF TokenAuthority, LiveToken
    <2>2. /\ tokens[t].ins \in Installations
          /\ consumptions[tokens[t].ins] # None
      BY <2>1 DEF Safe, Shape, TypeOK, TokenType, LiveToken, TokenAuthority
    <2> QED
      BY <2>1, <2>2, ViewUnchanged DEF Safe, TokenAuthority
  <1> QED
    BY <1>1, <1>2, SameRows DEF RowInvariants

LEMMA ConsentsUnchanged ==
    ASSUME Safe, Kept, Settled, UNCHANGED consumptions
    PROVE  ConsentSpentOnce'
  <1>1. SUFFICES ASSUME NEW id \in Installations, consumptions[id] # None
                 PROVE  /\ IntentOf(id)'.state = "consented"
                        /\ IntentOf(id)'.expires = IntentOf(id).expires
    BY DEF Safe, ConsentSpentOnce
  <1>2. consumptions[id].intent \in Intents /\ IntentOf(id) # None
    BY <1>1, ConsumedType DEF Safe, Shape, References
  <1> QED
    BY <1>1, <1>2 DEF Safe, ConsentSpentOnce, IntentOf, Kept, Settled

(***************************************************************************)
(* Steps that write one row: app a, whose row is then of installation n    *)
(***************************************************************************)

(* The row written is either that of n already, or a retired one that the  *)
(* new installation n takes over.                                          *)
RowStep(a, n) ==
    /\ installs'[a] # None /\ installs'[a].id = n
    /\ \A b \in Apps \ {a} : installs'[b] = installs[b]
    /\ \/ AppStatus(a) = "uninstalled" /\ Unused(n)
       \/ installs[a] # None /\ installs[a].id = n
    /\ events'[n] # <<>>
    /\ \A id \in Installations \ {n} : /\ consumptions'[id] = consumptions[id]
                                       /\ grants'[id] = grants[id]

(* What the step makes of n: a compatibility row, or a consented one       *)
RowResult(a, n) ==
    IF consumptions'[n] = None
    THEN installs'[a].intent = None /\ grants'[n] = None
    ELSE /\ AppOf(n)' = a
         /\ installs'[a].intent = consumptions'[n].intent
         /\ grants'[n] = DueGrant(n)'
         /\ StatusOf(n)' \in Live => RowAgrees(n)'

LEMMA Elsewhere ==
    ASSUME Shape, Kept, NEW a \in Apps, NEW n \in Installations, RowStep(a, n),
           NEW id \in Installations \ {n}, consumptions[id] # None
    PROVE  /\ ReleaseOf(id)' = ReleaseOf(id)
           /\ AppOf(id)' = AppOf(id)
           /\ StatusOf(id)' = StatusOf(id)
           /\ StatusOf(id) \in Live => (RowAgrees(id)' <=> RowAgrees(id))
           /\ DueGrant(id)' = DueGrant(id)
  <1>1. consumptions[id].intent \in Intents /\ IntentOf(id) # None
    BY ConsumedType DEF Shape, References
  <1>2. AppOf(id) \in Apps
    BY ConsumedType
  <1>3. consumptions'[id] = consumptions[id]
    BY DEF RowStep
  <1>4. ReleaseOf(id)' = ReleaseOf(id) /\ AppOf(id)' = AppOf(id)
    BY <1>1, <1>3 DEF Kept, IntentOf, ReleaseOf, AppOf
  <1>5. CASE AppOf(id) = a
    <2>1. StatusOf(id)' = "uninstalled"
      BY <1>4, <1>5 DEF RowStep, StatusOf, IsCurrent
    <2>2. StatusOf(id) = "uninstalled"
      BY <1>5 DEF RowStep, StatusOf, IsCurrent, AppStatus
    <2> QED
      BY <1>4, <2>1, <2>2 DEF DueGrant, Live
  <1>6. CASE AppOf(id) # a
    <2>1. installs'[AppOf(id)] = installs[AppOf(id)]
      BY <1>2, <1>6 DEF RowStep
    <2>2. StatusOf(id)' = StatusOf(id)
      BY <1>4, <2>1 DEF StatusOf, IsCurrent
    <2>3. RowAgrees(id)' <=> RowAgrees(id)
      BY <1>3, <1>4, <2>1 DEF RowAgrees, RoutedCapabilities
    <2> QED
      BY <1>4, <2>2, <2>3 DEF DueGrant
  <1> QED
    BY <1>5, <1>6

(* The rows' identity, provenance and grants after such a step             *)
LEMMA RowStepKeeps ==
    ASSUME Safe, Sound, NEW a \in Apps, NEW n \in Installations,
           RowStep(a, n), RowResult(a, n)
    PROVE  /\ RowIdentity'
           /\ RowProvenance'
           /\ GrantFollowsRow'
  <1> USE DEF Sound
  <1>1. \A b \in Apps : installs[b] # None => installs[b].id \in Installations
    BY DEF Safe, Shape, TypeOK, RowType
  <1>2. \A b \in Apps \ {a} : installs[b] # None => installs[b].id # n
    BY DEF RowStep, Safe, RowIdentity, Unused
  <1>3. RowIdentity'
    BY <1>1, <1>2 DEF Safe, RowStep, RowIdentity, Kept
  <1>4. RowProvenance'
    <2>1. SUFFICES ASSUME NEW b \in Apps, installs'[b] # None,
                          NEW id \in Installations, id = installs'[b].id
                   PROVE  IF installs'[b].intent = None
                          THEN consumptions'[id] = None
                          ELSE /\ consumptions'[id] # None
                               /\ consumptions'[id].intent = installs'[b].intent
                               /\ AppOf(id)' = b
      <3>1. \A b \in Apps : installs'[b] # None =>
                installs'[b].id \in Installations
        BY DEF Shape, TypeOK, RowType
      <3> QED
        BY <3>1 DEF RowProvenance, AppOf, ReleaseOf, IntentOf
    <2>2. CASE b = a
      <3>1. id = n
        BY <2>1, <2>2 DEF RowStep
      <3>2. consumptions'[n] # None => consumptions'[n].intent # None
        BY NoneAssumption DEF Shape, TypeOK, ConsumptionType
      <3> QED
        BY <2>2, <3>1, <3>2 DEF RowResult
    <2>3. CASE b # a
      <3>1. installs'[b] = installs[b] /\ installs[b] # None
        BY <2>1, <2>3 DEF RowStep
      <3>2. id = installs[b].id /\ id \in Installations \ {n}
        BY <1>1, <1>2, <2>1, <2>3, <3>1
      <3>3. consumptions'[id] = consumptions[id]
        BY <3>2 DEF RowStep
      <3>4. consumptions[id] # None => AppOf(id)' = AppOf(id)
        BY <3>2, Elsewhere DEF Safe
      <3>5. IF installs[b].intent = None THEN consumptions[id] = None
            ELSE /\ consumptions[id] # None
                 /\ consumptions[id].intent = installs[b].intent
                 /\ AppOf(id) = b
        BY <3>1, <3>2 DEF Safe, RowProvenance, AppOf, ReleaseOf, IntentOf
      <3> QED
        BY <3>1, <3>3, <3>4, <3>5
    <2> QED
      BY <2>2, <2>3
  <1>5. GrantFollowsRow'
    <2>1. SUFFICES ASSUME NEW id \in Installations
                   PROVE  IF consumptions'[id] = None THEN grants'[id] = None
                          ELSE /\ grants'[id] = DueGrant(id)'
                               /\ StatusOf(id)' \in Live => RowAgrees(id)'
      BY DEF GrantFollowsRow
    <2>2. CASE id = n
      BY <2>2 DEF RowResult
    <2>3. CASE id # n
      <3>1. consumptions'[id] = consumptions[id] /\ grants'[id] = grants[id]
        BY <2>3 DEF RowStep
      <3>2. consumptions[id] # None =>
                /\ DueGrant(id)' = DueGrant(id)
                /\ StatusOf(id)' = StatusOf(id)
                /\ StatusOf(id) \in Live => (RowAgrees(id)' <=> RowAgrees(id))
        BY <2>3, Elsewhere DEF Safe
      <3> QED
        BY <3>1, <3>2 DEF Safe, GrantFollowsRow
    <2> QED
      BY <2>2, <2>3
  <1> QED
    BY <1>3, <1>4, <1>5

(* Live tokens that the step does not touch keep their authority.          *)
LEMMA TokensElsewhere ==
    ASSUME Safe, Kept, NEW a \in Apps, NEW n \in Installations, RowStep(a, n),
           \A t \in Tokens : tokens'[t] # None =>
               tokens[t] # None /\ tokens'[t].ins = tokens[t].ins,
           \A t \in Tokens : LiveToken(t)' =>
               LiveToken(t) /\ tokens[t].ins # n
    PROVE  TokensOwned' /\ TokenAuthority'
  <1>1. \A t \in Tokens : tokens[t] # None => tokens[t].ins \in Installations
    BY DEF Safe, Shape, TypeOK, TokenType
  <1>2. TokensOwned'
    BY <1>1 DEF Safe, TokensOwned, Kept
  <1>3. ASSUME NEW t \in Tokens, LiveToken(t)',
               NEW id \in Installations, id = tokens'[t].ins
        PROVE  /\ consumptions'[id] # None
               /\ StatusOf(id)' = "active"
               /\ grants'[id].state = "active"
               /\ grants'[id].scopes = ReleaseOf(id)'.scopes
               /\ \A u \in Tokens : LiveToken(u)' /\ tokens'[u].ins = id => u = t
    <2>1. LiveToken(t) /\ tokens[t].ins = id /\ id # n
      BY <1>3 DEF LiveToken
    <2>2. /\ consumptions[id] # None
          /\ StatusOf(id) = "active"
          /\ grants[id].state = "active"
          /\ grants[id].scopes = ReleaseOf(id).scopes
      BY <2>1 DEF Safe, TokenAuthority
    <2>3. consumptions'[id] = consumptions[id] /\ grants'[id] = grants[id]
      BY <2>1 DEF RowStep
    <2>4. StatusOf(id)' = StatusOf(id) /\ ReleaseOf(id)' = ReleaseOf(id)
      BY <2>1, <2>2, Elsewhere DEF Safe
    <2>5. \A u \in Tokens : LiveToken(u)' /\ tokens'[u].ins = id => u = t
      BY <2>1 DEF Safe, TokenAuthority, LiveToken
    <2> QED
      BY <2>2, <2>3, <2>4, <2>5
  <1>4. \A t \in Tokens : LiveToken(t)' => tokens'[t].ins \in Installations
    BY <1>1 DEF LiveToken
  <1> QED
    BY <1>2, <1>3, <1>4 DEF TokenAuthority, StatusOf, IsCurrent, AppOf, ReleaseOf,
                            IntentOf

(* Exclusiveness only has to be looked at where the row was written.       *)
LEMMA ExclusiveElsewhere ==
    ASSUME Safe, Kept, NEW a \in Apps, NEW n \in Installations,
           RowStep(a, n), RowResult(a, n),
           installs'[a].status = "active" =>
               /\ ~CapabilityBusy(n, installs'[a].caps)
               /\ ServesEngine(n)' => ~ProviderBusy(n, ReleaseOf(n)')
    PROVE  RoutingExclusive' /\ ProviderExclusive'
  <1>1. \A b \in Apps \ {a} : installs[b] # None => installs[b].id # n
    BY DEF RowStep, Safe, RowIdentity, Unused
  <1>2. RoutingExclusive'
    <2>1. ASSUME NEW b \in Apps \ {a}, installs'[a].status = "active",
                 installs'[b] # None, installs'[b].status = "active"
          PROVE  installs'[a].caps \cap installs'[b].caps = {}
      <3>1. installs'[b] = installs[b] /\ installs[b].id # n
        BY <1>1, <2>1 DEF RowStep
      <3> QED
        BY <2>1, <3>1 DEF CapabilityBusy
    <2>2. ASSUME NEW b \in Apps \ {a}, NEW c \in Apps \ {a}, b # c,
                 installs'[b] # None, installs'[b].status = "active",
                 installs'[c] # None, installs'[c].status = "active"
          PROVE  installs'[b].caps \cap installs'[c].caps = {}
      BY <2>2 DEF RowStep, Safe, RoutingExclusive
    <2> QED
      BY <2>1, <2>2 DEF RoutingExclusive
  <1>3. \A id \in Installations \ {n} :
            ServesEngine(id)' =>
                ServesEngine(id) /\ ReleaseOf(id)' = ReleaseOf(id)
    <2>1. \A id \in Installations \ {n} : consumptions'[id] = consumptions[id]
      BY DEF RowStep
    <2> QED
      BY <2>1, Elsewhere DEF Safe, ServesEngine
  <1>4. ASSUME NEW id \in Installations \ {n}, ServesEngine(n)',
               ServesEngine(id)'
        PROVE  ReleaseOf(n)'.provider # ReleaseOf(id)'.provider
    <2>1. installs'[a].status = "active"
      BY <1>4 DEF ServesEngine, StatusOf, IsCurrent, RowStep, RowResult
    <2>2. ~ProviderBusy(n, ReleaseOf(n)')
      BY <1>4, <2>1
    <2> QED
      BY <1>3, <1>4, <2>2 DEF ProviderBusy, ServesEngine
  <1>5. ProviderExclusive'
    BY <1>3, <1>4 DEF Safe, ProviderExclusive
  <1> QED
    BY <1>2, <1>5

(***************************************************************************)
(* The steps, one lemma for each part of Next                              *)
(***************************************************************************)

LEMMA QuietStep ==
    ASSUME Safe, Sound, Settled, TxCurrent',
           UNCHANGED <<installs, consumptions, grants, tokens>>
    PROVE  Safe'
  BY TablesUnchanged, ConsentsUnchanged DEF Safe, Sound, RowInvariants

LEMMA WritingStep ==
    ASSUME Safe, Sound, Settled, tx' = None, UNCHANGED consumptions,
           NEW a \in Apps, NEW n \in Installations, RowStep(a, n), RowResult(a, n),
           TokensOwned', TokenAuthority', RoutingExclusive', ProviderExclusive'
    PROVE  Safe'
  <1>1. TxCurrent'
    BY DEF TxCurrent
  <1> QED
    BY <1>1, RowStepKeeps, ConsentsUnchanged DEF Safe, Sound

LEMMA IntentsKeptSettled ==
    ASSUME UNCHANGED intents
    PROVE  Settled
  BY DEF Settled

LEMMA PrepareSafe ==
    ASSUME Safe, Sound, NEW o \in Owners, NEW k \in Keys, NEW i \in Intents,
           NEW r \in Releases, Prepare(o, k, i, r)
    PROVE  Safe'
  <1>1. Settled
    BY DEF Safe, Shape, TypeOK, Prepare, Settled
  <1>2. TxCurrent'
    BY DEF Prepare, LockFree, TxCurrent
  <1> QED
    BY <1>1, <1>2, QuietStep DEF Prepare

LEMMA PendingDecided ==
    ASSUME Shape, NEW o \in Owners, NEW k \in Keys, NEW i \in Intents,
           NEW op, NEW state \in {"consented", "denied"},
           intents[i] # None, intents[i].state = "pending",
           RecordDecision(o, k, i, op, state)
    PROVE  Settled
  BY DEF Shape, TypeOK, RecordDecision, Settled

LEMMA BeginSafe ==
    ASSUME Safe, Sound, TxCurrent',
           UNCHANGED <<environment, consent, rows, access, compat>>
    PROVE  Safe'
  BY IntentsKeptSettled, QuietStep

LEMMA OfferedDistributed ==
    ASSUME NEW r \in Releases, Offered(r), Sourced(r)
    PROVE  r \in distributed
  BY DEF Offered, Sourced, OnlyDistributed

(* A transaction in progress is not disturbed by who does not hold the lock*)
LEMMA TxStays ==
    ASSUME Shape, TxCurrent, Kept, UNCHANGED <<intents, installs, consumptions, tx>>,
           tx # None /\ tx.release \in distributed => tx.release \in distributed'
    PROVE  TxCurrent'
  <1>1. SUFFICES ASSUME tx # None PROVE TxCurrent'
    BY DEF TxCurrent
  <1>2. Consumed(tx.intent)' <=> Consumed(tx.intent)
    BY DEF Consumed
  <1>3. StatusOf(tx.ins)' = StatusOf(tx.ins)
    BY DEF StatusOf, IsCurrent, AppOf, ReleaseOf, IntentOf
  <1> QED
    BY <1>1, <1>2, <1>3 DEF TxCurrent, Sourced

(* Retiring a row, with its grant and its tokens                           *)
LEMMA RetireSafe ==
    ASSUME Safe, Sound, NEW a \in Apps, installs[a] # None,
           NEW status \in {"disabling", "uninstalled"}, Retire(a, status),
           UNCHANGED <<intents, consumptions>>, tx' = None
    PROVE  Safe'
  <1> DEFINE n == installs[a].id
  <1>1. installs[a] \in RowType /\ n \in Installations
    BY DEF Safe, Shape, TypeOK, RowType
  <1>2. installs' = [installs EXCEPT ![a] =
            [installs[a] EXCEPT !.status = status, !.scopes = {}, !.caps = {}]]
    BY DEF Retire
  <1>3. /\ installs'[a].id = n /\ installs'[a].status = status
        /\ installs'[a].intent = installs[a].intent
        /\ installs'[a].caps = {}
        /\ installs'[a] # None
        /\ \A b \in Apps \ {a} : installs'[b] = installs[b]
    <2>1. [installs[a] EXCEPT !.status = status, !.scopes = {}, !.caps = {}]
            \in RowType
      BY <1>1 DEF RowType, Statuses, Live
    <2> QED
      BY <1>1, <1>2, <2>1, NoneAssumption DEF Safe, Shape, TypeOK, RowType
  <1>4. PICK id \in Installations : id = n
    BY <1>1
  <1>5. /\ grants' = [grants EXCEPT ![id] =
                IF @ = None THEN None ELSE [state |-> "revoked", scopes |-> {}]]
        /\ tokens' = [t \in Tokens |->
                IF tokens[t] # None /\ tokens[t].ins = id
                THEN [tokens[t] EXCEPT !.revoked = TRUE] ELSE tokens[t]]
    BY <1>4 DEF Retire, RevokeAccess
  <1>6. events[id] # <<>> /\ events'[id] # <<>>
    BY <1>4 DEF Safe, RowIdentity, Sound, Kept
  <1> HIDE DEF n
  <1>7. RowStep(a, id)
    BY <1>3, <1>4, <1>5, <1>6 DEF RowStep, n, Safe, Shape, TypeOK
  <1>8. RowResult(a, id)
    <2>1. IF installs[a].intent = None THEN consumptions[id] = None
          ELSE /\ consumptions[id] # None
               /\ consumptions[id].intent = installs[a].intent
               /\ AppOf(id) = a
      BY <1>4 DEF n, Safe, RowProvenance, AppOf, ReleaseOf, IntentOf
    <2>2. CASE consumptions[id] = None
      <3>1. grants[id] = None
        BY <2>2 DEF Safe, GrantFollowsRow
      <3> QED
        BY <1>3, <1>5, <2>1, <2>2, <3>1 DEF RowResult, Safe, Shape, TypeOK
    <2>3. CASE consumptions[id] # None
      <3>1. consumptions'[id] = consumptions[id] /\ AppOf(id)' = a
        BY <2>1, <2>3 DEF AppOf, ReleaseOf, IntentOf
      <3>2. StatusOf(id)' = status
        BY <1>3, <1>4, <3>1 DEF StatusOf, IsCurrent
      <3>3. DueGrant(id)' = [state |-> "revoked", scopes |-> {}]
        BY <3>2 DEF DueGrant
      <3>4. grants[id] # None
        <4>1. grants[id] = DueGrant(id)
          BY <2>3 DEF Safe, GrantFollowsRow
        <4>2. DueGrant(id).state \in {"pending", "active", "revoked"}
          BY DEF DueGrant
        <4>3. ReleaseOf(id).scopes \in SUBSET Scopes
          BY <2>3, ConsumedType, ReleaseAssumption DEF Safe, ReleaseType
        <4>4. DueGrant(id) \in GrantType
          BY <4>3 DEF DueGrant, GrantType
        <4> QED
          BY <4>1, <4>4, NoneAssumption
      <3>5. grants'[id] = [state |-> "revoked", scopes |-> {}]
        BY <1>5, <3>4 DEF Safe, Shape, TypeOK
      <3> QED
        BY <1>3, <2>1, <2>3, <3>1, <3>2, <3>3, <3>5 DEF RowResult, Live
    <2> QED
      BY <2>2, <2>3
  <1>9. TokensOwned' /\ TokenAuthority'
    <2>1. ASSUME NEW t \in Tokens
          PROVE  /\ tokens'[t] # None =>
                        tokens[t] # None /\ tokens'[t].ins = tokens[t].ins
                 /\ LiveToken(t)' => LiveToken(t) /\ tokens[t].ins # id
      BY <1>5 DEF LiveToken, Safe, Shape, TypeOK, TokenType
    <2> QED
      BY <1>7, <2>1, TokensElsewhere DEF Sound
  <1>10. RoutingExclusive' /\ ProviderExclusive'
    BY <1>3, <1>7, <1>8, ExclusiveElsewhere DEF Sound
  <1> QED
    BY <1>7, <1>8, <1>9, <1>10, IntentsKeptSettled, WritingStep

LEMMA UninstallSafe ==
    ASSUME Safe, Sound, NEW o \in Owners, NEW k \in Keys,
           NEW id \in Installations, Uninstall(o, k, id)
    PROVE  Safe'
  <1>1. AppOf(id) \in Apps
    BY ConsumedType DEF Safe, Uninstall, Accessible
  <1>2. tx' = None
    BY DEF Uninstall, LockFree
  <1>3. CASE StatusOf(id) \in Live
    <2>1. installs[AppOf(id)] # None
      BY <1>3 DEF StatusOf, IsCurrent, Live
    <2>2. Retire(AppOf(id), RetiredStatus(ReleaseOf(id).profile))
      BY <1>3 DEF Uninstall
    <2> QED
      BY <1>1, <1>2, <2>1, <2>2, RetiredStatusType, RetireSafe DEF Uninstall
  <1>4. CASE StatusOf(id) \notin Live
    <2>1. TxCurrent'
      BY <1>2 DEF TxCurrent
    <2> QED
      BY <1>4, <2>1, IntentsKeptSettled, QuietStep DEF Uninstall
  <1> QED
    BY <1>3, <1>4

LEMMA OwnerSafe ==
    ASSUME Safe, Sound, NEW o \in Owners, NEW k \in Keys, OwnerStep(o, k)
    PROVE  Safe'
  <1>1. ASSUME NEW i \in Intents, Deny(o, k, i)
        PROVE  Safe'
    <2>1. intents[i] # None /\ intents[i].state = "pending"
      BY <1>1 DEF Deny, Decidable, Effective
    <2>2. Settled
      BY <1>1, <2>1, PendingDecided DEF Safe, Deny
    <2>3. TxCurrent'
      BY <1>1 DEF Deny, LockFree, TxCurrent
    <2> QED
      BY <1>1, <2>2, <2>3, QuietStep DEF Deny
  <1>2. ASSUME NEW i \in Intents, BeginConsent(o, k, i)
        PROVE  Safe'
    <2>1. intents[i] # None /\ intents[i].state = "pending"
      BY <1>2 DEF BeginConsent, Decidable, Effective
    <2>2. intents[i].release \in Releases
      BY <2>1 DEF Safe, Shape, TypeOK, IntentType
    <2>3. TxCurrent'
      BY <1>2, <2>1, <2>2, OfferedDistributed DEF BeginConsent, TxCurrent, Sourced
    <2> QED
      BY <1>2, <2>3, BeginSafe DEF BeginConsent
  <1>3. ASSUME NEW i \in Intents, BeginConsume(o, k, i)
        PROVE  Safe'
    <2>1. intents[i] # None /\ intents[i].state = "consented" /\ ~Consumed(i)
      BY <1>3 DEF BeginConsume, Effective
    <2>2. intents[i].release \in Releases
      BY <2>1 DEF Safe, Shape, TypeOK, IntentType
    <2>3. TxCurrent'
      BY <1>3, <2>1, <2>2, OfferedDistributed
      DEF BeginConsume, Eligible, TxCurrent, Sourced, Consumed
    <2> QED
      BY <1>3, <2>3, BeginSafe DEF BeginConsume
  <1>4. ASSUME NEW id \in Installations,
               NEW op \in {"activate", "issue_token"}, BeginAccess(o, k, id, op)
        PROVE  Safe'
    <2>1. ReleaseOf(id) \in Releases
      BY <1>4, ConsumedType DEF Safe, BeginAccess, Accessible
    <2>2. /\ tx'.op = op /\ tx'.ins = id /\ tx'.release = ReleaseOf(id)
          /\ op = "issue_token" => StatusOf(id) = "active"
          /\ Sourced(ReleaseOf(id)) => ReleaseOf(id) \in distributed
          /\ UNCHANGED <<environment, consent, rows, access, compat>>
      BY <1>4, <2>1, OfferedDistributed DEF BeginAccess, Eligible
    <2>3. StatusOf(id)' = StatusOf(id)
      BY <2>2 DEF StatusOf, IsCurrent, AppOf, ReleaseOf, IntentOf
    <2>4. TxCurrent'
      BY <2>2, <2>3 DEF TxCurrent, Sourced, StatusOf, IsCurrent, AppOf,
                        ReleaseOf, IntentOf
    <2> QED
      BY <1>4, <2>4, BeginSafe DEF BeginAccess
  <1> QED
    BY <1>1, <1>2, <1>3, <1>4, PrepareSafe, UninstallSafe DEF OwnerStep

(* The transaction in progress names rows of the tables.                   *)
LEMMA TxNames ==
    ASSUME Shape, tx # None
    PROVE  /\ tx.owner \in Owners /\ tx.key \in Keys /\ tx.release \in ReleaseType
           /\ tx.release.app \in Apps
           /\ tx.op \in {"consent", "consume"} =>
                /\ tx.intent \in Intents /\ intents[tx.intent] # None
                /\ tx.release = intents[tx.intent].release
           /\ tx.op \in {"activate", "issue_token"} =>
                /\ tx.ins \in Installations /\ consumptions[tx.ins] # None
                /\ tx.release = ReleaseOf(tx.ins) /\ tx.release.app = AppOf(tx.ins)
  <1>1. tx \in TxType
    BY DEF Shape, TypeOK
  <1>2. tx.owner \in Owners /\ tx.key \in Keys /\ tx.release \in Releases
    BY <1>1 DEF TxType
  <1>3. /\ tx.op \in {"consent", "consume"} => tx.intent \in Intents
        /\ tx.op \in {"activate", "issue_token"} => tx.ins \in Installations
    BY <1>1 DEF TxType
  <1> QED
    BY <1>2, <1>3, ReleaseAssumption
    DEF Shape, References, ReleaseType, AppOf

LEMMA CommitConsumeSafe ==
    ASSUME Safe, Sound, NEW id \in Installations, CommitConsume(id)
    PROVE  Safe'
  <1> DEFINE r == tx.release
             a == tx.release.app
  <1>1. /\ tx # None /\ tx.op = "consume" /\ tx' = None
        /\ now < intents[tx.intent].expires
        /\ UNCHANGED <<environment, consent, tokens, compat>>
        /\ Unused(id) /\ AppStatus(a) = "uninstalled"
    BY DEF CommitConsume
  <1>2. /\ tx.intent \in Intents /\ intents[tx.intent] # None
        /\ r = intents[tx.intent].release /\ r \in ReleaseType /\ a \in Apps
    BY <1>1, TxNames DEF Safe
  <1>3. /\ intents[tx.intent].state = "consented"
        /\ ~Consumed(tx.intent)
    BY <1>1 DEF Safe, TxCurrent
  <1>4. consumptions[id] = None
    BY <1>1 DEF Safe, Shape, References, Unused
  <1>5. PICK i \in Intents, app \in Apps, rel \in ReleaseType :
            i = tx.intent /\ app = a /\ rel = r
    BY <1>2
  <1>6. /\ consumptions' = [consumptions EXCEPT ![id] =
                                [intent |-> i, at |-> now]]
        /\ installs' = [installs EXCEPT ![app] =
              [id |-> id, version |-> rel.version, status |-> "pending",
               scopes |-> rel.scopes, caps |-> RoutedCapabilities(rel),
               intent |-> i]]
        /\ grants' = [grants EXCEPT ![id] =
              [state |-> "pending", scopes |-> {}]]
        /\ intents' = intents /\ tokens' = tokens
    BY <1>5 DEF CommitConsume
  <1>7. /\ consumptions'[id] = [intent |-> i, at |-> now]
        /\ consumptions'[id] # None
        /\ grants'[id] = [state |-> "pending", scopes |-> {}]
    <2>1. [intent |-> i, at |-> now] \in ConsumptionType
      BY DEF Safe, Shape, TypeOK, ConsumptionType
    <2> QED
      BY <1>6, <2>1, NoneAssumption DEF Safe, Shape, TypeOK
  <1>8. /\ installs'[app] =
              [id |-> id, version |-> rel.version, status |-> "pending",
               scopes |-> rel.scopes, caps |-> RoutedCapabilities(rel),
               intent |-> i]
        /\ installs'[app] # None
    <2>1. RoutedCapabilities(rel) \in SUBSET Capabilities
      BY DEF RoutedCapabilities, ReleaseType
    <2>2. [id |-> id, version |-> rel.version, status |-> "pending",
           scopes |-> rel.scopes, caps |-> RoutedCapabilities(rel),
           intent |-> i] \in RowType
      BY <2>1 DEF RowType, ReleaseType, Statuses, Live
    <2> QED
      BY <1>6, <2>2, NoneAssumption DEF Safe, Shape, TypeOK
  <1>9. ReleaseOf(id)' = rel /\ AppOf(id)' = app /\ IntentOf(id)' = intents[i]
    BY <1>2, <1>5, <1>6, <1>7 DEF AppOf, ReleaseOf, IntentOf
  <1>10. events'[id] # <<>>
    <2>1. Emit(id, "installed") /\ "installed" \in Kinds
      BY DEF CommitConsume, Kinds
    <2> QED
      BY <2>1, EmitGrows DEF Safe, Shape
  <1> HIDE DEF r, a
  <1>11. RowStep(app, id)
    BY <1>1, <1>5, <1>6, <1>8, <1>10 DEF RowStep, Safe, Shape, TypeOK
  <1>12. StatusOf(id)' = "pending"
    BY <1>8, <1>9 DEF StatusOf, IsCurrent
  <1>13. RowResult(app, id)
    <2>1. DueGrant(id)' = [state |-> "pending", scopes |-> {}]
      BY <1>12 DEF DueGrant
    <2>2. RowAgrees(id)'
      BY <1>7, <1>8, <1>9 DEF RowAgrees, RoutedCapabilities
    <2> QED
      BY <1>7, <1>8, <1>9, <2>1, <2>2 DEF RowResult
  <1>14. TokensOwned' /\ TokenAuthority'
    <2>1. \A t \in Tokens : LiveToken(t) => tokens[t].ins # id
      BY <1>4 DEF LiveToken, Safe, TokensOwned
    <2> QED
      BY <1>6, <1>11, <2>1, TokensElsewhere DEF Sound, LiveToken
  <1>15. RoutingExclusive' /\ ProviderExclusive'
    BY <1>8, <1>11, <1>13, ExclusiveElsewhere DEF Sound
  <1>16. ConsentSpentOnce'
    <2>1. \A n \in Installations \ {id} : consumptions'[n] = consumptions[n]
      BY <1>11 DEF RowStep
    <2>2. \A n \in Installations \ {id} :
              consumptions[n] # None => consumptions[n].intent # i
      BY <1>3, <1>5 DEF Consumed
    <2>3. ASSUME NEW n \in Installations, consumptions'[n] # None
          PROVE  /\ IntentOf(n)'.state = "consented"
                 /\ consumptions'[n].at < IntentOf(n)'.expires
                 /\ \A other \in Installations \ {n} :
                      consumptions'[other] # None =>
                        consumptions'[other].intent # consumptions'[n].intent
      <3>1. CASE n = id
        BY <1>1, <1>3, <1>5, <1>7, <1>9, <2>1, <2>2, <3>1
      <3>2. CASE n # id
        <4>1. IntentOf(n)' = IntentOf(n) /\ consumptions'[n] = consumptions[n]
          BY <1>6, <2>1, <3>2 DEF IntentOf
        <4> QED
          BY <1>7, <2>1, <2>2, <2>3, <3>2, <4>1 DEF Safe, ConsentSpentOnce
      <3> QED
        BY <3>1, <3>2
    <2> QED
      BY <2>3 DEF ConsentSpentOnce
  <1>17. TxCurrent'
    BY <1>1 DEF TxCurrent
  <1> QED
    BY <1>11, <1>13, <1>14, <1>15, <1>16, <1>17, RowStepKeeps DEF Safe, Sound

LEMMA CommitActivateSafe ==
    ASSUME Safe, Sound, CommitActivate
    PROVE  Safe'
  <1>1. /\ tx # None /\ tx.op = "activate" /\ tx' = None
        /\ UNCHANGED <<environment, consent, consumptions, tokens, compat>>
        /\ StatusOf(tx.ins) = "pending"
    BY DEF CommitActivate
  <1>2. PICK id \in Installations, a \in Apps, r \in ReleaseType :
            /\ id = tx.ins /\ r = tx.release /\ a = r.app
            /\ consumptions[id] # None /\ r = ReleaseOf(id) /\ a = AppOf(id)
    BY <1>1, TxNames DEF Safe
  <1>3. installs[a] # None /\ installs[a].id = id /\ installs[a].status = "pending"
    BY <1>1, <1>2 DEF StatusOf, IsCurrent
  <1>4. /\ installs' = [installs EXCEPT ![a] = [installs[a] EXCEPT !.status = "active"]]
        /\ grants' = [grants EXCEPT ![id] = IF grants[id].state = "pending"
                          THEN [state |-> "active", scopes |-> r.scopes]
                          ELSE grants[id]]
        /\ r.profile \in EngineProfiles => ~ProviderBusy(id, r)
        /\ ~CapabilityBusy(id, RoutedCapabilities(r))
        /\ Emit(id, "activated")
    BY <1>2 DEF CommitActivate
  <1>5. installs[a] \in RowType
    BY <1>3 DEF Safe, Shape, TypeOK
  <1>6. /\ installs'[a].id = id /\ installs'[a].status = "active"
        /\ installs'[a].intent = installs[a].intent
        /\ installs'[a].caps = installs[a].caps
        /\ installs'[a].scopes = installs[a].scopes
        /\ installs'[a].version = installs[a].version
        /\ installs'[a] # None
        /\ \A b \in Apps \ {a} : installs'[b] = installs[b]
    <2>1. [installs[a] EXCEPT !.status = "active"] \in RowType
      BY <1>5 DEF RowType, Statuses, Live
    <2> QED
      BY <1>3, <1>4, <1>5, <2>1, NoneAssumption DEF Safe, Shape, TypeOK, RowType
  <1>7. grants[id] = [state |-> "pending", scopes |-> {}] /\ RowAgrees(id)
    BY <1>1, <1>2 DEF Safe, GrantFollowsRow, DueGrant, Live
  <1>8. grants'[id] = [state |-> "active", scopes |-> r.scopes]
    BY <1>4, <1>7 DEF Safe, Shape, TypeOK
  <1>9. ReleaseOf(id)' = r /\ AppOf(id)' = a /\ consumptions'[id] = consumptions[id]
    BY <1>1, <1>2 DEF AppOf, ReleaseOf, IntentOf
  <1>10. events'[id] # <<>>
    <2>1. "activated" \in Kinds
      BY DEF Kinds
    <2> QED
      BY <1>4, <2>1, EmitGrows DEF Safe, Shape
  <1>11. RowStep(a, id)
    BY <1>1, <1>3, <1>4, <1>6, <1>10 DEF RowStep, Safe, Shape, TypeOK
  <1>12. StatusOf(id)' = "active"
    BY <1>6, <1>9 DEF StatusOf, IsCurrent
  <1>13. RowResult(a, id)
    <2>1. DueGrant(id)' = [state |-> "active", scopes |-> r.scopes]
      BY <1>9, <1>12 DEF DueGrant
    <2>2. RowAgrees(id)'
      BY <1>2, <1>6, <1>7, <1>9 DEF RowAgrees, RoutedCapabilities
    <2>3. installs'[a].intent = consumptions'[id].intent
      BY <1>2, <1>6, <1>7, <1>9 DEF RowAgrees
    <2> QED
      BY <1>2, <1>8, <1>9, <2>1, <2>2, <2>3 DEF RowResult
  <1>14. TokensOwned' /\ TokenAuthority'
    <2>1. \A t \in Tokens : LiveToken(t) => tokens[t].ins # id
      BY <1>1, <1>2 DEF LiveToken, Safe, TokenAuthority
    <2> QED
      BY <1>1, <1>11, <2>1, TokensElsewhere DEF Sound, LiveToken
  <1>15. RoutingExclusive' /\ ProviderExclusive'
    <2>1. installs'[a].caps = RoutedCapabilities(r)
      BY <1>2, <1>6, <1>7 DEF RowAgrees
    <2>2. ServesEngine(id)' => ~ProviderBusy(id, ReleaseOf(id)')
      <3>1. ServesEngine(id)' => r.profile \in EngineProfiles
        BY <1>9 DEF ServesEngine
      <3> QED
        BY <1>4, <1>9, <3>1
    <2> QED
      BY <1>4, <1>11, <1>13, <2>1, <2>2, ExclusiveElsewhere DEF Sound
  <1> QED
    BY <1>1, <1>11, <1>13, <1>14, <1>15, IntentsKeptSettled, WritingStep

LEMMA CommitIssueTokenSafe ==
    ASSUME Safe, Sound, NEW t \in Tokens, CommitIssueToken(t)
    PROVE  Safe'
  <1>1. /\ tx # None /\ tx.op = "issue_token" /\ tx' = None /\ tokens[t] = None
        /\ UNCHANGED <<environment, consent, rows, consumptions, grants, compat>>
    BY DEF CommitIssueToken
  <1>2. PICK id \in Installations : id = tx.ins /\ consumptions[id] # None
    BY <1>1, TxNames DEF Safe
  <1>3. StatusOf(id) = "active"
    BY <1>1, <1>2 DEF Safe, TxCurrent
  <1>4. grants[id] = [state |-> "active", scopes |-> ReleaseOf(id).scopes]
    BY <1>2, <1>3 DEF Safe, GrantFollowsRow, DueGrant
  <1>5. /\ StatusOf(id)' = StatusOf(id) /\ ReleaseOf(id)' = ReleaseOf(id)
        /\ \A n \in Installations : consumptions[n] # None =>
              StatusOf(n)' = StatusOf(n) /\ ReleaseOf(n)' = ReleaseOf(n)
    BY <1>1, <1>2, ViewUnchanged DEF Safe, Sound
  <1>6. \A u \in Tokens :
            /\ u = t => tokens'[u].ins = id /\ tokens'[u] # None
            /\ u # t /\ tokens[u] = None => tokens'[u] = None
            /\ u # t /\ tokens[u] # None =>
                  /\ tokens'[u].ins = tokens[u].ins
                  /\ LiveToken(u)' => LiveToken(u) /\ tokens[u].ins # id
    <2>1. tokens'[t] = [ins |-> id, expires |-> now + TokenTTL, revoked |-> FALSE]
      BY <1>2 DEF CommitIssueToken
    <2>2. tokens'[t] \in TokenType
      BY <2>1, TimeAssumption DEF Safe, Shape, TypeOK, TokenType
    <2>3. ASSUME NEW u \in Tokens, u # t
          PROVE  tokens'[u] = IF tokens[u] # None /\ tokens[u].ins = id
                              THEN [tokens[u] EXCEPT !.revoked = TRUE]
                              ELSE tokens[u]
      BY <1>2, <2>3 DEF CommitIssueToken
    <2>4. tokens'[t].ins = id /\ tokens'[t] # None
      <3>1. tokens'[t].ins = id
        BY <2>1
      <3>2. tokens'[t] # None
        BY <2>2, NoneAssumption
      <3> QED
        BY <3>1, <3>2
    <2>5. ASSUME NEW u \in Tokens, u # t, tokens[u] # None
          PROVE  /\ tokens'[u].ins = tokens[u].ins
                 /\ LiveToken(u)' => LiveToken(u) /\ tokens[u].ins # id
      <3>1. tokens[u] \in TokenType
        BY <2>5 DEF Safe, Shape, TypeOK
      <3>2. tokens'[u].ins = tokens[u].ins
        BY <2>3, <2>5, <3>1 DEF TokenType
      <3>3. CASE tokens[u].ins = id
        BY <2>3, <2>5, <3>1, <3>2, <3>3 DEF TokenType, LiveToken
      <3>4. CASE tokens[u].ins # id
        BY <2>3, <2>5, <3>4 DEF LiveToken
      <3> QED
        BY <3>2, <3>3, <3>4
    <2> QED
      BY <2>3, <2>4, <2>5
  <1>7. TokensOwned'
    BY <1>1, <1>2, <1>6 DEF Safe, TokensOwned
  <1>8. TokenAuthority'
    <2>1. ASSUME NEW u \in Tokens, LiveToken(u)',
                 NEW n \in Installations, n = tokens'[u].ins
          PROVE  /\ consumptions'[n] # None
                 /\ StatusOf(n)' = "active"
                 /\ grants'[n].state = "active"
                 /\ grants'[n].scopes = ReleaseOf(n)'.scopes
                 /\ \A v \in Tokens : LiveToken(v)' /\ tokens'[v].ins = n => v = u
      <3>1. CASE u = t
        <4>1. n = id
          BY <1>6, <2>1, <3>1
        <4> QED
          BY <1>1, <1>2, <1>3, <1>4, <1>5, <1>6, <3>1, <4>1 DEF LiveToken
      <3>2. CASE u # t
        <4>1. LiveToken(u) /\ n = tokens[u].ins /\ n # id
          BY <1>6, <2>1, <3>2 DEF LiveToken
        <4>2. \A v \in Tokens : LiveToken(v)' /\ tokens'[v].ins = n =>
                  LiveToken(v) /\ tokens[v].ins = n
          BY <1>6, <4>1 DEF LiveToken
        <4>3. /\ consumptions[n] # None
              /\ StatusOf(n) = "active"
              /\ grants[n].state = "active"
              /\ grants[n].scopes = ReleaseOf(n).scopes
              /\ \A v \in Tokens : LiveToken(v) /\ tokens[v].ins = n => v = u
          BY <4>1 DEF Safe, TokenAuthority
        <4> QED
          BY <1>1, <1>5, <4>2, <4>3
      <3> QED
        BY <3>1, <3>2
    <2>2. \A u \in Tokens : LiveToken(u)' => tokens'[u].ins \in Installations
      BY DEF Sound, Shape, TypeOK, TokenType, LiveToken
    <2> QED
      BY <2>1, <2>2 DEF TokenAuthority, StatusOf, IsCurrent, AppOf, ReleaseOf,
                        IntentOf
  <1>9. RowIdentity' /\ RowProvenance' /\ GrantFollowsRow'
    BY <1>1, SameRows DEF Sound
  <1>10. ConsentSpentOnce' /\ TxCurrent' /\ RoutingExclusive' /\ ProviderExclusive'
    BY <1>1, SameRows, ConsentsUnchanged, IntentsKeptSettled DEF Sound, TxCurrent
  <1> QED
    BY <1>7, <1>8, <1>9, <1>10 DEF Safe, Sound

LEMMA CommitSafe ==
    ASSUME Safe, Sound, CommitStep
    PROVE  Safe'
  <1>1. ASSUME CommitConsent
        PROVE  Safe'
    <2>1. tx # None /\ tx.op = "consent" /\ tx' = None
      BY <1>1 DEF CommitConsent
    <2>2. /\ tx.owner \in Owners /\ tx.key \in Keys
          /\ tx.intent \in Intents /\ intents[tx.intent] # None
      BY <2>1, TxNames DEF Safe
    <2>3. intents[tx.intent].state = "pending"
      BY <2>1 DEF Safe, TxCurrent
    <2>4. Settled
      BY <1>1, <2>2, <2>3, PendingDecided DEF Safe, CommitConsent
    <2>5. TxCurrent'
      BY <2>1 DEF TxCurrent
    <2> QED
      BY <1>1, <2>4, <2>5, QuietStep DEF CommitConsent
  <1>2. ASSUME CommitActivateAgain \/ Rollback
        PROVE  Safe'
    <2>1. tx' = None /\ UNCHANGED <<consent, installs, consumptions, grants, tokens>>
      BY <1>2 DEF CommitActivateAgain, Rollback
    <2>2. TxCurrent'
      BY <2>1 DEF TxCurrent
    <2> QED
      BY <2>1, <2>2, IntentsKeptSettled, QuietStep
  <1> QED
    BY <1>1, <1>2, CommitConsumeSafe, CommitActivateSafe, CommitIssueTokenSafe
    DEF CommitStep

(* A compatibility row names no intent, so no consumption concerns it.     *)
LEMMA LegacyInstallSafe ==
    ASSUME Safe, Sound, NEW u \in Users, NEW id \in Installations,
           LegacyInstall(u, id)
    PROVE  Safe'
  <1> DEFINE r == legacy[u].manifest
             a == legacy[u].manifest.app
  <1>1. LegacyCommit(u, "install") /\ Unused(id) /\ AppStatus(a) = "uninstalled"
    BY DEF LegacyInstall
  <1>2. /\ r \in ReleaseType /\ a \in Apps
        /\ UNCHANGED <<environment, consent, consumptions, accessRequests, tx>>
    BY <1>1, LegacyCommitShape, ReleaseAssumption
    DEF Safe, LegacyType, ReleaseType
  <1>3. installs[a] # None => installs[a].intent = None
    BY <1>1, LegacyCommitShape DEF Safe, LegacyCommit
  <1>4. /\ installs' = [installs EXCEPT ![a] =
              [id |-> id, version |-> r.version, status |-> "pending",
               scopes |-> r.scopes, caps |-> r.caps, intent |-> None]]
        /\ Emit(id, "installed") /\ "installed" \in Kinds
        /\ grants' = grants /\ tokens' = tokens
    BY <1>3 DEF LegacyInstall, Kinds
  <1> HIDE DEF r
  <1>5. /\ installs'[a] =
              [id |-> id, version |-> r.version, status |-> "pending",
               scopes |-> r.scopes, caps |-> r.caps, intent |-> None]
        /\ installs'[a] # None
    <2>1. [id |-> id, version |-> r.version, status |-> "pending",
           scopes |-> r.scopes, caps |-> r.caps, intent |-> None] \in RowType
      BY <1>2 DEF RowType, ReleaseType, Statuses, Live
    <2> QED
      BY <1>2, <1>4, <2>1, NoneAssumption DEF Safe, Shape, TypeOK
  <1>6. consumptions[id] = None /\ grants[id] = None
    BY <1>1 DEF Safe, Shape, References, Unused, GrantFollowsRow
  <1>7. events'[id] # <<>>
    BY <1>4, EmitGrows DEF Safe, Shape
  <1>8. PICK app \in Apps : app = a
    BY <1>2
  <1> HIDE DEF a
  <1>9. RowStep(app, id)
    BY <1>1, <1>2, <1>4, <1>5, <1>7, <1>8 DEF RowStep, Safe, Shape, TypeOK
  <1>10. RowResult(app, id)
    BY <1>2, <1>4, <1>5, <1>6, <1>8 DEF RowResult
  <1>11. TokensOwned' /\ TokenAuthority'
    <2>1. \A t \in Tokens : LiveToken(t) => tokens[t].ins # id
      BY <1>6 DEF LiveToken, Safe, TokensOwned
    <2> QED
      BY <1>4, <1>9, <2>1, TokensElsewhere DEF Sound, LiveToken
  <1>12. RoutingExclusive' /\ ProviderExclusive'
    BY <1>5, <1>8, <1>9, <1>10, ExclusiveElsewhere DEF Sound
  <1>13. tx' = None
    BY <1>1 DEF LegacyCommit, LockFree
  <1> QED
    BY <1>2, <1>9, <1>10, <1>11, <1>12, <1>13, IntentsKeptSettled, WritingStep

LEMMA LegacyActivateSafe ==
    ASSUME Safe, Sound, NEW u \in Users, LegacyActivate(u)
    PROVE  Safe'
  <1> DEFINE r == legacy[u].manifest
  <1>1. LegacyCommit(u, "activate")
    BY DEF LegacyActivate
  <1>2. /\ r \in ReleaseType /\ r.app \in Apps
        /\ UNCHANGED <<environment, consent, consumptions, accessRequests, tx>>
    BY <1>1, LegacyCommitShape, ReleaseAssumption
    DEF Safe, LegacyType, ReleaseType
  <1>3. PICK a \in Apps : a = r.app
    BY <1>2
  <1>4. /\ installs[a] # None /\ installs[a].status = "pending"
        /\ installs[a].intent = None
        /\ installs[a] \in RowType
    BY <1>1, <1>3, LegacyCommitShape
    DEF LegacyActivate, LegacyCommit, AppStatus, Safe, Shape, TypeOK
  <1>5. PICK id \in Installations : id = installs[a].id
    BY <1>4 DEF RowType
  <1>6. /\ installs' = [installs EXCEPT ![a] =
                            [installs[a] EXCEPT !.status = "active"]]
        /\ ~CapabilityBusy(id, installs[a].caps)
        /\ Emit(id, "activated")
        /\ grants' = grants /\ tokens' = tokens
    BY <1>3, <1>5 DEF LegacyActivate
  <1>7. consumptions[id] = None /\ grants[id] = None
    BY <1>4, <1>5 DEF Safe, RowProvenance, GrantFollowsRow
  <1>8. /\ installs'[a].id = id
        /\ installs'[a].intent = None
        /\ installs'[a].caps = installs[a].caps
        /\ installs'[a] # None
    <2>1. [installs[a] EXCEPT !.status = "active"] \in RowType
      BY <1>4 DEF RowType, Statuses, Live
    <2> QED
      BY <1>4, <1>5, <1>6, <2>1, NoneAssumption DEF Safe, Shape, TypeOK, RowType
  <1>9. events'[id] # <<>>
    BY <1>6, EmitGrows DEF Safe, Shape, Kinds
  <1> HIDE DEF r
  <1>10. RowStep(a, id)
    BY <1>2, <1>4, <1>5, <1>6, <1>8, <1>9 DEF RowStep, Safe, Shape, TypeOK
  <1>11. RowResult(a, id)
    BY <1>2, <1>6, <1>7, <1>8 DEF RowResult
  <1>12. TokensOwned' /\ TokenAuthority'
    <2>1. \A t \in Tokens : LiveToken(t) => tokens[t].ins # id
      BY <1>7 DEF LiveToken, Safe, TokensOwned
    <2> QED
      BY <1>6, <1>10, <2>1, TokensElsewhere DEF Sound, LiveToken
  <1>13. ~ServesEngine(id)'
    BY <1>2, <1>7 DEF ServesEngine
  <1>14. RoutingExclusive' /\ ProviderExclusive'
    BY <1>6, <1>8, <1>10, <1>11, <1>13, ExclusiveElsewhere DEF Sound
  <1>15. tx' = None
    BY <1>1 DEF LegacyCommit, LockFree
  <1> QED
    BY <1>2, <1>10, <1>11, <1>12, <1>14, <1>15, IntentsKeptSettled, WritingStep

LEMMA LegacySafe ==
    ASSUME Safe, Sound, NEW u \in Users, LegacyStep(u)
    PROVE  Safe'
  <1>1. ASSUME /\ UNCHANGED <<distributed, intents, installs, consumptions>>
               /\ UNCHANGED <<grants, tokens, tx>>
        PROVE  Safe'
    <2>1. TxCurrent'
      BY <1>1, TxStays DEF Safe, Sound
    <2> QED
      BY <1>1, <2>1, IntentsKeptSettled, QuietStep
  <1>2. ASSUME LegacyUninstall(u)
        PROVE  Safe'
    <2> DEFINE r == legacy[u].manifest
    <2>1. LegacyCommit(u, "uninstall")
      BY <1>2 DEF LegacyUninstall
    <2>2. /\ r.app \in Apps
          /\ UNCHANGED <<environment, consent, consumptions, accessRequests, tx>>
      BY <2>1, LegacyCommitShape, ReleaseAssumption
      DEF Safe, LegacyType, ReleaseType
    <2>3. installs[r.app] # None
      BY <1>2 DEF LegacyUninstall, AppStatus, Live
    <2>4. Retire(r.app, RetiredStatus(r.profile))
      BY <1>2 DEF LegacyUninstall
    <2>5. tx' = None
      BY <2>1 DEF LegacyCommit, LockFree
    <2> HIDE DEF r
    <2> QED
      BY <2>2, <2>3, <2>4, <2>5, RetiredStatusType, RetireSafe
  <1>3. ASSUME LegacyUnchanged(u)
        PROVE  Safe'
    <2>1. PICK type \in {"install", "activate", "uninstall"} :
                  LegacyCommit(u, type)
      BY <1>3 DEF LegacyUnchanged
    <2> QED
      BY <1>1, <1>3, <2>1 DEF LegacyCommit, LegacyUnchanged
  <1> QED
    BY <1>1, <1>2, <1>3, LegacyInstallSafe, LegacyActivateSafe
    DEF LegacyStep, LegacyRead, LegacyRefuse

LEMMA CleanupSafe ==
    ASSUME Safe, Sound, NEW a \in Apps, CompleteCleanup(a)
    PROVE  Safe'
  BY RetireSafe DEF CompleteCleanup, LockFree

LEMMA EnvironmentSafe ==
    ASSUME Safe, Sound, EnvironmentStep
    PROVE  Safe'
  <1>1. UNCHANGED <<consent, rows, access, compat, tx>>
    BY DEF EnvironmentStep, Tick, SeedRelease, Distribute, StopDistribution
  <1>2. tx # None /\ tx.release \in distributed => tx.release \in distributed'
    BY DEF EnvironmentStep, Tick, SeedRelease, Distribute, StopDistribution,
           ReleaseHeld
  <1>3. TxCurrent'
    BY <1>1, <1>2, TxStays DEF Safe, Sound
  <1> QED
    BY <1>1, <1>3, IntentsKeptSettled, QuietStep

LEMMA SafeNext ==
    ASSUME Safe, [Next]_vars
    PROVE  Safe'
  <1>1. Sound
    BY NextSound, StutterSound DEF Safe
  <1>2. ASSUME UNCHANGED vars
        PROVE  Safe'
    <2>1. TxCurrent'
      BY <1>1, <1>2, TxStays DEF Safe, Sound, vars
    <2> QED
      BY <1>1, <1>2, <2>1, IntentsKeptSettled, QuietStep DEF vars
  <1> QED
    BY <1>1, <1>2, OwnerSafe, CommitSafe, LegacySafe, CleanupSafe, EnvironmentSafe
    DEF Next

LEMMA SafeAlways == Spec => []Safe
  BY SafeInit, SafeNext, PTL DEF Spec

(***************************************************************************)
(* The theorems                                                            *)
(***************************************************************************)

(* A live app token is always the only one of a current, active and granted*)
(* installation with exactly its consented scopes, whichever path ended or *)
(* replaced an installation (Lifecycle.Execute, the access trigger).       *)
THEOREM TokensAreAuthorized == Spec => []TokenAuthority
  BY SafeAlways, PTL DEF Safe

(* Grants and installation rows agree in every state (activeGrant and the  *)
(* WithAppAccess gates can rely on either).                                *)
THEOREM GrantsFollowRows == Spec => []GrantFollowsRow
  BY SafeAlways, PTL DEF Safe

(* A row names an intent exactly when its installation consumed it: the    *)
(* compatibility lifecycle never takes over a consented row.               *)
THEOREM RowsHaveProvenance == Spec => []RowProvenance
  BY SafeAlways, PTL DEF Safe

(* A consent creates at most one installation, in time                     *)
(* (Repository.ConsumeIntent).                                             *)
THEOREM ConsentsAreSpentOnce == Spec => []ConsentSpentOnce
  BY SafeAlways, PTL DEF Safe

(* No two active installations answer for one capability (WithActive).     *)
THEOREM RoutingIsExclusive == Spec => []RoutingExclusive
  BY SafeAlways, PTL DEF Safe

(* No engine provider serves two active installations (ManagedTarget).     *)
THEOREM ProvidersAreExclusive == Spec => []ProviderExclusive
  BY SafeAlways, PTL DEF Safe

-----------------------------------------------------------------------------
(* What a step may do to access authority: the proof that the lifecycle    *)
(* implements AccessAuthority, and that no authority is given under a      *)
(* release that is not distributed any more.                               *)

(* A row is retired together with its grant and its tokens.                *)
RetireStep ==
    \E a \in Apps, status \in {"disabling", "uninstalled"} :
        /\ installs[a] # None
        /\ Retire(a, status)
        /\ consumptions' = consumptions

(* The steps that write grants or tokens                                   *)
LEMMA WhoWritesAuthority ==
    ASSUME Safe, [Next]_vars
    PROVE  \/ UNCHANGED <<grants, tokens, consumptions>>
           \/ \E id \in Installations : CommitConsume(id)
           \/ CommitActivate
           \/ \E t \in Tokens : CommitIssueToken(t)
           \/ RetireStep
  <1>1. ASSUME NEW o \in Owners, NEW k \in Keys, OwnerStep(o, k)
        PROVE  UNCHANGED <<grants, tokens, consumptions>> \/ RetireStep
    <2>1. ASSUME NEW id \in Installations, Uninstall(o, k, id)
          PROVE  UNCHANGED <<grants, tokens, consumptions>> \/ RetireStep
      <3>1. AppOf(id) \in Apps
        BY <2>1, ConsumedType DEF Uninstall, Accessible, Safe
      <3>2. StatusOf(id) \in Live => installs[AppOf(id)] # None
        BY DEF StatusOf, IsCurrent, Live
      <3> QED
        BY <2>1, <3>1, <3>2, RetiredStatusType DEF Uninstall, RetireStep
    <2> QED
      BY <1>1, <2>1
      DEF OwnerStep, Prepare, Deny, BeginConsent, BeginConsume, BeginAccess
  <1>2. ASSUME NEW u \in Users, LegacyStep(u)
        PROVE  UNCHANGED <<grants, tokens, consumptions>> \/ RetireStep
    <2>1. ASSUME LegacyUninstall(u) PROVE RetireStep
      <3>1. legacy[u].manifest.app \in Apps
        BY <2>1, ReleaseAssumption
        DEF LegacyUninstall, LegacyCommit, Safe, Shape, TypeOK, LegacyType,
            ReleaseType
      <3>2. installs[legacy[u].manifest.app] # None
        BY <2>1 DEF LegacyUninstall, AppStatus, Live
      <3> QED
        BY <2>1, <3>1, <3>2, RetiredStatusType
        DEF LegacyUninstall, LegacyCommit, RetireStep
    <2> QED
      BY <1>2, <2>1
      DEF LegacyStep, LegacyRead, LegacyRefuse, LegacyInstall, LegacyActivate,
          LegacyUnchanged, LegacyCommit
  <1>3. ASSUME NEW a \in Apps, CompleteCleanup(a)
        PROVE  RetireStep
    BY <1>3 DEF CompleteCleanup, RetireStep
  <1>4. ASSUME CommitStep
        PROVE  \/ UNCHANGED <<grants, tokens, consumptions>>
               \/ \E id \in Installations : CommitConsume(id)
               \/ CommitActivate
               \/ \E t \in Tokens : CommitIssueToken(t)
    BY <1>4 DEF CommitStep, CommitConsent, CommitActivateAgain, Rollback
  <1>5. ASSUME EnvironmentStep \/ UNCHANGED vars
        PROVE  UNCHANGED <<grants, tokens, consumptions>>
    BY <1>5 DEF EnvironmentStep, Tick, SeedRelease, Distribute,
                StopDistribution, vars
  <1> QED
    BY <1>1, <1>2, <1>3, <1>4, <1>5 DEF Next

-----------------------------------------------------------------------------
(* Authority needs a release on offer *)

LEMMA ConsentsAreDistributed ==
    ASSUME Safe, [Next]_vars, NEW i \in Intents, NewConsent(i),
           Sourced(intents[i].release)
    PROVE  intents[i].release \in distributed
  <1>1. CASE CommitConsent
    <2>1. tx.intent \in Intents /\ tx.release = intents[tx.intent].release
      BY <1>1, TxNames DEF CommitConsent, Safe
    <2>2. i = tx.intent
      BY <1>1, <2>1 DEF CommitConsent, RecordDecision, NewConsent, Safe, Shape,
                        TypeOK
    <2> QED
      BY <1>1, <2>1, <2>2 DEF CommitConsent, Safe, TxCurrent
  <1>2. ASSUME NEW o \in Owners, NEW k \in Keys, OwnerStep(o, k)
        PROVE  FALSE
    <2>1. ASSUME NEW j \in Intents, NEW r \in Releases, Prepare(o, k, j, r)
          PROVE  FALSE
      BY <2>1 DEF Prepare, NewConsent, Safe, Shape, TypeOK
    <2>2. ASSUME NEW j \in Intents, Deny(o, k, j)
          PROVE  FALSE
      BY <2>2 DEF Deny, RecordDecision, NewConsent, Safe, Shape, TypeOK,
                  IntentType
    <2> QED
      BY <1>2, <2>1, <2>2
      DEF OwnerStep, BeginConsent, BeginConsume, BeginAccess, Uninstall,
          NewConsent
  <1>3. ASSUME intents' = intents PROVE FALSE
    BY <1>3 DEF NewConsent
  <1> QED
    BY <1>1, <1>2, <1>3
    DEF Next, CommitStep, CommitConsume, CommitActivate, CommitActivateAgain,
        CommitIssueToken, Rollback, LegacyStep, LegacyRead, LegacyRefuse,
        LegacyInstall, LegacyActivate, LegacyUninstall, LegacyUnchanged,
        LegacyCommit, CompleteCleanup, EnvironmentStep, Tick, SeedRelease,
        Distribute, StopDistribution, vars

LEMMA RetireGivesNothing ==
    ASSUME Safe, RetireStep, NEW id \in Installations
    PROVE  ~NewAuthority(id)
  <1>1. PICK a \in Apps, status \in {"disabling", "uninstalled"} :
            installs[a] # None /\ Retire(a, status)
    BY DEF RetireStep
  <1>2. installs[a].id \in Installations
    BY <1>1 DEF Safe, Shape, TypeOK, RowType
  <1>3. grants'[id] = grants[id] \/ grants'[id].state = "revoked"
        \/ grants'[id] = None
    BY <1>1, <1>2 DEF Retire, RevokeAccess, Safe, Shape, TypeOK
  <1>4. grants'[id] = None => grants[id] = None
    BY <1>1, <1>2, NoneAssumption
    DEF Retire, RevokeAccess, Safe, Shape, TypeOK, GrantType
  <1>5. \A t \in Tokens : tokens[t] = None => tokens'[t] = None
    BY <1>1 DEF Retire, RevokeAccess, Safe, Shape, TypeOK
  <1> QED
    BY <1>3, <1>4, <1>5 DEF NewAuthority

LEMMA AuthorityIsDistributed ==
    ASSUME Safe, [Next]_vars, NEW id \in Installations, NewAuthority(id),
           Sourced(intents[consumptions'[id].intent].release)
    PROVE  intents[consumptions'[id].intent].release \in distributed
  <1>1. ASSUME NEW n \in Installations, CommitConsume(n)
        PROVE  intents[consumptions'[id].intent].release \in distributed
    <2>1. tx.release = intents[tx.intent].release
      BY <1>1, TxNames DEF CommitConsume, Safe
    <2>2. id = n
      BY <1>1 DEF CommitConsume, NewAuthority, Safe, Shape, TypeOK
    <2>3. consumptions'[id].intent = tx.intent
      BY <1>1, <2>2 DEF CommitConsume, Safe, Shape, TypeOK
    <2> QED
      BY <1>1, <2>1, <2>3 DEF CommitConsume, Safe, TxCurrent
  <1>2. ASSUME CommitActivate \/ \E t \in Tokens : CommitIssueToken(t)
        PROVE  intents[consumptions'[id].intent].release \in distributed
    <2>1. tx.release = ReleaseOf(tx.ins)
      BY <1>2, TxNames DEF CommitActivate, CommitIssueToken, Safe
    <2>2. consumptions' = consumptions
      BY <1>2 DEF CommitActivate, CommitIssueToken
    <2>3. id = tx.ins
      BY <1>2 DEF CommitActivate, CommitIssueToken, NewAuthority, Safe, Shape,
                  TypeOK
    <2>4. Sourced(tx.release) => tx.release \in distributed
      BY <1>2 DEF CommitActivate, CommitIssueToken, Safe, TxCurrent
    <2> QED
      BY <2>1, <2>2, <2>3, <2>4 DEF ReleaseOf, IntentOf
  <1>3. ~UNCHANGED <<grants, tokens, consumptions>>
    BY DEF NewAuthority
  <1> QED
    BY <1>1, <1>2, <1>3, WhoWritesAuthority, RetireGivesNothing

(* Nobody gains authority through a release whose assignment was withdrawn,*)
(* although release and installation belong to different transactions      *)
(* (managedInstallSource.WithRelease holds the release it offered).        *)
THEOREM AuthorityIsCurrent == Spec => AuthorityUnderDistribution
  <1> DEFINE Step ==
        /\ \A i \in Intents : NewConsent(i) =>
              LET r == intents[i].release IN Sourced(r) => r \in distributed
        /\ \A id \in Installations : NewAuthority(id) =>
              LET r == intents[consumptions'[id].intent].release IN
              Sourced(r) => r \in distributed
  <1>1. Safe /\ [Next]_vars => [Step]_vars
    BY ConsentsAreDistributed, AuthorityIsDistributed
  <1> HIDE DEF Step
  <1>2. Spec => [][Step]_vars
    BY <1>1, SafeAlways, PTL DEF Spec
  <1> QED
    BY <1>2 DEF AuthorityUnderDistribution, Step

-----------------------------------------------------------------------------
(* The database implements AccessAuthority *)

(* There is one live token of an installation, or none.                    *)
LEMMA TheLiveToken ==
    ASSUME TokenAuthority, NEW t \in Tokens, LiveToken(t)
    PROVE  LiveTokenOf(tokens[t].ins) = t
  BY DEF LiveTokenOf, TokenAuthority

LEMMA TheLiveTokenNext ==
    ASSUME TokenAuthority', NEW t \in Tokens, LiveToken(t)'
    PROVE  LiveTokenOf(tokens[t].ins)' = t
  BY DEF LiveTokenOf, TokenAuthority

(* An installation whose live token stays, or that stays without one, has  *)
(* the same credential.                                                    *)
LEMMA CredentialStays ==
    ASSUME TokenAuthority, TokenAuthority', NEW id \in Installations,
           \A t \in Tokens : LiveToken(t) /\ tokens[t].ins = id
                <=> LiveToken(t)' /\ tokens'[t].ins = id
    PROVE  LiveTokenOf(id)' = LiveTokenOf(id)
  <1>1. CASE \E t \in Tokens : LiveToken(t) /\ tokens[t].ins = id
    BY <1>1, TheLiveToken, TheLiveTokenNext
  <1>2. CASE ~\E t \in Tokens : LiveToken(t) /\ tokens[t].ins = id
    BY <1>2 DEF LiveTokenOf
  <1> QED
    BY <1>1, <1>2

LEMMA ImplementsInit == Init => Access!Init
  <1> SUFFICES ASSUME Init PROVE Access!Init
    OBVIOUS
  <1>1. \A id \in Installations : AuthorityOf(id) = "none"
    BY DEF Init, AuthorityOf
  <1>2. \A id \in Installations : LiveTokenOf(id) = None
    BY DEF Init, LiveTokenOf, LiveToken
  <1>3. {t \in Tokens : tokens[t] # None} = {}
    BY DEF Init
  <1> QED
    BY <1>1, <1>2, <1>3 DEF Access!Init

LEMMA ConsumeRequests ==
    ASSUME Safe, Safe', NEW id \in Installations, CommitConsume(id)
    PROVE  Access!Request(id)
  <1>1. consumptions[id] = None
    BY DEF CommitConsume, Unused, Safe, Shape, References
  <1>2. AuthorityOf(id) = "none" /\ AuthorityOf(id)' = "pending"
    <2>1. grants[id] = None
      BY <1>1 DEF Safe, GrantFollowsRow
    <2>2. grants'[id] = [state |-> "pending", scopes |-> {}]
      BY DEF CommitConsume, Safe, Shape, TypeOK
    <2>3. grants'[id] # None
      BY <2>2, NoneAssumption DEF GrantType
    <2> QED
      BY <2>1, <2>2, <2>3 DEF AuthorityOf
  <1>3. \A other \in Installations \ {id} :
            AuthorityOf(other)' = AuthorityOf(other)
    BY DEF CommitConsume, Safe, Shape, TypeOK, AuthorityOf
  <1>4. tokens' = tokens
    BY DEF CommitConsume
  <1>5. \A other \in Installations : LiveTokenOf(other)' = LiveTokenOf(other)
    BY <1>4, CredentialStays DEF Safe, LiveToken
  <1> QED
    BY <1>2, <1>3, <1>4, <1>5 DEF Access!Request

LEMMA ActivateGrants ==
    ASSUME Safe, Safe', CommitActivate
    PROVE  \E id \in Installations : Access!Grant(id)
  <1>0. PICK id \in Installations : id = tx.ins
    BY TxNames DEF CommitActivate, Safe
  <1>1. consumptions[id] # None
    BY <1>0, TxNames DEF CommitActivate, Safe
  <1>2. grants[id] = [state |-> "pending", scopes |-> {}]
    BY <1>0, <1>1 DEF CommitActivate, Safe, GrantFollowsRow, DueGrant
  <1>3. grants[id] # None /\ grants[id].state = "pending"
    BY <1>2, NoneAssumption DEF GrantType
  <1>4. grants'[id] = [state |-> "active", scopes |-> tx.release.scopes]
    BY <1>0, <1>3 DEF CommitActivate, Safe, Shape, TypeOK
  <1>5. grants'[id] # None
    <2>1. tx.release.scopes \in SUBSET Scopes
      BY TxNames DEF CommitActivate, Safe, ReleaseType
    <2> QED
      BY <1>4, <2>1, NoneAssumption DEF GrantType
  <1>6. AuthorityOf(id) = "pending" /\ AuthorityOf(id)' = "active"
    BY <1>3, <1>4, <1>5 DEF AuthorityOf
  <1>7. \A other \in Installations \ {id} :
            AuthorityOf(other)' = AuthorityOf(other)
    BY <1>0 DEF CommitActivate, Safe, Shape, TypeOK, AuthorityOf
  <1>8. tokens' = tokens
    BY DEF CommitActivate
  <1>9. \A other \in Installations : LiveTokenOf(other)' = LiveTokenOf(other)
    BY <1>8, CredentialStays DEF Safe, LiveToken
  <1>10. Access!Grant(id)
    BY <1>6, <1>7, <1>8, <1>9 DEF Access!Grant
  <1> QED
    BY <1>10

LEMMA IssueIssues ==
    ASSUME Safe, Safe', NEW t \in Tokens, CommitIssueToken(t)
    PROVE  \E id \in Installations : Access!Issue(id, t)
  <1>0. PICK id \in Installations : id = tx.ins
    BY TxNames DEF CommitIssueToken, Safe
  <1> DEFINE new == [ins |-> id, expires |-> now + TokenTTL, revoked |-> FALSE]
  <1>1. consumptions[id] # None
    BY <1>0, TxNames DEF CommitIssueToken, Safe
  <1>2. StatusOf(id) = "active"
    BY <1>0 DEF CommitIssueToken, Safe, TxCurrent
  <1>3. grants[id] = [state |-> "active", scopes |-> ReleaseOf(id).scopes]
    BY <1>1, <1>2 DEF Safe, GrantFollowsRow, DueGrant
  <1>4. grants[id] # None
    <2>1. ReleaseOf(id).scopes \in SUBSET Scopes
      BY <1>0, TxNames DEF CommitIssueToken, Safe, ReleaseType
    <2> QED
      BY <1>3, <2>1, NoneAssumption DEF GrantType
  <1>5. AuthorityOf(id) = "active"
    BY <1>3, <1>4 DEF AuthorityOf
  <1>6. \A other \in Installations : AuthorityOf(other)' = AuthorityOf(other)
    BY DEF CommitIssueToken, AuthorityOf
  <1>7. new \in TokenType
    BY TimeAssumption DEF TokenType, Safe, Shape, TypeOK
  <1>8. tokens'[t] = new /\ new # None
    BY <1>0, <1>7, NoneAssumption DEF CommitIssueToken
  <1>9. LiveTokenOf(id)' = t
    <2>1. LiveToken(t)' /\ tokens'[t].ins = id
      BY <1>8 DEF LiveToken
    <2> QED
      BY <2>1, <1>1, TheLiveTokenNext DEF Safe
  <1>10. \A u \in Tokens \ {t} :
            IF tokens[u] = None THEN tokens'[u] = None
            ELSE /\ tokens'[u] # None
                 /\ tokens'[u].ins = tokens[u].ins
                 /\ tokens[u].ins # id => tokens'[u] = tokens[u]
    BY <1>0, NoneAssumption DEF CommitIssueToken, Safe, Shape, TypeOK, TokenType
  <1>11. \A other \in Installations \ {id} :
            LiveTokenOf(other)' = LiveTokenOf(other)
    <2> SUFFICES ASSUME NEW other \in Installations \ {id}
                 PROVE  LiveTokenOf(other)' = LiveTokenOf(other)
      OBVIOUS
    <2>1. \A u \in Tokens : LiveToken(u) /\ tokens[u].ins = other
                <=> LiveToken(u)' /\ tokens'[u].ins = other
      BY <1>8, <1>10 DEF LiveToken, CommitIssueToken
    <2> QED
      BY <2>1, CredentialStays DEF Safe
  <1>12. {u \in Tokens : tokens'[u] # None}
            = {u \in Tokens : tokens[u] # None} \cup {t}
    BY <1>8, <1>10
  <1>13. tokens[t] = None
    BY DEF CommitIssueToken
  <1> HIDE DEF new
  <1>14. Access!Issue(id, t)
    BY <1>5, <1>6, <1>9, <1>11, <1>12, <1>13 DEF Access!Issue
  <1> QED
    BY <1>14

(* A consumed installation has a grant.                                    *)
LEMMA GrantOfConsumed ==
    ASSUME Safe, NEW id \in Installations, consumptions[id] # None
    PROVE  grants[id] # None
  <1>1. ReleaseOf(id).scopes \subseteq Scopes
    BY ConsumedType, ReleaseAssumption DEF Safe, ReleaseType
  <1>2. DueGrant(id) \in GrantType
    BY <1>1 DEF DueGrant, GrantType
  <1> QED
    BY <1>2, NoneAssumption DEF Safe, GrantFollowsRow

(* Retiring a row revokes the authority that it had, if it had one.        *)
LEMMA RetireRevokes ==
    ASSUME Safe, Safe', RetireStep
    PROVE  UNCHANGED Access!vars \/ \E id \in Installations : Access!Revoke(id)
  <1>1. PICK a \in Apps, status \in {"disabling", "uninstalled"} :
            /\ installs[a] # None
            /\ Retire(a, status)
            /\ consumptions' = consumptions
    BY DEF RetireStep
  <1>2. PICK id \in Installations : id = installs[a].id
    BY <1>1 DEF Safe, Shape, TypeOK, RowType
  <1>3. \A other \in Installations \ {id} :
            AuthorityOf(other)' = AuthorityOf(other)
    BY <1>1, <1>2 DEF Retire, RevokeAccess, Safe, Shape, TypeOK, AuthorityOf
  <1>4. \A t \in Tokens :
            IF tokens[t] = None THEN tokens'[t] = None
            ELSE /\ tokens'[t] # None
                 /\ tokens'[t].ins = tokens[t].ins
                 /\ IF tokens[t].ins = id THEN tokens'[t].revoked
                    ELSE tokens'[t] = tokens[t]
    <2> SUFFICES ASSUME NEW t \in Tokens, tokens[t] # None
                 PROVE  /\ tokens'[t] # None
                        /\ tokens'[t].ins = tokens[t].ins
                        /\ IF tokens[t].ins = id THEN tokens'[t].revoked
                           ELSE tokens'[t] = tokens[t]
      BY <1>1 DEF Retire, RevokeAccess
    <2>1. tokens'[t] = IF tokens[t].ins = id
                       THEN [tokens[t] EXCEPT !.revoked = TRUE] ELSE tokens[t]
      BY <1>1, <1>2 DEF Retire, RevokeAccess
    <2>2. tokens[t] \in TokenType
      BY DEF Safe, Shape, TypeOK
    <2>3. [tokens[t] EXCEPT !.revoked = TRUE] \in TokenType
      BY <2>2 DEF TokenType
    <2> QED
      BY <2>1, <2>2, <2>3, NoneAssumption DEF TokenType
  <1>5. \A other \in Installations \ {id} :
            LiveTokenOf(other)' = LiveTokenOf(other)
    <2> SUFFICES ASSUME NEW other \in Installations \ {id}
                 PROVE  LiveTokenOf(other)' = LiveTokenOf(other)
      OBVIOUS
    <2>1. \A t \in Tokens : LiveToken(t) /\ tokens[t].ins = other
                <=> LiveToken(t)' /\ tokens'[t].ins = other
      BY <1>4 DEF LiveToken
    <2> QED
      BY <2>1, CredentialStays DEF Safe
  <1>6. {t \in Tokens : tokens'[t] # None} = {t \in Tokens : tokens[t] # None}
    BY <1>4
  <1>7. LiveTokenOf(id)' = None
    BY <1>4 DEF LiveTokenOf, LiveToken
  <1>8. CASE AuthorityOf(id) \in {"pending", "active"}
    <2>1. AuthorityOf(id)' = "revoked"
      BY <1>1, <1>2, <1>8, NoneAssumption
      DEF Retire, RevokeAccess, Safe, Shape, TypeOK, AuthorityOf, GrantType
    <2>2. Access!Revoke(id)
      BY <1>2, <1>3, <1>5, <1>6, <1>7, <1>8, <2>1 DEF Access!Revoke
    <2> QED
      BY <1>2, <2>2
  <1>9. CASE AuthorityOf(id) \notin {"pending", "active"}
    <2>1. grants[id] = None \/ grants[id].state = "revoked"
      BY <1>2, <1>9 DEF AuthorityOf, Safe, Shape, TypeOK, GrantType
    <2>2. AuthorityOf(id)' = AuthorityOf(id)
      <3>1. grants'[id] = IF grants[id] = None THEN None
                          ELSE [state |-> "revoked", scopes |-> {}]
        BY <1>1, <1>2 DEF Retire, RevokeAccess, Safe, Shape, TypeOK
      <3>2. [state |-> "revoked", scopes |-> {}] # None
        BY NoneAssumption DEF GrantType
      <3> QED
        BY <2>1, <3>1, <3>2 DEF AuthorityOf
    <2>3. \A t \in Tokens : LiveToken(t) => tokens[t].ins # id
      <3> SUFFICES ASSUME NEW t \in Tokens, LiveToken(t), tokens[t].ins = id
                   PROVE  FALSE
        OBVIOUS
      <3>1. consumptions[id] # None /\ grants[id].state = "active"
        BY DEF Safe, TokenAuthority
      <3>2. grants[id] # None
        BY <3>1, GrantOfConsumed
      <3> QED
        BY <1>9, <3>1, <3>2 DEF AuthorityOf
    <2>4. LiveTokenOf(id) = None
      BY <2>3 DEF LiveTokenOf
    <2> QED
      BY <1>2, <1>3, <1>5, <1>6, <1>7, <2>2, <2>4 DEF Access!vars
  <1> QED
    BY <1>8, <1>9

LEMMA ImplementsNext ==
    ASSUME Safe, [Next]_vars
    PROVE  Access!Next \/ UNCHANGED Access!vars
  <1>1. Safe'
    BY SafeNext
  <1>2. CASE UNCHANGED <<grants, tokens, consumptions>>
    <2>1. \A id \in Installations : /\ AuthorityOf(id)' = AuthorityOf(id)
                                    /\ LiveTokenOf(id)' = LiveTokenOf(id)
      BY <1>1, <1>2, CredentialStays DEF AuthorityOf, Safe, LiveToken
    <2> QED
      BY <1>2, <2>1 DEF Access!vars
  <1>3. CASE \E id \in Installations : CommitConsume(id)
    BY <1>1, <1>3, ConsumeRequests DEF Access!Next
  <1>4. CASE CommitActivate
    BY <1>1, <1>4, ActivateGrants DEF Access!Next
  <1>5. CASE \E t \in Tokens : CommitIssueToken(t)
    BY <1>1, <1>5, IssueIssues DEF Access!Next
  <1>6. CASE RetireStep
    BY <1>1, <1>6, RetireRevokes DEF Access!Next
  <1> QED
    BY <1>2, <1>3, <1>4, <1>5, <1>6, WhoWritesAuthority

(* The installation database implements AccessAuthority: authority is      *)
(* requested, granted, carried by one credential and revoked for good,     *)
(* whichever lifecycle, owner or worker acts (Repository.ChangeAccess and  *)
(* the access trigger).                                                    *)
THEOREM AccessIsImplemented == Spec => ImplementsAccessAuthority
  <1>1. Safe /\ [Next]_vars => [Access!Next]_(Access!vars)
    BY ImplementsNext
  <1> QED
    BY <1>1, ImplementsInit, SafeAlways, PTL
    DEF Spec, ImplementsAccessAuthority, Access!Spec

-----------------------------------------------------------------------------
(* The story that the outbox tells of an installation *)

LastEvent(id) == events[id][Len(events[id])]

(* An installation only moves on: installed, activated, disabling and      *)
(* uninstalled, some of them left out.                                     *)
Rank(kind) == CASE kind = "installed" -> 0
                [] kind = "activated" -> 1
                [] kind = "disabling" -> 2
                [] OTHER -> 3

Rises(story) ==
    \A m, n \in 1..Len(story) : m < n => Rank(story[m]) < Rank(story[n])

(* EventsTellTheStory, with the order in which a story is told             *)
Storied ==
    \A id \in Installations : events[id] # <<>> =>
        /\ events[id][1] = "installed"
        /\ Rises(events[id])
        /\ \A a \in Apps : installs[a] # None /\ installs[a].id = id =>
              installs[a].status = StatusAfter(LastEvent(id))
        /\ (\A a \in Apps : installs[a] # None => installs[a].id # id) =>
              LastEvent(id) = "uninstalled"

(* A step that tells kind of installation id, whose row a has              *)
TellStep(a, id, kind) ==
    /\ events' = [events EXCEPT ![id] = Append(events[id], kind)]
    /\ installs'[a] # None /\ installs'[a].id = id
    /\ installs'[a].status = StatusAfter(kind)
    /\ \A b \in Apps \ {a} : installs'[b] = installs[b]
    /\ \/ Unused(id) /\ kind = "installed" /\ AppStatus(a) = "uninstalled"
       \/ /\ installs[a] # None /\ installs[a].id = id
          /\ installs[a].status # "uninstalled"
          /\ kind = "activated" => installs[a].status = "pending"
          /\ kind = "disabling" => installs[a].status \in Live
          /\ kind # "installed"

LEMMA LastKind ==
    ASSUME TypeOK, NEW id \in Installations, events[id] # <<>>
    PROVE  /\ events[id] \in Seq(Kinds) /\ Len(events[id]) \in Nat \ {0}
           /\ LastEvent(id) \in Kinds
  BY DEF TypeOK, LastEvent

LEMMA RisesOn ==
    ASSUME NEW story \in Seq(Kinds), NEW kind \in Kinds, Rises(story),
           story # <<>> => Rank(story[Len(story)]) < Rank(kind)
    PROVE  Rises(Append(story, kind))
  <1> DEFINE longer == Append(story, kind)
  <1>1. /\ Len(longer) = Len(story) + 1 /\ Len(story) \in Nat
        /\ \A m \in 1..Len(story) : longer[m] = story[m]
        /\ longer[Len(longer)] = kind
    OBVIOUS
  <1>2. \A k \in Kinds : Rank(k) \in Nat
    BY DEF Rank, Kinds
  <1>3. \A m \in 1..Len(story) : story[m] \in Kinds
    OBVIOUS
  <1>4. ASSUME NEW m \in 1..Len(story) PROVE Rank(story[m]) < Rank(kind)
    <2>1. story # <<>> /\ Len(story) \in 1..Len(story)
      BY <1>1
    <2>2. CASE m = Len(story)
      BY <2>1, <2>2
    <2>3. CASE m # Len(story)
      <3>1. Rank(story[m]) < Rank(story[Len(story)])
        BY <1>1, <2>1, <2>3 DEF Rises
      <3>2. /\ Rank(story[m]) \in Nat /\ Rank(kind) \in Nat
            /\ Rank(story[Len(story)]) \in Nat
        BY <1>2, <1>3, <2>1
      <3>3. Rank(story[Len(story)]) < Rank(kind)
        BY <2>1
      <3> HIDE DEF Rank
      <3> QED
        BY <3>1, <3>2, <3>3
    <2> QED
      BY <2>2, <2>3
  <1>5. ASSUME NEW m \in 1..Len(longer), NEW n \in 1..Len(longer), m < n
        PROVE  Rank(longer[m]) < Rank(longer[n])
    <2> HIDE DEF longer
    <2>1. m \in 1..Len(story)
      BY <1>1, <1>5
    <2>2. CASE n = Len(longer)
      BY <1>1, <1>4, <2>1, <2>2
    <2>3. CASE n # Len(longer)
      <3>1. n \in 1..Len(story)
        BY <1>1, <1>5, <2>3
      <3> QED
        BY <1>1, <1>5, <2>1, <3>1 DEF Rises
    <2> QED
      BY <2>2, <2>3
  <1> QED
    BY <1>5 DEF Rises

LEMMA TellKeeps ==
    ASSUME Safe, Storied, NEW a \in Apps, NEW id \in Installations,
           NEW kind \in Kinds, TellStep(a, id, kind)
    PROVE  Storied'
  <1>1. /\ events \in [Installations -> Seq(Kinds)]
        /\ \A b \in Apps : installs[b] # None => installs[b] \in RowType
    BY DEF Safe, Shape, TypeOK
  <1>2. /\ events'[id] = Append(events[id], kind)
        /\ \A other \in Installations \ {id} : events'[other] = events[other]
    BY <1>1 DEF TellStep
  <1>3. \A b \in Apps : installs'[b] # None /\ installs'[b].id = id => b = a
    BY DEF TellStep, Safe, RowIdentity, Unused
  <1>4. /\ events'[id][1] = "installed"
        /\ Rises(events'[id])
        /\ events'[id][Len(events'[id])] = kind
    <2>1. events[id] \in Seq(Kinds)
      BY <1>1
    <2>2. CASE Unused(id) /\ kind = "installed"
      <3>1. events[id] = <<>>
        BY <2>2 DEF Unused
      <3>2. events'[id] = <<kind>>
        BY <1>2, <3>1
      <3>3. Rises(<<kind>>)
        BY DEF Rises
      <3> QED
        BY <2>2, <3>2, <3>3
    <2>3. CASE ~(Unused(id) /\ kind = "installed")
      <3>1. /\ installs[a] # None /\ installs[a].id = id
            /\ installs[a].status # "uninstalled"
            /\ kind = "activated" => installs[a].status = "pending"
            /\ kind = "disabling" => installs[a].status \in Live
            /\ kind # "installed"
        BY <2>3 DEF TellStep
      <3>2. events[id] # <<>>
        BY <3>1 DEF Safe, RowIdentity
      <3>3. /\ events[id][1] = "installed" /\ Rises(events[id])
            /\ installs[a].status = StatusAfter(LastEvent(id))
        BY <3>1, <3>2 DEF Storied
      <3>4. LastEvent(id) \in Kinds
        BY <3>2, LastKind DEF Safe, Shape
      <3>5. Rank(LastEvent(id)) < Rank(kind)
        BY <3>1, <3>3, <3>4 DEF StatusAfter, Rank, Kinds, Live
      <3>6. Rises(events'[id])
        BY <1>2, <2>1, <3>3, <3>5, RisesOn DEF LastEvent
      <3> QED
        BY <1>2, <2>1, <3>2, <3>3, <3>6
    <2> QED
      BY <2>2, <2>3
  <1>5. ASSUME NEW other \in Installations \ {id}, events[other] # <<>>
        PROVE  /\ \A b \in Apps : installs'[b] # None /\ installs'[b].id = other =>
                      installs'[b].status = StatusAfter(LastEvent(other))
               /\ (\A b \in Apps : installs'[b] # None => installs'[b].id # other) =>
                      LastEvent(other) = "uninstalled"
    <2>1. \A b \in Apps : installs'[b] # None /\ installs'[b].id = other =>
              b # a /\ installs'[b] = installs[b]
      BY DEF TellStep
    <2>2. ASSUME \A b \in Apps : installs'[b] # None => installs'[b].id # other
          PROVE  LastEvent(other) = "uninstalled"
      <3>1. CASE installs[a] # None /\ installs[a].id = other
        <4>1. installs[a].status = "uninstalled"
          BY <3>1 DEF TellStep, AppStatus
        <4>2. "uninstalled" = StatusAfter(LastEvent(other))
          BY <1>5, <3>1, <4>1 DEF Storied
        <4>3. LastEvent(other) \in Kinds
          BY <1>5, LastKind DEF Safe, Shape
        <4> QED
          BY <4>2, <4>3 DEF StatusAfter, Kinds
      <3>2. CASE ~(installs[a] # None /\ installs[a].id = other)
        <4>1. \A b \in Apps : installs[b] # None => installs[b].id # other
          BY <2>2, <3>2 DEF TellStep
        <4> QED
          BY <1>5, <4>1 DEF Storied
      <3> QED
        BY <3>1, <3>2
    <2> QED
      BY <1>5, <2>1, <2>2 DEF Storied
  <1>6. ASSUME NEW other \in Installations, events'[other] # <<>>
        PROVE  /\ events'[other][1] = "installed"
               /\ Rises(events'[other])
               /\ \A b \in Apps : installs'[b] # None /\ installs'[b].id = other =>
                      installs'[b].status
                          = StatusAfter(events'[other][Len(events'[other])])
               /\ (\A b \in Apps : installs'[b] # None => installs'[b].id # other) =>
                      events'[other][Len(events'[other])] = "uninstalled"
    <2>1. CASE other = id
      BY <1>3, <1>4, <2>1 DEF TellStep
    <2>2. CASE other # id
      <3>1. events'[other] = events[other] /\ events[other] # <<>>
        BY <1>2, <1>6, <2>2
      <3> QED
        BY <1>5, <2>2, <3>1 DEF Storied, LastEvent
    <2> QED
      BY <2>1, <2>2
  <1> QED
    BY <1>6 DEF Storied, LastEvent

LEMMA RetireTells ==
    ASSUME Safe, NEW a \in Apps, installs[a] # None,
           NEW status \in {"disabling", "uninstalled"}, Retire(a, status),
           installs[a].status # "uninstalled",
           status = "disabling" => installs[a].status \in Live
    PROVE  \E id \in Installations : TellStep(a, id, status)
  <1>1. installs[a] \in RowType
    BY DEF Safe, Shape, TypeOK
  <1>2. PICK id \in Installations : id = installs[a].id
    BY <1>1 DEF RowType
  <1> DEFINE row == [installs[a] EXCEPT !.status = status, !.scopes = {}, !.caps = {}]
  <1>3. installs' = [installs EXCEPT ![a] = row]
    BY DEF Retire
  <1>4. row \in RowType /\ row.id = id /\ row.status = status
    BY <1>1, <1>2 DEF RowType, Statuses, Live
  <1>5. events' = [events EXCEPT ![id] = Append(events[id], status)]
    BY <1>2 DEF Retire, Emit
  <1> HIDE DEF row
  <1>6. /\ installs'[a] = row /\ row # None
        /\ \A b \in Apps \ {a} : installs'[b] = installs[b]
    BY <1>3, <1>4, NoneAssumption DEF Safe, Shape, TypeOK
  <1> QED
    BY <1>2, <1>4, <1>5, <1>6 DEF TellStep, StatusAfter

LEMMA NewRowTells ==
    ASSUME Safe, NEW a \in Apps, NEW id \in Installations, NEW row \in RowType,
           row.id = id, row.status = "pending",
           Unused(id), AppStatus(a) = "uninstalled",
           installs' = [installs EXCEPT ![a] = row], Emit(id, "installed")
    PROVE  TellStep(a, id, "installed")
  <1>1. /\ installs'[a] = row /\ row # None
        /\ \A b \in Apps \ {a} : installs'[b] = installs[b]
    BY NoneAssumption DEF Safe, Shape, TypeOK
  <1>2. events' = [events EXCEPT ![id] = Append(events[id], "installed")]
    BY DEF Emit
  <1> QED
    BY <1>1, <1>2 DEF TellStep, StatusAfter

LEMMA ActivationTells ==
    ASSUME Safe, NEW a \in Apps, installs[a] # None,
           installs[a].status = "pending",
           installs' = [installs EXCEPT ![a] =
                            [installs[a] EXCEPT !.status = "active"]],
           Emit(installs[a].id, "activated")
    PROVE  \E id \in Installations : TellStep(a, id, "activated")
  <1>1. installs[a] \in RowType
    BY DEF Safe, Shape, TypeOK
  <1>2. PICK id \in Installations : id = installs[a].id
    BY <1>1 DEF RowType
  <1> DEFINE row == [installs[a] EXCEPT !.status = "active"]
  <1>3. row \in RowType /\ row.id = id /\ row.status = "active"
    BY <1>1, <1>2 DEF RowType, Statuses, Live
  <1>4. installs' = [installs EXCEPT ![a] = row]
    OBVIOUS
  <1>5. events' = [events EXCEPT ![id] = Append(events[id], "activated")]
    BY <1>2 DEF Emit
  <1> HIDE DEF row
  <1>6. /\ installs'[a] = row /\ row # None
        /\ \A b \in Apps \ {a} : installs'[b] = installs[b]
    BY <1>3, <1>4, NoneAssumption DEF Safe, Shape, TypeOK
  <1> QED
    BY <1>2, <1>3, <1>5, <1>6 DEF TellStep, StatusAfter

(* A step that writes rows or events does both, and as TellStep says       *)
Told ==
    \/ UNCHANGED rows
    \/ \E a \in Apps, id \in Installations, kind \in Kinds :
          TellStep(a, id, kind)

LEMMA CommitTells ==
    ASSUME Safe, CommitStep
    PROVE  Told
  <1>1. ASSUME NEW id \in Installations, CommitConsume(id)
        PROVE  Told
    <2>1. PICK a \in Apps, rel \in ReleaseType, i \in Intents :
              a = tx.release.app /\ rel = tx.release /\ i = tx.intent
      BY <1>1, TxNames DEF CommitConsume, Safe
    <2> DEFINE row == [id |-> id, version |-> rel.version, status |-> "pending",
                       scopes |-> rel.scopes, caps |-> RoutedCapabilities(rel),
                       intent |-> i]
    <2>2. RoutedCapabilities(rel) \in SUBSET Capabilities
      BY DEF RoutedCapabilities, ReleaseType
    <2>3. row \in RowType /\ row.id = id /\ row.status = "pending"
      BY <2>2 DEF RowType, ReleaseType, Statuses, Live
    <2>4. installs' = [installs EXCEPT ![a] = row]
      BY <1>1, <2>1 DEF CommitConsume
    <2>5. Unused(id) /\ AppStatus(a) = "uninstalled" /\ Emit(id, "installed")
      BY <1>1, <2>1 DEF CommitConsume
    <2> HIDE DEF row
    <2>6. TellStep(a, id, "installed")
      BY <2>3, <2>4, <2>5, NewRowTells
    <2> QED
      BY <2>6 DEF Told, Kinds
  <1>2. ASSUME CommitActivate
        PROVE  Told
    <2>1. PICK a \in Apps, id \in Installations :
              /\ a = tx.release.app /\ id = tx.ins /\ a = AppOf(id)
      BY <1>2, TxNames DEF CommitActivate, Safe, TxType, Shape, TypeOK
    <2>2. /\ installs[a] # None /\ installs[a].id = id
          /\ installs[a].status = "pending"
      BY <1>2, <2>1 DEF CommitActivate, StatusOf, IsCurrent
    <2>3. /\ installs' = [installs EXCEPT ![a] =
                              [installs[a] EXCEPT !.status = "active"]]
          /\ Emit(installs[a].id, "activated")
      BY <1>2, <2>1, <2>2 DEF CommitActivate
    <2> QED
      BY <2>2, <2>3, ActivationTells DEF Told, Kinds
  <1> QED
    BY <1>1, <1>2
    DEF CommitStep, CommitConsent, CommitActivateAgain, CommitIssueToken,
        Rollback, Told

LEMMA LegacyTells ==
    ASSUME Safe, NEW u \in Users, LegacyStep(u)
    PROVE  Told
  <1>1. ASSUME NEW type \in {"install", "activate", "uninstall"},
               LegacyCommit(u, type)
        PROVE  /\ legacy[u].manifest \in ReleaseType
               /\ legacy[u].manifest.app \in Apps
               /\ installs[legacy[u].manifest.app] # None =>
                      installs[legacy[u].manifest.app].intent = None
    BY <1>1, LegacyCommitShape, ReleaseAssumption
    DEF Safe, LegacyType, ReleaseType, LegacyCommit
  <1>2. ASSUME NEW id \in Installations, LegacyInstall(u, id)
        PROVE  Told
    <2>1. LegacyCommit(u, "install")
      BY <1>2 DEF LegacyInstall
    <2>2. PICK a \in Apps, rel \in ReleaseType :
              /\ a = legacy[u].manifest.app /\ rel = legacy[u].manifest
              /\ installs[a] # None => installs[a].intent = None
      BY <1>1, <2>1
    <2> DEFINE row == [id |-> id, version |-> rel.version, status |-> "pending",
                       scopes |-> rel.scopes, caps |-> rel.caps, intent |-> None]
    <2>3. row \in RowType /\ row.id = id /\ row.status = "pending"
      BY DEF RowType, ReleaseType, Statuses, Live
    <2>4. installs' = [installs EXCEPT ![a] = row]
      BY <1>2, <2>2 DEF LegacyInstall
    <2>5. Unused(id) /\ AppStatus(a) = "uninstalled" /\ Emit(id, "installed")
      BY <1>2, <2>2 DEF LegacyInstall
    <2> HIDE DEF row
    <2>6. TellStep(a, id, "installed")
      BY <2>3, <2>4, <2>5, NewRowTells
    <2> QED
      BY <2>6 DEF Told, Kinds
  <1>3. ASSUME LegacyActivate(u)
        PROVE  Told
    <2>1. LegacyCommit(u, "activate")
      BY <1>3 DEF LegacyActivate
    <2>2. PICK a \in Apps : a = legacy[u].manifest.app
      BY <1>1, <2>1
    <2>3. installs[a] # None /\ installs[a].status = "pending"
      BY <1>3, <2>2 DEF LegacyActivate, AppStatus
    <2>4. /\ installs' = [installs EXCEPT ![a] =
                              [installs[a] EXCEPT !.status = "active"]]
          /\ Emit(installs[a].id, "activated")
      BY <1>3, <2>2 DEF LegacyActivate
    <2> QED
      BY <2>3, <2>4, ActivationTells DEF Told, Kinds
  <1>4. ASSUME LegacyUninstall(u)
        PROVE  Told
    <2>1. LegacyCommit(u, "uninstall")
      BY <1>4 DEF LegacyUninstall
    <2>2. PICK a \in Apps, status \in {"disabling", "uninstalled"} :
              /\ a = legacy[u].manifest.app
              /\ status = RetiredStatus(legacy[u].manifest.profile)
      BY <1>1, <2>1, RetiredStatusType
    <2>3. installs[a] # None /\ installs[a].status \in Live
      BY <1>4, <2>2 DEF LegacyUninstall, AppStatus, Live
    <2>4. Retire(a, status)
      BY <1>4, <2>2 DEF LegacyUninstall
    <2> QED
      BY <2>3, <2>4, RetireTells DEF Told, Kinds, Live
  <1> QED
    BY <1>2, <1>3, <1>4
    DEF LegacyStep, LegacyRead, LegacyRefuse, LegacyUnchanged, Told

LEMMA EveryStepTells ==
    ASSUME Safe, [Next]_vars
    PROVE  Told
  <1>1. ASSUME NEW o \in Owners, NEW k \in Keys, NEW id \in Installations,
               Uninstall(o, k, id)
        PROVE  Told
    <2>1. CASE StatusOf(id) \in Live
      <3>1. PICK a \in Apps, status \in {"disabling", "uninstalled"} :
                a = AppOf(id) /\ status = RetiredStatus(ReleaseOf(id).profile)
        BY <1>1, ConsumedType, RetiredStatusType DEF Uninstall, Accessible, Safe
      <3>2. installs[a] # None /\ installs[a].status \in Live
        BY <2>1, <3>1 DEF StatusOf, IsCurrent, Live
      <3>3. Retire(a, status)
        BY <1>1, <2>1, <3>1 DEF Uninstall
      <3> QED
        BY <3>2, <3>3, RetireTells DEF Told, Kinds, Live
    <2>2. CASE StatusOf(id) \notin Live
      BY <1>1, <2>2 DEF Uninstall, Told
    <2> QED
      BY <2>1, <2>2
  <1>2. ASSUME NEW o \in Owners, NEW k \in Keys, OwnerStep(o, k)
        PROVE  Told
    BY <1>1, <1>2
    DEF OwnerStep, Prepare, Deny, BeginConsent, BeginConsume, BeginAccess, Told
  <1>3. ASSUME NEW a \in Apps, CompleteCleanup(a)
        PROVE  Told
    <2>1. /\ installs[a] # None /\ installs[a].status = "disabling"
          /\ Retire(a, "uninstalled")
      BY <1>3 DEF CompleteCleanup
    <2> QED
      BY <2>1, RetireTells DEF Told, Kinds
  <1>4. ASSUME EnvironmentStep \/ UNCHANGED vars
        PROVE  Told
    BY <1>4 DEF EnvironmentStep, Tick, SeedRelease, Distribute,
                StopDistribution, vars, Told
  <1> QED
    BY <1>2, <1>3, <1>4, CommitTells, LegacyTells DEF Next

LEMMA StoryIsEvents ==
    ASSUME Safe, Storied
    PROVE  EventsTellTheStory
  <1> SUFFICES ASSUME NEW id \in Installations, events[id] # <<>>
               PROVE  /\ events[id][1] = "installed"
                      /\ \A m, n \in 1..Len(events[id]) :
                            events[id][m] = events[id][n] => m = n
                      /\ \A a \in Apps : installs[a] # None /\ installs[a].id = id
                            => installs[a].status = StatusAfter(LastEvent(id))
                      /\ (\A a \in Apps : installs[a] # None
                                              => installs[a].id # id)
                            => StatusAfter(LastEvent(id)) = "uninstalled"
    BY DEF EventsTellTheStory, LastEvent
  <1>1. /\ events[id] \in Seq(Kinds) /\ Rises(events[id])
        /\ LastEvent(id) \in Kinds
    BY LastKind DEF Safe, Shape, Storied
  <1>2. \A k \in Kinds : Rank(k) \in Nat
    BY DEF Rank, Kinds
  <1>3. ASSUME NEW m \in 1..Len(events[id]), NEW n \in 1..Len(events[id]),
               events[id][m] = events[id][n]
        PROVE  m = n
    <2>1. events[id][m] \in Kinds
      BY <1>1
    <2>2. Rank(events[id][m]) \in Nat
      BY <1>2, <2>1
    <2>3. Len(events[id]) \in Nat
      BY <1>1
    <2>4. ~(m < n) /\ ~(n < m)
      BY <1>1, <1>3, <2>2 DEF Rises
    <2> QED
      BY <2>3, <2>4
  <1> QED
    BY <1>1, <1>3 DEF Storied, StatusAfter

(* The outbox tells every installation's whole story, in the order         *)
(* installed, activated, disabling, uninstalled, whichever of the two      *)
(* lifecycles and the cleanup worker wrote its parts.                      *)
THEOREM EventsTellStories == Spec => []EventsTellTheStory
  <1>1. Init => Storied
    BY DEF Init, Storied
  <1>2. Safe /\ Storied /\ [Next]_vars => Storied'
    <2> SUFFICES ASSUME Safe, Storied, [Next]_vars
                 PROVE  Storied'
      OBVIOUS
    <2>1. CASE UNCHANGED rows
      BY <2>1 DEF Storied, LastEvent
    <2> QED
      BY <2>1, EveryStepTells, TellKeeps DEF Told
  <1>3. Safe /\ Storied => EventsTellTheStory
    BY StoryIsEvents
  <1> QED
    BY <1>1, <1>2, <1>3, SafeAlways, PTL DEF Spec

-----------------------------------------------------------------------------
(* Receipts *)

IntentReceipts(i)   == {r \in intentRequests : r.intent = i}
ConsumeReceipts(id) == {r \in accessRequests : r.op = "consume" /\ r.ins = id}
TokenReceipts(t)    == {r \in accessRequests : r.token = t}

(* The key that a transaction found unused stays so while it holds the lock*)
KeyHeld ==
    tx # None =>
        UnusedKey(IF tx.op = "consent" THEN intentRequests ELSE accessRequests,
                  tx.owner, tx.key)

(* ReceiptsMatchEffects, with the receipts that are not there              *)
Receipted ==
    /\ OneEach(intentRequests) /\ OneEach(accessRequests) /\ OneEach(idempotency)
    /\ KeyHeld
    /\ \A i \in Intents :
          IF intents[i] = None THEN IntentReceipts(i) = {}
          ELSE IF intents[i].state = "pending" THEN \E x : IntentReceipts(i) = {x}
          ELSE \E x, y : x # y /\ IntentReceipts(i) = {x, y}
    /\ \A id \in Installations :
          IF consumptions[id] = None THEN ConsumeReceipts(id) = {}
                                     ELSE \E x : ConsumeReceipts(id) = {x}
    /\ \A t \in Tokens :
          IF tokens[t] = None THEN TokenReceipts(t) = {}
                              ELSE \E x : TokenReceipts(t) = {x}

(* How a step may write each receipt table, next to the effects in it      *)
IntentReceipted ==
    \/ UNCHANGED consent
    \/ \E r \in IntentReceiptType :
          /\ UnusedKey(intentRequests, r.owner, r.key)
          /\ intentRequests' = intentRequests \cup {r}
          /\ \A i \in Intents \ {r.intent} : intents'[i] = intents[i]
          /\ intents'[r.intent] # None
          /\ \/ /\ intents[r.intent] = None
                /\ intents'[r.intent].state = "pending"
             \/ /\ intents[r.intent] # None
                /\ intents[r.intent].state = "pending"
                /\ intents'[r.intent].state # "pending"

AccessReceipted ==
    \/ /\ UNCHANGED <<accessRequests, consumptions>>
       /\ \A t \in Tokens : tokens'[t] = None <=> tokens[t] = None
    \/ \E r \in AccessReceiptType :
          /\ UnusedKey(accessRequests, r.owner, r.key)
          /\ accessRequests' = accessRequests \cup {r}
          /\ \A id \in Installations :
                consumptions'[id] # None <=>
                    consumptions[id] # None \/ (r.op = "consume" /\ r.ins = id)
          /\ \A t \in Tokens :
                tokens'[t] # None <=> tokens[t] # None \/ r.token = t
          /\ r.op = "consume" => consumptions[r.ins] = None
          /\ \A t \in Tokens : r.token = t => tokens[t] = None

IdempotencyReceipted ==
    \/ UNCHANGED idempotency
    \/ \E r \in IdempotencyType :
          /\ UnusedKey(idempotency, r.owner, r.key)
          /\ idempotency' = idempotency \cup {r}

LEMMA OneEachGrows ==
    ASSUME NEW receipts, NEW r, OneEach(receipts),
           UnusedKey(receipts, r.owner, r.key)
    PROVE  OneEach(receipts \cup {r}) /\ r \notin receipts
  BY DEF OneEach, UnusedKey

LEMMA PairCount ==
    ASSUME NEW x, NEW y, x # y
    PROVE  Cardinality({x, y}) = 2
  <1>1. IsFiniteSet({x}) /\ Cardinality({x}) = 1
    BY FS_Singleton
  <1>2. Cardinality({x} \cup {y}) = Cardinality({x}) + 1
    BY <1>1, FS_AddElement
  <1>3. {x, y} = {x} \cup {y}
    OBVIOUS
  <1> QED
    BY <1>1, <1>2, <1>3

LEMMA IntentReceiptsKept ==
    ASSUME Receipted, IntentReceipted
    PROVE  /\ OneEach(intentRequests)'
           /\ \A i \in Intents :
                IF intents'[i] = None THEN IntentReceipts(i)' = {}
                ELSE IF intents'[i].state = "pending"
                THEN \E x : IntentReceipts(i)' = {x}
                ELSE \E x, y : x # y /\ IntentReceipts(i)' = {x, y}
  <1>1. CASE UNCHANGED consent
    BY <1>1 DEF Receipted, IntentReceipts, OneEach
  <1>2. CASE ~UNCHANGED consent
    <2>1. PICK r \in IntentReceiptType :
              /\ UnusedKey(intentRequests, r.owner, r.key)
              /\ intentRequests' = intentRequests \cup {r}
              /\ \A i \in Intents \ {r.intent} : intents'[i] = intents[i]
              /\ intents'[r.intent] # None
              /\ \/ /\ intents[r.intent] = None
                    /\ intents'[r.intent].state = "pending"
                 \/ /\ intents[r.intent] # None
                    /\ intents[r.intent].state = "pending"
                    /\ intents'[r.intent].state # "pending"
      BY <1>2 DEF IntentReceipted
    <2>2. OneEach(intentRequests)' /\ r \notin intentRequests
      BY <2>1, OneEachGrows DEF Receipted, OneEach
    <2>3. ASSUME NEW i \in Intents
          PROVE  IF intents'[i] = None THEN IntentReceipts(i)' = {}
                 ELSE IF intents'[i].state = "pending"
                 THEN \E x : IntentReceipts(i)' = {x}
                 ELSE \E x, y : x # y /\ IntentReceipts(i)' = {x, y}
      <3>1. CASE i = r.intent
        <4>1. IntentReceipts(i)' = IntentReceipts(i) \cup {r}
          BY <2>1, <3>1 DEF IntentReceipts
        <4>2. r \notin IntentReceipts(i)
          BY <2>2 DEF IntentReceipts
        <4>3. CASE intents[i] = None
          <5>1. IntentReceipts(i)' = {r}
            BY <4>1, <4>3 DEF Receipted
          <5> QED
            BY <2>1, <3>1, <4>3, <5>1
        <4>4. CASE intents[i] # None
          <5>1. PICK x : IntentReceipts(i) = {x}
            BY <2>1, <3>1, <4>4 DEF Receipted
          <5>2. x # r /\ IntentReceipts(i)' = {x, r}
            BY <4>1, <4>2, <5>1
          <5> QED
            BY <2>1, <3>1, <4>4, <5>2
        <4> QED
          BY <4>3, <4>4
      <3>2. CASE i # r.intent
        <4>1. IntentReceipts(i)' = IntentReceipts(i)
          BY <2>1, <3>2 DEF IntentReceipts
        <4>2. intents'[i] = intents[i]
          BY <2>1, <3>2
        <4> QED
          BY <4>1, <4>2 DEF Receipted
      <3> QED
        BY <3>1, <3>2
    <2> QED
      BY <2>2, <2>3
  <1> QED
    BY <1>1, <1>2

LEMMA AccessReceiptsKept ==
    ASSUME Receipted, AccessReceipted
    PROVE  /\ OneEach(accessRequests)'
           /\ \A id \in Installations :
                IF consumptions'[id] = None THEN ConsumeReceipts(id)' = {}
                ELSE \E x : ConsumeReceipts(id)' = {x}
           /\ \A t \in Tokens :
                IF tokens'[t] = None THEN TokenReceipts(t)' = {}
                ELSE \E x : TokenReceipts(t)' = {x}
  <1>1. CASE /\ UNCHANGED <<accessRequests, consumptions>>
             /\ \A t \in Tokens : tokens'[t] = None <=> tokens[t] = None
    BY <1>1 DEF Receipted, ConsumeReceipts, TokenReceipts, OneEach
  <1>2. CASE ~(/\ UNCHANGED <<accessRequests, consumptions>>
               /\ \A t \in Tokens : tokens'[t] = None <=> tokens[t] = None)
    <2>1. PICK r \in AccessReceiptType :
              /\ UnusedKey(accessRequests, r.owner, r.key)
              /\ accessRequests' = accessRequests \cup {r}
              /\ \A id \in Installations :
                    consumptions'[id] # None <=>
                        consumptions[id] # None \/ (r.op = "consume" /\ r.ins = id)
              /\ \A t \in Tokens :
                    tokens'[t] # None <=> tokens[t] # None \/ r.token = t
              /\ r.op = "consume" => consumptions[r.ins] = None
              /\ \A t \in Tokens : r.token = t => tokens[t] = None
      BY <1>2 DEF AccessReceipted
    <2>2. OneEach(accessRequests)'
      BY <2>1, OneEachGrows DEF Receipted, OneEach
    <2>3. ASSUME NEW id \in Installations
          PROVE  IF consumptions'[id] = None THEN ConsumeReceipts(id)' = {}
                 ELSE \E x : ConsumeReceipts(id)' = {x}
      <3>1. CASE r.op = "consume" /\ r.ins = id
        <4>1. ConsumeReceipts(id)' = ConsumeReceipts(id) \cup {r}
          BY <2>1, <3>1 DEF ConsumeReceipts
        <4>2. ConsumeReceipts(id) = {} /\ consumptions'[id] # None
          BY <2>1, <3>1 DEF Receipted
        <4> QED
          BY <4>1, <4>2
      <3>2. CASE ~(r.op = "consume" /\ r.ins = id)
        <4>1. ConsumeReceipts(id)' = ConsumeReceipts(id)
          BY <2>1, <3>2 DEF ConsumeReceipts
        <4>2. consumptions'[id] = None <=> consumptions[id] = None
          BY <2>1, <3>2
        <4> QED
          BY <4>1, <4>2 DEF Receipted
      <3> QED
        BY <3>1, <3>2
    <2>4. ASSUME NEW t \in Tokens
          PROVE  IF tokens'[t] = None THEN TokenReceipts(t)' = {}
                 ELSE \E x : TokenReceipts(t)' = {x}
      <3>1. CASE r.token = t
        <4>1. TokenReceipts(t)' = TokenReceipts(t) \cup {r}
          BY <2>1, <3>1 DEF TokenReceipts
        <4>2. TokenReceipts(t) = {} /\ tokens'[t] # None
          BY <2>1, <3>1 DEF Receipted
        <4> QED
          BY <4>1, <4>2
      <3>2. CASE r.token # t
        <4>1. TokenReceipts(t)' = TokenReceipts(t)
          BY <2>1, <3>2 DEF TokenReceipts
        <4>2. tokens'[t] = None <=> tokens[t] = None
          BY <2>1, <3>2
        <4> QED
          BY <4>1, <4>2 DEF Receipted
      <3> QED
        BY <3>1, <3>2
    <2> QED
      BY <2>2, <2>3, <2>4
  <1> QED
    BY <1>1, <1>2

(* A step that writes a receipt finds its key unused, and has the effect   *)
(* that the receipt stands for.                                            *)
ReceiptStep ==
    IntentReceipted /\ AccessReceipted /\ IdempotencyReceipted /\ KeyHeld'

LEMMA RetireKeepsTokens ==
    ASSUME Safe, NEW a \in Apps, NEW status, Retire(a, status)
    PROVE  \A t \in Tokens : tokens'[t] = None <=> tokens[t] = None
  <1> SUFFICES ASSUME NEW t \in Tokens
               PROVE  tokens'[t] = None <=> tokens[t] = None
    OBVIOUS
  <1>1. CASE tokens[t] = None
    BY <1>1 DEF Retire, RevokeAccess
  <1>2. CASE tokens[t] # None
    <2>1. tokens[t] \in TokenType
      BY <1>2 DEF Safe, Shape, TypeOK
    <2>2. [tokens[t] EXCEPT !.revoked = TRUE] \in TokenType
      BY <2>1 DEF TokenType
    <2> QED
      BY <1>2, <2>1, <2>2, NoneAssumption DEF Retire, RevokeAccess
  <1> QED
    BY <1>1, <1>2

LEMMA DecisionReceipt ==
    ASSUME Safe, NEW o \in Owners, NEW k \in Keys, NEW i \in Intents,
           NEW op \in {"consent", "deny"}, NEW state \in {"consented", "denied"},
           UnusedKey(intentRequests, o, k),
           intents[i] # None, intents[i].state = "pending",
           RecordDecision(o, k, i, op, state)
    PROVE  IntentReceipted
  <1> DEFINE r == [owner |-> o, key |-> k, op |-> op, intent |-> i]
             decided == [intents[i] EXCEPT !.state = state]
  <1>1. r \in IntentReceiptType /\ r.owner = o /\ r.key = k /\ r.intent = i
    BY DEF IntentReceiptType
  <1>2. decided \in IntentType /\ decided.state = state
    BY DEF Safe, Shape, TypeOK, IntentType
  <1>3. intents' = [intents EXCEPT ![i] = decided]
        /\ intentRequests' = intentRequests \cup {r}
    BY DEF RecordDecision
  <1> HIDE DEF r, decided
  <1>4. /\ intents'[i] = decided
        /\ \A j \in Intents \ {i} : intents'[j] = intents[j]
    BY <1>3 DEF Safe, Shape, TypeOK
  <1>5. intents'[i] # None /\ intents'[i].state # "pending"
    BY <1>2, <1>4, NoneAssumption
  <1> QED
    BY <1>1, <1>3, <1>4, <1>5 DEF IntentReceipted

LEMMA PrepareReceipt ==
    ASSUME Safe, NEW o \in Owners, NEW k \in Keys, NEW i \in Intents,
           NEW rel \in Releases, Prepare(o, k, i, rel)
    PROVE  IntentReceipted
  <1> DEFINE r == [owner |-> o, key |-> k, op |-> "prepare", intent |-> i]
             asked == [owner |-> o, release |-> rel, expires |-> now + IntentTTL,
                       state |-> "pending"]
  <1>1. r \in IntentReceiptType /\ r.owner = o /\ r.key = k /\ r.intent = i
    BY DEF IntentReceiptType
  <1>2. asked \in IntentType /\ asked.state = "pending"
    BY TimeAssumption DEF Safe, Shape, TypeOK, IntentType
  <1>3. /\ intents[i] = None /\ UnusedKey(intentRequests, o, k)
        /\ intents' = [intents EXCEPT ![i] = asked]
        /\ intentRequests' = intentRequests \cup {r}
    BY DEF Prepare
  <1> HIDE DEF r, asked
  <1>4. /\ intents'[i] = asked
        /\ \A j \in Intents \ {i} : intents'[j] = intents[j]
    BY <1>3 DEF Safe, Shape, TypeOK
  <1>5. intents'[i] # None
    BY <1>2, <1>4, NoneAssumption
  <1> QED
    BY <1>1, <1>2, <1>3, <1>4, <1>5 DEF IntentReceipted

(* A receipt for an operation that consumes nothing and makes no token     *)
LEMMA PlainReceipt ==
    ASSUME NEW o \in Owners, NEW k \in Keys, NEW id \in Installations,
           NEW op \in {"activate", "uninstall"},
           UnusedKey(accessRequests, o, k),
           AccessReceipt(o, k, op, id, None), UNCHANGED consumptions,
           \A t \in Tokens : tokens'[t] = None <=> tokens[t] = None
    PROVE  AccessReceipted
  <1> DEFINE r == [owner |-> o, key |-> k, op |-> op, ins |-> id, token |-> None]
  <1>1. /\ r \in AccessReceiptType /\ r.owner = o /\ r.key = k
        /\ r.op # "consume" /\ \A t \in Tokens : r.token # t
    BY NoneAssumption DEF AccessReceiptType
  <1>2. accessRequests' = accessRequests \cup {r}
    BY DEF AccessReceipt
  <1> HIDE DEF r
  <1> QED
    BY <1>1, <1>2 DEF AccessReceipted

LEMMA ConsumeReceipt ==
    ASSUME Safe, KeyHeld, NEW id \in Installations, CommitConsume(id)
    PROVE  AccessReceipted
  <1>1. PICK o \in Owners, k \in Keys, i \in Intents :
            o = tx.owner /\ k = tx.key /\ i = tx.intent
    BY TxNames DEF CommitConsume, Safe
  <1> DEFINE r == [owner |-> o, key |-> k, op |-> "consume", ins |-> id,
                   token |-> None]
             c == [intent |-> i, at |-> now]
  <1>2. /\ r \in AccessReceiptType /\ r.owner = o /\ r.key = k
        /\ r.op = "consume" /\ r.ins = id /\ \A t \in Tokens : r.token # t
    BY NoneAssumption DEF AccessReceiptType
  <1>3. /\ accessRequests' = accessRequests \cup {r}
        /\ consumptions' = [consumptions EXCEPT ![id] = c]
        /\ tokens' = tokens
    BY <1>1 DEF CommitConsume, AccessReceipt
  <1>4. c # None
    BY NoneAssumption DEF Safe, Shape, TypeOK, ConsumptionType
  <1>5. consumptions[id] = None
    BY DEF CommitConsume, Safe, Shape, References, Unused
  <1>6. UnusedKey(accessRequests, o, k)
    BY <1>1 DEF CommitConsume, KeyHeld
  <1> HIDE DEF r, c
  <1>7. \A n \in Installations :
            consumptions'[n] # None <=> consumptions[n] # None \/ n = id
    BY <1>3, <1>4 DEF Safe, Shape, TypeOK
  <1> QED
    BY <1>2, <1>3, <1>5, <1>6, <1>7 DEF AccessReceipted

LEMMA TokenReceipt ==
    ASSUME Safe, KeyHeld, NEW t \in Tokens, CommitIssueToken(t)
    PROVE  AccessReceipted
  <1>1. PICK o \in Owners, k \in Keys, id \in Installations :
            o = tx.owner /\ k = tx.key /\ id = tx.ins
    BY TxNames DEF CommitIssueToken, Safe
  <1> DEFINE r == [owner |-> o, key |-> k, op |-> "issue_token", ins |-> id,
                   token |-> t]
             fresh == [ins |-> id, expires |-> now + TokenTTL, revoked |-> FALSE]
  <1>2. /\ r \in AccessReceiptType /\ r.owner = o /\ r.key = k
        /\ r.op # "consume" /\ r.token = t
    BY DEF AccessReceiptType
  <1>3. /\ accessRequests' = accessRequests \cup {r}
        /\ consumptions' = consumptions
        /\ tokens[t] = None
        /\ tokens' = [u \in Tokens |->
              IF u = t THEN fresh
              ELSE IF tokens[u] # None /\ tokens[u].ins = id
                   THEN [tokens[u] EXCEPT !.revoked = TRUE] ELSE tokens[u]]
    BY <1>1 DEF CommitIssueToken, AccessReceipt
  <1>4. fresh # None
    <2>1. now + TokenTTL \in Nat
      BY TimeAssumption DEF Safe, Shape, TypeOK
    <2>2. fresh \in TokenType
      BY <2>1 DEF TokenType
    <2> QED
      BY <2>2, NoneAssumption
  <1>5. UnusedKey(accessRequests, o, k)
    BY <1>1 DEF CommitIssueToken, KeyHeld
  <1> HIDE DEF r, fresh
  <1>6. ASSUME NEW u \in Tokens
        PROVE  tokens'[u] # None <=> tokens[u] # None \/ u = t
    <2>1. CASE u = t
      BY <1>3, <1>4, <2>1
    <2>2. CASE u # t /\ tokens[u] # None
      <3>1. [tokens[u] EXCEPT !.revoked = TRUE] \in TokenType
            /\ tokens[u] \in TokenType
        BY <2>2 DEF Safe, Shape, TypeOK, TokenType
      <3> QED
        BY <1>3, <2>2, <3>1, NoneAssumption
    <2>3. CASE u # t /\ tokens[u] = None
      BY <1>3, <2>3
    <2> QED
      BY <2>1, <2>2, <2>3
  <1> QED
    BY <1>2, <1>3, <1>5, <1>6 DEF AccessReceipted

(* What a step does to the receipts, action by action                      *)
LEMMA OwnerReceipts ==
    ASSUME Safe, KeyHeld, NEW o \in Owners, NEW k \in Keys, OwnerStep(o, k)
    PROVE  ReceiptStep
  <1>1. ASSUME NEW i \in Intents, NEW rel \in Releases, Prepare(o, k, i, rel)
        PROVE  ReceiptStep
    BY <1>1, PrepareReceipt
    DEF Prepare, LockFree, ReceiptStep, AccessReceipted, IdempotencyReceipted,
        KeyHeld
  <1>2. ASSUME NEW i \in Intents, Deny(o, k, i)
        PROVE  ReceiptStep
    <2>1. intents[i] # None /\ intents[i].state = "pending"
      BY <1>2 DEF Deny, Decidable, Effective
    <2>2. IntentReceipted
      BY <1>2, <2>1, DecisionReceipt DEF Deny
    <2> QED
      BY <1>2, <2>2
      DEF Deny, LockFree, ReceiptStep, AccessReceipted, IdempotencyReceipted,
          KeyHeld
  <1>3. ASSUME NEW i \in Intents, BeginConsent(o, k, i) \/ BeginConsume(o, k, i)
        PROVE  ReceiptStep
    BY <1>3
    DEF BeginConsent, BeginConsume, ReceiptStep, IntentReceipted,
        AccessReceipted, IdempotencyReceipted, KeyHeld, UnusedKey
  <1>4. ASSUME NEW id \in Installations, NEW op \in {"activate", "issue_token"},
               BeginAccess(o, k, id, op)
        PROVE  ReceiptStep
    BY <1>4
    DEF BeginAccess, ReceiptStep, IntentReceipted, AccessReceipted,
        IdempotencyReceipted, KeyHeld, UnusedKey
  <1>5. ASSUME NEW id \in Installations, Uninstall(o, k, id)
        PROVE  ReceiptStep
    <2>1. \A t \in Tokens : tokens'[t] = None <=> tokens[t] = None
      <3>1. AppOf(id) \in Apps
        BY <1>5, ConsumedType DEF Uninstall, Accessible, Safe
      <3>2. PICK a \in Apps, status \in {"disabling", "uninstalled"} :
                a = AppOf(id) /\ status = RetiredStatus(ReleaseOf(id).profile)
        BY <3>1, RetiredStatusType
      <3> QED
        BY <1>5, <3>2, RetireKeepsTokens DEF Uninstall
    <2>2. AccessReceipted
      BY <1>5, <2>1, PlainReceipt DEF Uninstall
    <2> QED
      BY <1>5, <2>2
      DEF Uninstall, LockFree, ReceiptStep, IntentReceipted,
          IdempotencyReceipted, KeyHeld
  <1> QED
    BY <1>1, <1>2, <1>3, <1>4, <1>5 DEF OwnerStep

LEMMA CommitReceipts ==
    ASSUME Safe, KeyHeld, CommitStep
    PROVE  ReceiptStep
  <1>1. ASSUME CommitConsent
        PROVE  ReceiptStep
    <2>1. PICK o \in Owners, k \in Keys, i \in Intents :
              /\ o = tx.owner /\ k = tx.key /\ i = tx.intent
              /\ intents[i] # None
      BY <1>1, TxNames DEF CommitConsent, Safe
    <2>2. intents[i].state = "pending" /\ UnusedKey(intentRequests, o, k)
      BY <1>1, <2>1 DEF CommitConsent, Safe, TxCurrent, KeyHeld
    <2>3. IntentReceipted
      BY <1>1, <2>1, <2>2, DecisionReceipt DEF CommitConsent
    <2> QED
      BY <1>1, <2>3
      DEF CommitConsent, ReceiptStep, AccessReceipted, IdempotencyReceipted,
          KeyHeld
  <1>2. ASSUME NEW id \in Installations, CommitConsume(id)
        PROVE  ReceiptStep
    BY <1>2, ConsumeReceipt
    DEF CommitConsume, ReceiptStep, IntentReceipted, IdempotencyReceipted,
        KeyHeld
  <1>3. ASSUME CommitActivate \/ CommitActivateAgain
        PROVE  ReceiptStep
    <2>1. tx # None /\ tx.op = "activate"
      BY <1>3 DEF CommitActivate, CommitActivateAgain
    <2>2. PICK o \in Owners, k \in Keys, id \in Installations :
              o = tx.owner /\ k = tx.key /\ id = tx.ins
      BY <2>1, TxNames DEF Safe
    <2>3. UnusedKey(accessRequests, o, k)
      BY <2>1, <2>2 DEF KeyHeld
    <2>4. AccessReceipt(o, k, "activate", id, None) /\ UNCHANGED consumptions
      BY <1>3, <2>2 DEF CommitActivate, CommitActivateAgain
    <2>5. AccessReceipted
      BY <1>3, <2>3, <2>4, PlainReceipt DEF CommitActivate, CommitActivateAgain
    <2> QED
      BY <1>3, <2>5
      DEF CommitActivate, CommitActivateAgain, ReceiptStep, IntentReceipted,
          IdempotencyReceipted, KeyHeld
  <1>4. ASSUME NEW t \in Tokens, CommitIssueToken(t)
        PROVE  ReceiptStep
    BY <1>4, TokenReceipt
    DEF CommitIssueToken, ReceiptStep, IntentReceipted, IdempotencyReceipted,
        KeyHeld
  <1>5. ASSUME Rollback
        PROVE  ReceiptStep
    BY <1>5
    DEF Rollback, ReceiptStep, IntentReceipted, AccessReceipted,
        IdempotencyReceipted, KeyHeld
  <1> QED
    BY <1>1, <1>2, <1>3, <1>4, <1>5 DEF CommitStep

LEMMA LegacyReceipts ==
    ASSUME Safe, KeyHeld, NEW u \in Users, LegacyStep(u)
    PROVE  ReceiptStep
  <1>1. ASSUME NEW type \in {"install", "activate", "uninstall"},
               LegacyCommit(u, type),
               \A t \in Tokens : tokens'[t] = None <=> tokens[t] = None
        PROVE  ReceiptStep
    <2> DEFINE a == legacy[u].manifest.app
               r == [owner |-> u, key |-> legacy[u].key, op |-> type, app |-> a]
    <2>1. legacy[u] \in LegacyType /\ a \in Apps
      BY <1>1, LegacyCommitShape, ReleaseAssumption
      DEF Safe, LegacyType, ReleaseType
    <2>2. r \in IdempotencyType /\ r.owner = u /\ r.key = legacy[u].key
      BY <2>1 DEF IdempotencyType, LegacyType
    <2>3. /\ UnusedKey(idempotency, u, legacy[u].key)
          /\ idempotency' = idempotency \cup {r}
          /\ UNCHANGED <<consent, consumptions, accessRequests, tx>> /\ tx = None
      BY <1>1 DEF LegacyCommit, LockFree
    <2> HIDE DEF r
    <2>4. IdempotencyReceipted
      BY <2>2, <2>3 DEF IdempotencyReceipted
    <2> QED
      BY <1>1, <2>3, <2>4
      DEF ReceiptStep, IntentReceipted, AccessReceipted, KeyHeld
  <1>2. ASSUME NEW id \in Installations, LegacyInstall(u, id)
        PROVE  ReceiptStep
    BY <1>1, <1>2 DEF LegacyInstall
  <1>3. ASSUME LegacyActivate(u)
        PROVE  ReceiptStep
    BY <1>1, <1>3 DEF LegacyActivate
  <1>4. ASSUME LegacyUninstall(u)
        PROVE  ReceiptStep
    <2>1. LegacyCommit(u, "uninstall")
      BY <1>4 DEF LegacyUninstall
    <2>2. legacy[u].manifest.app \in Apps
      BY <2>1, LegacyCommitShape, ReleaseAssumption
      DEF Safe, LegacyType, ReleaseType
    <2>3. \A t \in Tokens : tokens'[t] = None <=> tokens[t] = None
      BY <1>4, <2>2, RetireKeepsTokens DEF LegacyUninstall
    <2> QED
      BY <1>1, <2>1, <2>3
  <1>5. ASSUME LegacyUnchanged(u)
        PROVE  ReceiptStep
    BY <1>1, <1>5 DEF LegacyUnchanged
  <1>6. ASSUME UNCHANGED <<consent, access, idempotency, tx>>
        PROVE  ReceiptStep
    BY <1>6
    DEF ReceiptStep, IntentReceipted, AccessReceipted, IdempotencyReceipted,
        KeyHeld
  <1> QED
    BY <1>2, <1>3, <1>4, <1>5, <1>6 DEF LegacyStep, LegacyRead, LegacyRefuse

LEMMA EveryStepReceipted ==
    ASSUME Safe, KeyHeld, [Next]_vars
    PROVE  ReceiptStep
  <1>1. ASSUME NEW a \in Apps, CompleteCleanup(a)
        PROVE  ReceiptStep
    <2>1. PICK id \in Installations : id = installs[a].id
      BY <1>1 DEF CompleteCleanup, Safe, Shape, TypeOK, RowType
    <2> DEFINE r == [owner |-> "system-cleanup", key |-> id,
                     op |-> "complete_uninstall", app |-> a]
    <2>2. r \in IdempotencyType /\ r.owner = "system-cleanup" /\ r.key = id
      BY DEF IdempotencyType
    <2>3. /\ UnusedKey(idempotency, "system-cleanup", id)
          /\ idempotency' = idempotency \cup {r}
          /\ UNCHANGED <<consent, consumptions, accessRequests, tx>> /\ tx = None
      BY <1>1, <2>1 DEF CompleteCleanup, LockFree
    <2> HIDE DEF r
    <2>4. \A t \in Tokens : tokens'[t] = None <=> tokens[t] = None
      BY <1>1, RetireKeepsTokens DEF CompleteCleanup
    <2> QED
      BY <2>2, <2>3, <2>4
      DEF ReceiptStep, IntentReceipted, AccessReceipted, IdempotencyReceipted,
          KeyHeld
  <1>2. ASSUME EnvironmentStep \/ UNCHANGED vars
        PROVE  ReceiptStep
    BY <1>2
    DEF EnvironmentStep, Tick, SeedRelease, Distribute, StopDistribution, vars,
        ReceiptStep, IntentReceipted, AccessReceipted, IdempotencyReceipted,
        KeyHeld
  <1> QED
    BY <1>1, <1>2, OwnerReceipts, CommitReceipts, LegacyReceipts DEF Next

LEMMA ReceiptedCounts ==
    ASSUME Receipted
    PROVE  ReceiptsMatchEffects
  <1>1. ASSUME NEW i \in Intents, intents[i] # None
        PROVE  Cardinality(IntentReceipts(i))
                  = IF intents[i].state = "pending" THEN 1 ELSE 2
    <2>1. CASE intents[i].state = "pending"
      BY <1>1, <2>1, FS_Singleton DEF Receipted
    <2>2. CASE intents[i].state # "pending"
      <3>1. PICK x, y : x # y /\ IntentReceipts(i) = {x, y}
        BY <1>1, <2>2 DEF Receipted
      <3>2. Cardinality({x, y}) = 2
        BY <3>1, PairCount
      <3> QED
        BY <2>2, <3>1, <3>2
    <2> QED
      BY <2>1, <2>2
  <1>2. ASSUME NEW id \in Installations, consumptions[id] # None
        PROVE  Cardinality(ConsumeReceipts(id)) = 1
    BY <1>2, FS_Singleton DEF Receipted
  <1>3. ASSUME NEW t \in Tokens, tokens[t] # None
        PROVE  Cardinality(TokenReceipts(t)) = 1
    BY <1>3, FS_Singleton DEF Receipted
  <1> QED
    BY <1>1, <1>2, <1>3
    DEF Receipted, ReceiptsMatchEffects, IntentReceipts, ConsumeReceipts,
        TokenReceipts

(* A key stands for one effect and every effect has its one receipt: the   *)
(* lock keeps the key that a transaction found unused from being used      *)
(* while a registry, a source or a remote app is asked.                    *)
THEOREM ReceiptsStandForEffects == Spec => []ReceiptsMatchEffects
  <1>1. Init => Receipted
    BY DEF Init, Receipted, OneEach, KeyHeld, IntentReceipts, ConsumeReceipts,
           TokenReceipts
  <1>2. Safe /\ Receipted /\ [Next]_vars => Receipted'
    <2> SUFFICES ASSUME Safe, Receipted, [Next]_vars
                 PROVE  Receipted'
      OBVIOUS
    <2>1. ReceiptStep
      BY EveryStepReceipted DEF Receipted
    <2>2. OneEach(idempotency)'
      BY <2>1, OneEachGrows
      DEF ReceiptStep, IdempotencyReceipted, Receipted, OneEach
    <2> QED
      BY <2>1, <2>2, IntentReceiptsKept, AccessReceiptsKept
      DEF ReceiptStep, Receipted
  <1>3. Receipted => ReceiptsMatchEffects
    BY ReceiptedCounts
  <1> QED
    BY <1>1, <1>2, <1>3, SafeAlways, PTL DEF Spec

(***************************************************************************)
(* What the engines are told: the answers about a grant can be ordered by  *)
(* their number, and a managed engine is allowed to act only under what    *)
(* holds when the answer is decided.  Both rest on the safety of the       *)
(* lifecycle.                                                              *)
(***************************************************************************)

USE DEF engineVars, allVars

(* A kept answer is about a grant that exists.  It is behind the grant, or *)
(* it has its number and says what the grant says; and what it reported    *)
(* revoked is.                                                             *)
HeardIsBehind ==
    heard # None =>
        LET grant == grants[heard.ins] IN
        /\ consumptions[heard.ins] # None
        /\ heard.revision <= revision[heard.ins]
        /\ heard.revision = revision[heard.ins] =>
              /\ heard.active = (grant.state = "active")
              /\ heard.revoked = (grant.state = "revoked")
              /\ heard.scopes = grant.scopes \cap ReleaseOf(heard.ins).scopes
        /\ heard.revoked => grant.state = "revoked"

(* A check works on a consumed installation of a managed release, and once *)
(* it holds the release that stays distributed.                            *)
CheckHoldsRelease ==
    check # None =>
        /\ consumptions[check.ins] # None
        /\ check.release = ReleaseOf(check.ins)
        /\ check.release.profile = "managed-shipping-local"
        /\ check.at # "target" => check.release \in distributed

EngineSafe ==
    /\ Safe
    /\ EngineTypeOK
    /\ HeardIsBehind
    /\ CheckHoldsRelease

LEMMA EngineSafeInit == EngineInit => EngineSafe
  <1> SUFFICES ASSUME EngineInit PROVE EngineSafe
    OBVIOUS
  <1>1. Safe
    BY SafeInit DEF EngineInit
  <1> QED
    BY <1>1 DEF EngineInit, EngineSafe, EngineTypeOK, HeardIsBehind,
                CheckHoldsRelease

-----------------------------------------------------------------------------
(* The lifecycle under the engines *)

(* To the lifecycle the engines are stuttering.                            *)
LEMMA EnginesOnlyRead == ASSUME [EngineNext]_allVars PROVE [Next]_vars
  <1>1. CASE LifecycleStep
    BY <1>1 DEF LifecycleStep
  <1>2. CASE EngineStep
    BY <1>2 DEF EngineStep, CheckGrant, ManagedTarget, HoldRelease,
                WithManagedAccess, EndCheck
  <1>3. CASE UNCHANGED allVars
    BY <1>3
  <1> QED
    BY <1>1, <1>2, <1>3 DEF EngineNext

(* A step of the lifecycle keeps the release of a consumed installation.   *)
LEMMA ConsumedStays ==
    ASSUME Safe, [Next]_vars, NEW id \in Installations, consumptions[id] # None
    PROVE  consumptions'[id] # None /\ ReleaseOf(id)' = ReleaseOf(id)
  <1>1. Shape
    BY DEF Safe
  <1>2. Kept
    BY <1>1, NextSound, StutterSound DEF Sound
  <1>3. consumptions[id].intent \in Intents /\ IntentOf(id) # None
    BY <1>1, ConsumedType DEF Shape, References
  <1> QED
    BY <1>2, <1>3 DEF Kept, ReleaseOf, IntentOf

(* A grant exists with its consumption, and says what the row says.        *)
LEMMA GrantSays ==
    ASSUME Safe, NEW id \in Installations, consumptions[id] # None
    PROVE  /\ grants[id] \in GrantType
           /\ grants[id].state = "active" <=> StatusOf(id) = "active"
           /\ grants[id].state = "revoked" <=> StatusOf(id) \notin Live
           /\ grants[id].state # "active" => grants[id].scopes = {}
  <1>1. grants[id] = DueGrant(id)
    BY DEF Safe, GrantFollowsRow
  <1>2. grants[id] \in GrantType
    <2>1. ReleaseOf(id) \in Releases
      BY ConsumedType DEF Safe
    <2>2. ReleaseOf(id).scopes \subseteq Scopes
      BY <2>1, ReleaseAssumption DEF ReleaseType
    <2> QED
      BY <1>1, <2>2 DEF DueGrant, GrantType
  <1> QED
    BY <1>1, <1>2 DEF DueGrant, Live

(* A revoked grant stays revoked, whatever the lifecycle does next.        *)
LEMMA GrantStaysRevoked ==
    ASSUME Safe, [Next]_vars, NEW id \in Installations,
           consumptions[id] # None, grants[id].state = "revoked"
    PROVE  grants'[id].state = "revoked"
  <1>1. grants[id] # None /\ grants[id] \in GrantType /\ events[id] # <<>>
    BY GrantSays, NoneAssumption DEF Safe, Shape, References
  <1>2. grants \in [Installations -> GrantType \cup {None}]
    BY DEF Safe, Shape, TypeOK
  <1>3. CASE UNCHANGED <<grants, tokens, consumptions>>
    BY <1>3
  <1>4. ASSUME NEW other \in Installations, CommitConsume(other)
        PROVE  grants'[id] = grants[id]
    BY <1>1, <1>2, <1>4 DEF CommitConsume, Unused
  <1>5. CASE CommitActivate
    BY <1>1, <1>2, <1>5 DEF CommitActivate
  <1>6. ASSUME NEW t \in Tokens, CommitIssueToken(t)
        PROVE  grants' = grants
    BY <1>6 DEF CommitIssueToken
  <1>7. CASE RetireStep
    BY <1>1, <1>2, <1>7 DEF RetireStep, Retire, RevokeAccess
  <1> QED
    BY <1>3, <1>4, <1>5, <1>6, <1>7, WhoWritesAuthority

LEMMA LifecycleKeepsHeard ==
    ASSUME EngineSafe, LifecycleStep
    PROVE  HeardIsBehind'
  <1> SUFFICES ASSUME heard # None PROVE HeardIsBehind'
    BY DEF LifecycleStep, HeardIsBehind
  <1>1. PICK id \in Installations : id = heard.ins
    BY DEF EngineSafe, EngineTypeOK, AnswerType
  <1>2. heard' = heard /\ Safe /\ [Next]_vars
    BY DEF LifecycleStep, EngineSafe
  <1>3. /\ consumptions[id] # None
        /\ heard.revision <= revision[id]
        /\ heard.revision = revision[id] =>
              /\ heard.active = (grants[id].state = "active")
              /\ heard.revoked = (grants[id].state = "revoked")
              /\ heard.scopes = grants[id].scopes \cap ReleaseOf(id).scopes
        /\ heard.revoked => grants[id].state = "revoked"
    BY <1>1 DEF EngineSafe, HeardIsBehind
  <1>4. consumptions'[id] # None /\ ReleaseOf(id)' = ReleaseOf(id)
    BY <1>2, <1>3, ConsumedStays
  <1>5. heard.revoked => grants'[id].state = "revoked"
    BY <1>2, <1>3, GrantStaysRevoked
  <1>6. heard.revision \in Nat /\ revision[id] \in Nat
    BY DEF EngineSafe, EngineTypeOK, AnswerType
  <1>7. IF grants'[id] # grants[id] THEN revision'[id] = revision[id] + 1
                                    ELSE revision'[id] = revision[id]
    BY DEF LifecycleStep, NumberGrants
  <1>8. /\ heard.revision <= revision'[id]
        /\ heard.revision = revision'[id] => grants'[id] = grants[id]
        /\ heard.revision = revision'[id] => heard.revision = revision[id]
    BY <1>3, <1>6, <1>7
  <1>9. heard'.ins = id
    BY <1>1, <1>2
  <1>10. heard.revision = revision'[id] =>
              /\ heard.active = (grants'[id].state = "active")
              /\ heard.revoked = (grants'[id].state = "revoked")
              /\ heard.scopes = grants'[id].scopes \cap ReleaseOf(id)'.scopes
    BY <1>3, <1>4, <1>8
  <1> QED
    BY <1>2, <1>4, <1>5, <1>8, <1>9, <1>10 DEF HeardIsBehind

LEMMA LifecycleKeepsCheck ==
    ASSUME EngineSafe, LifecycleStep
    PROVE  CheckHoldsRelease'
  <1> SUFFICES ASSUME check # None PROVE CheckHoldsRelease'
    BY DEF LifecycleStep, CheckHoldsRelease
  <1>1. PICK id \in Installations : id = check.ins
    BY DEF EngineSafe, EngineTypeOK, CheckType
  <1>2. check' = check /\ Safe /\ [Next]_vars
    BY DEF LifecycleStep, EngineSafe
  <1>3. /\ consumptions[id] # None /\ check.release = ReleaseOf(id)
        /\ check.release.profile = "managed-shipping-local"
    BY <1>1 DEF EngineSafe, CheckHoldsRelease
  <1>4. consumptions'[id] # None /\ ReleaseOf(id)' = ReleaseOf(id)
    BY <1>2, <1>3, ConsumedStays
  <1>5. check.at # "target" => check.release \in distributed'
    BY DEF LifecycleStep, HeldByCheck
  <1>6. check'.ins = id
    BY <1>1, <1>2
  <1> QED
    BY <1>2, <1>3, <1>4, <1>5, <1>6 DEF CheckHoldsRelease

LEMMA LifecycleSafe ==
    ASSUME EngineSafe, LifecycleStep
    PROVE  EngineSafe'
  <1>1. Safe'
    BY SafeNext DEF EngineSafe, LifecycleStep
  <1>2. EngineTypeOK'
    <2>1. revision' \in [Installations -> Nat]
      BY DEF EngineSafe, EngineTypeOK, LifecycleStep, NumberGrants
    <2> QED
      BY <2>1 DEF EngineSafe, EngineTypeOK, LifecycleStep
  <1> QED
    BY <1>1, <1>2, LifecycleKeepsHeard, LifecycleKeepsCheck DEF EngineSafe

-----------------------------------------------------------------------------
(* The engines' requests *)

LEMMA CheckGrantSafe ==
    ASSUME EngineSafe, NEW id \in Installations, NEW operation,
           CheckGrant(id, operation)
    PROVE  EngineSafe'
  <1>1. UNCHANGED <<vars, revision, check>> /\ consumptions[id] # None
    BY DEF CheckGrant, Targets
  <1>2. Safe'
    BY <1>1, SafeNext DEF EngineSafe
  <1>3. ReleaseOf(id) \in Releases /\ grants[id] \in GrantType
    BY <1>1, ConsumedType, GrantSays DEF EngineSafe, Safe
  <1>4. CheckHoldsRelease'
    <2>1. check # None => check.ins \in Installations
      BY DEF EngineSafe, EngineTypeOK, CheckType
    <2> QED
      BY <1>1, <2>1 DEF EngineSafe, CheckHoldsRelease, ReleaseOf, IntentOf, vars
  <1>5. /\ heard'.ins = id
        /\ heard'.revision = revision[id]
        /\ heard'.active = (grants[id].state = "active")
        /\ heard'.revoked = (grants[id].state = "revoked")
        /\ heard'.scopes = grants[id].scopes \cap ReleaseOf(id).scopes
        /\ heard' \in AnswerType
    <2> DEFINE active  == StatusOf(id) = "active" /\ grants[id].state = "active"
               revoked == grants[id].state = "revoked" \/ StatusOf(id) \notin Live
               scopes  == grants[id].scopes \cap ReleaseOf(id).scopes
    <2>1. heard' = [ins |-> id, revision |-> revision[id], active |-> active,
                    revoked |-> revoked,
                    scopes |-> IF active /\ ~revoked THEN scopes ELSE {}]
      BY DEF CheckGrant, Snapshot
    <2>2. /\ active = (grants[id].state = "active")
          /\ revoked = (grants[id].state = "revoked")
          /\ active => ~revoked
      BY <1>1, GrantSays DEF EngineSafe
    <2>3. ~active => scopes = {}
      BY <1>1, <2>2, GrantSays DEF EngineSafe
    <2>4. scopes \subseteq Scopes /\ revision[id] \in Nat
      BY <1>3 DEF GrantType, EngineSafe, EngineTypeOK
    <2>5. active \in BOOLEAN /\ revoked \in BOOLEAN
      OBVIOUS
    <2> HIDE DEF active, revoked, scopes
    <2>6. (IF active /\ ~revoked THEN scopes ELSE {}) = scopes
      BY <2>2, <2>3
    <2> QED
      BY <2>1, <2>2, <2>4, <2>5, <2>6 DEF AnswerType, scopes
  <1>6. HeardIsBehind'
    <2>1. revision[id] \in Nat
      BY DEF EngineSafe, EngineTypeOK
    <2>2. /\ grants' = grants /\ revision' = revision
          /\ consumptions' = consumptions /\ intents' = intents
      BY <1>1 DEF vars
    <2>3. ReleaseOf(heard.ins)' = ReleaseOf(id)
      BY <1>5, <2>2 DEF ReleaseOf, IntentOf
    <2>4. /\ grants'[heard'.ins] = grants[id]
          /\ consumptions'[heard'.ins] = consumptions[id]
          /\ revision'[heard'.ins] = revision[id]
      BY <1>5, <2>2
    <2>5. revision[id] <= revision[id]
      BY <2>1
    <2>6. heard'.revoked => grants[id].state = "revoked"
      BY <1>5
    <2> QED
      BY <1>1, <1>5, <2>3, <2>4, <2>5, <2>6 DEF HeardIsBehind
  <1> QED
    BY <1>1, <1>2, <1>4, <1>5, <1>6 DEF EngineSafe, EngineTypeOK

(* Between requests a check changes nothing that is heard or numbered.     *)
LEMMA CheckStepKeeps ==
    ASSUME EngineSafe, UNCHANGED <<vars, revision, heard>>,
           check' \in CheckType \cup {None}, CheckHoldsRelease'
    PROVE  EngineSafe'
  <1>1. Safe'
    BY SafeNext DEF EngineSafe
  <1>2. HeardIsBehind'
    <2>1. heard # None => heard.ins \in Installations
      BY DEF EngineSafe, EngineTypeOK, AnswerType
    <2> QED
      BY <2>1 DEF EngineSafe, HeardIsBehind, ReleaseOf, IntentOf, vars
  <1> QED
    BY <1>1, <1>2 DEF EngineSafe, EngineTypeOK

LEMMA ManagedTargetSafe ==
    ASSUME EngineSafe, NEW id \in Installations, NEW provider \in Providers,
           ManagedTarget(provider, id)
    PROVE  EngineSafe'
  <1>1. /\ consumptions[id] # None
        /\ ReleaseOf(id).profile = "managed-shipping-local"
    BY DEF ManagedTarget, ActiveManaged
  <1>2. ReleaseOf(id) \in Releases
    BY <1>1, ConsumedType DEF EngineSafe, Safe
  <1>3. /\ check' = [at |-> "target", ins |-> id, release |-> ReleaseOf(id)]
        /\ UNCHANGED <<vars, revision, heard>>
    BY DEF ManagedTarget
  <1>4. check' \in CheckType
    BY <1>2, <1>3 DEF CheckType
  <1>5. ReleaseOf(id)' = ReleaseOf(id) /\ consumptions' = consumptions
    BY <1>3 DEF ReleaseOf, IntentOf, vars
  <1>6. CheckHoldsRelease'
    BY <1>1, <1>3, <1>5 DEF CheckHoldsRelease
  <1> QED
    BY <1>3, <1>4, <1>6, CheckStepKeeps

(* Holding the release and answering move a check on.                      *)
LEMMA CheckMovesOn ==
    ASSUME EngineSafe, HoldRelease \/ WithManagedAccess
    PROVE  EngineSafe'
  <1>1. PICK at \in {"held", "allowed"} : check' = [check EXCEPT !.at = at]
    BY DEF HoldRelease, WithManagedAccess
  <1>2. check \in CheckType /\ UNCHANGED <<vars, revision, heard>>
    BY DEF EngineSafe, EngineTypeOK, HoldRelease, WithManagedAccess
  <1>3. PICK id \in Installations : id = check.ins
    BY <1>2 DEF CheckType
  <1>4. /\ consumptions[id] # None /\ check.release = ReleaseOf(id)
        /\ check.release.profile = "managed-shipping-local"
        /\ check.at # "target" => check.release \in distributed
    BY <1>3 DEF EngineSafe, CheckHoldsRelease, HoldRelease, WithManagedAccess
  <1>5. check.release \in distributed
    <2>1. CASE HoldRelease
      BY <2>1 DEF HoldRelease, OnlyDistributed
    <2>2. CASE WithManagedAccess
      BY <1>4, <2>2 DEF WithManagedAccess
    <2> QED
      BY <2>1, <2>2
  <1>6. /\ check' \in CheckType
        /\ check'.ins = id /\ check'.release = check.release
    BY <1>1, <1>2, <1>3 DEF CheckType
  <1>7. /\ ReleaseOf(id)' = ReleaseOf(id) /\ consumptions' = consumptions
        /\ distributed' = distributed
    BY <1>2 DEF ReleaseOf, IntentOf, vars
  <1>8. CheckHoldsRelease'
    BY <1>4, <1>5, <1>6, <1>7 DEF CheckHoldsRelease
  <1> QED
    BY <1>2, <1>6, <1>8, CheckStepKeeps

LEMMA EngineNextSafe ==
    ASSUME EngineSafe, [EngineNext]_allVars
    PROVE  EngineSafe'
  <1>1. CASE LifecycleStep
    BY <1>1, LifecycleSafe
  <1>2. CASE EngineStep
    <2>1. CASE EndCheck
      <3>1. check' = None /\ UNCHANGED <<vars, revision, heard>>
        BY <2>1 DEF EndCheck
      <3>2. CheckHoldsRelease'
        BY <3>1 DEF CheckHoldsRelease
      <3> QED
        BY <3>1, <3>2, CheckStepKeeps
    <2> QED
      BY <1>2, <2>1, CheckGrantSafe, ManagedTargetSafe, CheckMovesOn
      DEF EngineStep
  <1>3. CASE UNCHANGED allVars
    <2>1. check # None => check.ins \in Installations
      BY DEF EngineSafe, EngineTypeOK, CheckType
    <2>2. CheckHoldsRelease'
      BY <1>3, <2>1 DEF EngineSafe, CheckHoldsRelease, ReleaseOf, IntentOf, vars
    <2>3. check' \in CheckType \cup {None} /\ UNCHANGED <<vars, revision, heard>>
      BY <1>3 DEF EngineSafe, EngineTypeOK
    <2> QED
      BY <2>2, <2>3, CheckStepKeeps
  <1> QED
    BY <1>1, <1>2, <1>3 DEF EngineNext

LEMMA EngineSafeAlways == EngineSpec => []EngineSafe
  BY EngineSafeInit, EngineNextSafe, PTL DEF EngineSpec

-----------------------------------------------------------------------------
(* The theorems *)

(* Asking engines leave the lifecycle as it was: whatever is proved of     *)
(* Installation holds with the engines beside it.                          *)
THEOREM EnginesKeepTheLifecycle == EngineSpec => Spec
  <1>1. EngineInit => Init
    BY DEF EngineInit
  <1> QED
    BY <1>1, EnginesOnlyRead, PTL DEF EngineSpec, Spec

(* The numbers, the answers and the checks keep their shape (the revision  *)
(* trigger of access_grants, ManagedTarget and WithManagedAccess).         *)
THEOREM EngineTypeCorrect == EngineSpec => []EngineTypeOK
  BY EngineSafeAlways, PTL DEF EngineSafe

(* However late a grant answer arrives, its number tells whether it is the *)
(* newer one, and equal numbers mean equal answers (CheckGrant).           *)
THEOREM GrantAnswersCanBeOrdered == EngineSpec => []GrantAnswersAreOrdered
  <1>1. ASSUME EngineSafe PROVE GrantAnswersAreOrdered
    <2> SUFFICES ASSUME heard # None, heard.ins \in Targets
                 PROVE  LET later == Snapshot(heard.ins) IN
                        /\ heard.revision <= later.revision
                        /\ heard.revision = later.revision => heard = later
                        /\ heard.revoked => later.revoked
      BY DEF GrantAnswersAreOrdered
    <2>1. PICK id \in Installations : id = heard.ins /\ heard \in AnswerType
      BY <1>1 DEF EngineSafe, EngineTypeOK, AnswerType
    <2>2. /\ consumptions[id] # None
          /\ heard.revision <= revision[id]
          /\ heard.revision = revision[id] =>
                /\ heard.active = (grants[id].state = "active")
                /\ heard.revoked = (grants[id].state = "revoked")
                /\ heard.scopes = grants[id].scopes \cap ReleaseOf(id).scopes
          /\ heard.revoked => grants[id].state = "revoked"
      BY <1>1, <2>1 DEF EngineSafe, HeardIsBehind
    <2>3. /\ grants[id].state = "active" <=> StatusOf(id) = "active"
          /\ grants[id].state = "revoked" <=> StatusOf(id) \notin Live
      BY <1>1, <2>2, GrantSays DEF EngineSafe
    <2>4. heard = [ins |-> heard.ins, revision |-> heard.revision,
                   active |-> heard.active, revoked |-> heard.revoked,
                   scopes |-> heard.scopes]
      BY <2>1 DEF AnswerType
    <2> QED
      BY <2>1, <2>2, <2>3, <2>4 DEF Snapshot
  <1> QED
    BY <1>1, EngineSafeAlways, PTL

(* Target, release and grant are read by three transactions, yet the engine*)
(* that is allowed is the only one that serves the provider, under an      *)
(* active grant and a distributed release (WithManagedAccess).             *)
THEOREM EnginesActOnCurrentGrants == EngineSpec => EngineAnswersAreCurrent
  <1>1. ASSUME EngineSafe, [EngineNext]_allVars, Allowing
        PROVE  /\ ActiveManaged(ReleaseOf(check.ins).provider) = {check.ins}
               /\ ReleaseOf(check.ins) \in distributed
    <2>1. WithManagedAccess
      BY <1>1 DEF Allowing, EngineNext, LifecycleStep, EngineStep, CheckGrant,
                  ManagedTarget, HoldRelease, EndCheck, EngineSafe,
                  EngineTypeOK, CheckType
    <2>2. PICK id \in Installations : id = check.ins
      BY <1>1, <2>1 DEF WithManagedAccess, EngineSafe, EngineTypeOK, CheckType
    <2>3. /\ consumptions[id] # None /\ check.release = ReleaseOf(id)
          /\ ReleaseOf(id).profile = "managed-shipping-local"
          /\ ReleaseOf(id) \in distributed
      BY <1>1, <2>1, <2>2 DEF WithManagedAccess, EngineSafe, CheckHoldsRelease
    <2>4. StatusOf(id) = "active" /\ grants[id].state = "active"
      BY <2>1, <2>2 DEF WithManagedAccess
    <2>5. id \in ActiveManaged(ReleaseOf(id).provider)
      BY <2>3, <2>4 DEF ActiveManaged
    <2>6. ASSUME NEW other \in ActiveManaged(ReleaseOf(id).provider)
          PROVE  other = id
      <3>1. /\ other \in Installations /\ ServesEngine(other)
            /\ ReleaseOf(other).provider = ReleaseOf(id).provider
        BY <2>6 DEF ActiveManaged, ServesEngine, EngineProfiles
      <3>2. ServesEngine(id)
        BY <2>3, <2>4 DEF ServesEngine, EngineProfiles
      <3> QED
        BY <1>1, <3>1, <3>2 DEF EngineSafe, Safe, ProviderExclusive
    <2> QED
      BY <2>2, <2>3, <2>5, <2>6
  <1> QED
    BY <1>1, EngineSafeAlways, PTL DEF EngineSpec, EngineAnswersAreCurrent
=============================================================================
