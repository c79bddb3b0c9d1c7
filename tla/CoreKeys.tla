------------------------------ MODULE CoreKeys ------------------------------
(***************************************************************************)
(* The keys Core calls the platform with.  An administrator creates tenant *)
(* keys and platform keys in the portal, under a request key the browser   *)
(* repeats when an answer is lost; the local operator issues, rotates and  *)
(* revokes the one service account of core-local-store, whose token lives  *)
(* in a private file.                                                      *)
(*                                                                         *)
(* A key made in the portal is named by the call that made it, and so is   *)
(* its token.  Tokens of core-local-store are numbered.                    *)
(***************************************************************************)
EXTENDS Naturals, Null

CONSTANTS
    KeyCalls,      \* POSTs of the administrator's browser
    KeyRequests,   \* the Idempotency-Keys they carry
    Bodies,        \* what they ask for (the fingerprint)
    MaxRotations  \* bound: tokens of core-local-store

ASSUME KeysAssumption ==
    /\ MaxRotations \in Nat
    /\ None \notin KeyCalls \cup Bodies

Kinds == {"managed", "platform"}

VARIABLES
    keys,     \* service_accounts of managed keys, and core_platform_keys
    issued,   \* the unique (actor, request_key) of managed_service_keys and
              \* core_platform_keys
    calls,    \* each POST
    core,     \* the service account core-local-store
    coreFile, \* the token in .local/core.json
    command   \* the token a CLI command has stored but not yet written

keyVars == <<keys, issued, calls, core, coreFile, command>>

KeyType == [kind : Kinds, revoked : BOOLEAN, expired : BOOLEAN]
CallStages == {"lock", "insert", "created", "replayed", "told", "repeated",
               "lost", "refused", "failed"}
CallType ==
    [at : CallStages, kind : Kinds, request : KeyRequests, body : Bodies]
IssuedType == [key : KeyCalls, body : Bodies]
CoreType == [token : Nat, revoked : BOOLEAN, expired : BOOLEAN]

\* None is no row of a table, no call and none of its stages.
ASSUME KeyRowsAssumption ==
    /\ None \notin KeyType /\ None \notin CallStages
    /\ None \notin CallType /\ None \notin IssuedType
    /\ None \notin CoreType /\ None \notin Nat

KeysTypeOK ==
    /\ keys \in [KeyCalls -> KeyType \cup {None}]
    /\ issued \in [Kinds \X KeyRequests -> IssuedType \cup {None}]
    /\ calls \in [KeyCalls -> CallType \cup {None}]
    /\ core \in CoreType \cup {None}
    /\ coreFile \in Nat \cup {None} /\ command \in Nat \cup {None}

\* The earlier calls of a kind under a request key
MadeUnder(earlier, q) ==
    {c \in DOMAIN earlier : q = <<earlier[c].kind, earlier[c].request>>}

\* The calls that made a key and told its secret before the story begins
KeysInit(earlier) ==
    /\ calls = [c \in KeyCalls |->
            IF c \in DOMAIN earlier THEN earlier[c] ELSE None]
    /\ keys = [c \in KeyCalls |->
            IF c \in DOMAIN earlier
            THEN [kind |-> earlier[c].kind, revoked |-> FALSE,
                  expired |-> FALSE]
            ELSE None]
    /\ issued = [q \in Kinds \X KeyRequests |->
            IF MadeUnder(earlier, q) = {} THEN None
            ELSE LET c == CHOOSE c \in MadeUnder(earlier, q) : TRUE
                 IN  [key |-> c, body |-> earlier[c].body]]
    /\ core = None /\ coreFile = None /\ command = None

cli == <<core, coreFile, command>>

\* FindService and FindPlatformService: who a portal key's token is.
KeyAuthenticates(c) ==
    /\ keys[c] # None
    /\ ~keys[c].revoked
    /\ ~keys[c].expired

\* ServiceAllowed and PlatformServiceAllowed ask again for the tenant at hand.
CoreAuthenticates(token) ==
    /\ core # None
    /\ core.token = token
    /\ ~core.revoked /\ ~core.expired

----------------------------------------------------------------------------
(* Keys made in the portal *)

CallAt(c) == IF calls[c] = None THEN None ELSE calls[c].at
CallTo(c, at) == calls' = [calls EXCEPT ![c].at = at]
RowOf(c) == issued[<<calls[c].kind, calls[c].request>>]

\* The advisory lock of the request, held until the transaction ends.
Held(c) == \E d \in KeyCalls :
    /\ CallAt(d) = "insert"
    /\ calls[d].kind = calls[c].kind /\ calls[d].request = calls[c].request

\* ManagedKeys.Create and PlatformKeys.Create, by an administrator, with a
\* valid form; the token is drawn before the transaction.
Create(c, kind, request, body) ==
    /\ calls[c] = None
    /\ calls' = [calls EXCEPT ![c] = [at |-> "lock", kind |-> kind,
            request |-> request, body |-> body]]
    /\ UNCHANGED <<keys, issued, cli>>

\* Mutant: the request key is looked up without its lock.
CreateUnlocked(c) ==
    /\ CallAt(c) = "lock"
    /\ CallTo(c, IF RowOf(c) = None THEN "insert"
                 ELSE IF RowOf(c).body = calls[c].body THEN "replayed"
                 ELSE "refused")
    /\ UNCHANGED <<keys, issued, cli>>

\* A request key that was used answers with the key it made, never with its
\* secret, and a different form under it is a conflict.
CreateLocked(c) ==
    /\ CallAt(c) = "lock"
    /\ ~Held(c)
    /\ CallTo(c, IF RowOf(c) = None THEN "insert"
                 ELSE IF RowOf(c).body = calls[c].body THEN "replayed"
                 ELSE "refused")
    /\ UNCHANGED <<keys, issued, cli>>

\* The rows of the key and of its request, and the audit, in one commit;
\* the request key is unique.
CreateCommits(c) ==
    /\ CallAt(c) = "insert"
    /\ IF RowOf(c) # None
       THEN CallTo(c, "failed") /\ UNCHANGED <<keys, issued>>
       ELSE /\ keys' = [keys EXCEPT ![c] = [kind |-> calls[c].kind,
                    revoked |-> FALSE, expired |-> FALSE]]
            /\ issued' = [issued EXCEPT ![<<calls[c].kind, calls[c].request>>] =
                    [key |-> c, body |-> calls[c].body]]
            /\ CallTo(c, "created")
    /\ UNCHANGED cli

\* The form names a workspace that does not exist, or the database fails.
CreateRollsBack(c) ==
    /\ CallAt(c) \in {"lock", "insert"}
    /\ CallTo(c, "refused")
    /\ UNCHANGED <<keys, issued, cli>>

\* The answer carries the secret only when this call made the key; it may
\* get lost.
Tell(c) ==
    /\ CallAt(c) \in {"created", "replayed"}
    /\ \/ CallTo(c, IF CallAt(c) = "created" THEN "told" ELSE "repeated")
       \/ CallTo(c, "lost")
    /\ UNCHANGED <<keys, issued, cli>>

\* RevokeManagedKey and RevokePlatformKey; to revoke again changes nothing.
RevokeKey(c) ==
    /\ keys[c] # None
    /\ keys' = [keys EXCEPT ![c].revoked = TRUE]
    /\ UNCHANGED <<issued, calls, cli>>

\* Managed keys end after 1 to 30 days, platform keys never do.
KeyExpires(c) ==
    /\ keys[c] # None
    /\ keys[c].kind = "managed"
    /\ keys' = [keys EXCEPT ![c].expired = TRUE]
    /\ UNCHANGED <<issued, calls, cli>>

----------------------------------------------------------------------------
(* The operator's commands for core-local-store *)

portal == <<keys, issued, calls>>
NextToken == IF core = None THEN 0 ELSE core.token + 1
Fresh(token) == [token |-> token, revoked |-> FALSE, expired |-> FALSE]

\* init-core: it preserves a token that still works, and makes the account
\* when there is neither a file nor a row; anything else is refused.
InitCore ==
    /\ command = None
    /\ coreFile = None
    /\ core = None
    /\ core' = Fresh(NextToken)
    /\ command' = NextToken
    /\ UNCHANGED <<portal, coreFile>>

\* rotate-core: PutService replaces the token and lifts a revocation.
RotateCore ==
    /\ command = None
    /\ core # None
    /\ NextToken <= MaxRotations
    /\ core' = Fresh(NextToken)
    /\ command' = NextToken
    /\ UNCHANGED <<portal, coreFile>>

RevokeCore ==
    /\ core # None
    /\ core' = [core EXCEPT !.revoked = TRUE]
    /\ UNCHANGED <<portal, coreFile, command>>

CoreExpires ==
    /\ core # None
    /\ core' = [core EXCEPT !.expired = TRUE]
    /\ UNCHANGED <<portal, coreFile, command>>

\* The token goes to the file after the commit, or is lost with the command.
WriteCore ==
    /\ command # None
    /\ command' = None
    /\ coreFile' \in {coreFile, command}
    /\ UNCHANGED <<portal, core>>

KeysNext ==
    \/ \E c \in KeyCalls :
        \/ \E kind \in Kinds, q \in KeyRequests, b \in Bodies :
            Create(c, kind, q, b)
        \/ CreateLocked(c) \/ CreateCommits(c) \/ CreateRollsBack(c)
        \/ Tell(c) \/ RevokeKey(c) \/ KeyExpires(c)

CoreNext ==
    InitCore \/ RotateCore \/ RevokeCore \/ CoreExpires \/ WriteCore

----------------------------------------------------------------------------
(* Properties *)

\* However often a browser repeats a request, at once or after a lost
\* answer, one key is made under it and its secret is told once at most:
\* every key in the table is the key of its request, and only the call that
\* made a key learns its secret.  No repetition fails because another is
\* just being made.
OneKeyPerRequest ==
    \A c \in KeyCalls :
        /\ CallAt(c) # "failed"
        /\ keys[c] # None =>
            /\ CallAt(c) \in {"created", "told", "lost"}
            /\ RowOf(c) # None
            /\ RowOf(c).key = c
        /\ CallAt(c) = "told" => keys[c] # None
        /\ CallAt(c) = "repeated" => keys[c] = None /\ RowOf(c).key # c

\* A key that has been revoked or has run out never works again; when a
\* rotation lifts a revocation, it is with a token nobody had.
KeysStayDead ==
    /\ \A c \in KeyCalls :
            keys[c] # None /\ KeyAuthenticates(c)' => KeyAuthenticates(c)
    /\ core # None =>
            \A n \in 0..core.token :
                CoreAuthenticates(n)' => CoreAuthenticates(n)
=============================================================================
