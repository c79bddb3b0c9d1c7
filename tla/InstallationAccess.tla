------------------------- MODULE InstallationAccess -------------------------
(***************************************************************************)
(* The installation database implements AccessAuthority: the grant table   *)
(* is the authority, and the live row of the token table is the credential.*)
(***************************************************************************)
EXTENDS Installation

AuthorityOf(id) == IF grants[id] = None THEN "none" ELSE grants[id].state

LiveTokenOf(id) ==
    IF \E t \in Tokens : LiveToken(t) /\ tokens[t].ins = id
    THEN CHOOSE t \in Tokens : LiveToken(t) /\ tokens[t].ins = id
    ELSE None

Access == INSTANCE AccessAuthority WITH
    Ids <- Installations,
    Credentials <- Tokens,
    NoCredential <- None,
    authority <- [id \in Installations |-> AuthorityOf(id)],
    credential <- [id \in Installations |-> LiveTokenOf(id)],
    issued <- {t \in Tokens : tokens[t] # None}

(* Consume, activate, issue_token and every way to uninstall are the four  *)
(* steps of AccessAuthority, and nothing else touches authority.           *)
ImplementsAccessAuthority == Access!Spec
=============================================================================
