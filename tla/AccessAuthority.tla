-------------------------- MODULE AccessAuthority --------------------------
(***************************************************************************)
(* What consent-bound access promises of every installation: authority is  *)
(* given in two steps, can be withdrawn at any time, never returns, and at *)
(* most one credential carries it, only while it is granted.               *)
(***************************************************************************)
CONSTANTS Ids, Credentials, NoCredential

VARIABLES
    authority,   \* what each installation may do
    credential,  \* the credential that carries it
    issued       \* the credentials that were ever issued

vars == <<authority, credential, issued>>

Init ==
    /\ authority = [id \in Ids |-> "none"]
    /\ credential = [id \in Ids |-> NoCredential]
    /\ issued = {}

Request(id) ==
    /\ authority[id] = "none"
    /\ authority' = [authority EXCEPT ![id] = "pending"]
    /\ UNCHANGED <<credential, issued>>

Grant(id) ==
    /\ authority[id] = "pending"
    /\ authority' = [authority EXCEPT ![id] = "active"]
    /\ UNCHANGED <<credential, issued>>

Issue(id, c) ==
    /\ authority[id] = "active"
    /\ c \notin issued
    /\ credential' = [credential EXCEPT ![id] = c]
    /\ issued' = issued \cup {c}
    /\ UNCHANGED authority

Revoke(id) ==
    /\ authority[id] \in {"pending", "active"}
    /\ authority' = [authority EXCEPT ![id] = "revoked"]
    /\ credential' = [credential EXCEPT ![id] = NoCredential]
    /\ UNCHANGED issued

Next == \E id \in Ids :
            \/ Request(id) \/ Grant(id) \/ Revoke(id)
            \/ \E c \in Credentials : Issue(id, c)

Spec == Init /\ [][Next]_vars
=============================================================================
