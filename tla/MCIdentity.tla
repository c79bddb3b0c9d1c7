----------------------------- MODULE MCIdentity -----------------------------
(***************************************************************************)
(* One small instance of each credential component.  They share no state,  *)
(* so their product would add no behaviour of any of them: a run is about  *)
(* one of them, its focus, and leaves the others as they began.            *)
(***************************************************************************)
EXTENDS MerchantLogin, CoreCalls, AppClients, TLC

CONSTANT SignedIn  \* developers with a session when administrators log in

CONSTANTS PlatformCall, ManagedCall  \* two of KeyCalls

ASSUME IdentityAssumption ==
    /\ SignedIn \subseteq DevLogins
    /\ PlatformCall \in KeyCalls /\ ManagedCall \in KeyCalls
    /\ PlatformCall # ManagedCall
    /\ KeyRequests # {} /\ Bodies # {}

\* One key of each kind, for the calls Core makes with them
BothKinds ==
    [c \in {PlatformCall, ManagedCall} |->
        [at |-> "told",
         kind |-> IF c = PlatformCall THEN "platform" ELSE "managed",
         request |-> CHOOSE q \in KeyRequests : TRUE,
         body |-> CHOOSE b \in Bodies : TRUE]]

VARIABLE focus

vars ==
    <<focus, portalVars, merchantVars, keyVars, callVars, clientVars>>

Focuses == {"passwords", "users", "developers", "keys", "calls",
            "operator", "clients", "credential"}

Symmetry ==
    Permutations(Logins) \cup Permutations(DevLogins \ SignedIn)
        \cup Permutations(Requests)

Init ==
    /\ focus \in Focuses
    /\ PortalInit(IF focus = "passwords" THEN SignedIn ELSE {})
    /\ MerchantInit
    /\ KeysInit(IF focus = "calls" THEN BothKinds ELSE <<>>)
    /\ CallsInit
    /\ ClientsInit

Next ==
    /\ UNCHANGED focus
    /\ \/ /\ focus = "passwords"
          /\ PortalNext
          /\ UNCHANGED <<merchantVars, keyVars, callVars, clientVars>>
       \/ /\ focus = "users"
          /\ UserNext
          /\ UNCHANGED <<merchantVars, keyVars, callVars, clientVars>>
       \/ /\ focus = "developers"
          /\ \/ MerchantNext
             \/ (\E t \in DevLogins : Expire(t)) /\ UNCHANGED merchantVars
          /\ UNCHANGED <<keyVars, callVars, clientVars>>
       \/ /\ focus \in {"keys", "operator"}
          /\ IF focus = "keys" THEN KeysNext ELSE CoreNext
          /\ UNCHANGED <<portalVars, merchantVars, callVars, clientVars>>
       \/ /\ focus = "calls"
          /\ CallsNext
          /\ UNCHANGED <<portalVars, merchantVars, clientVars>>
       \/ /\ focus \in {"clients", "credential"}
          /\ IF focus = "clients" THEN ClientsNext ELSE CredentialNext
          /\ UNCHANGED <<portalVars, merchantVars, keyVars, callVars>>

Spec == Init /\ [][Next]_vars

\* The tables keep their shape.
TypeOK ==
    /\ PortalTypeOK
    /\ MerchantTypeOK
    /\ KeysTypeOK
    /\ CallsTypeOK
    /\ ClientsTypeOK

\* Whatever ended stays ended, whichever login, rotation, probe or clock step
\* was still under way: a session that was logged out, replaced or idle, a
\* key that was revoked or ran out, which also registers no merchant any more,
\* a secret that was rotated away.
EndedStaysEnded ==
    [][/\ SessionsStayEnded
       /\ KeysStayDead
       /\ RevokedRegistersNothing
       /\ SecretsStayDead]_vars
=============================================================================
