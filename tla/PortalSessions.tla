-------------------------- MODULE PortalSessions --------------------------
(***************************************************************************)
(* Sign-in to the portals.  An administrator proves a password and gets a  *)
(* session in a later transaction; meanwhile the local operator may be     *)
(* replacing that password, the browser may be switching from another      *)
(* session, and sessions run out.  Merchant users have sessions of their   *)
(* own.  Developer sessions are made by MerchantLogin.                     *)
(*                                                                         *)
(* A token is named by the login that minted it.  A password hash is       *)
(* numbered: HashPassword salts it, so that no two are equal.              *)
(***************************************************************************)
EXTENDS Naturals, Null

CONSTANTS
    Logins,      \* password logins of the administrator
    DevLogins,   \* developer logins (MerchantLogin makes their sessions)
    UserLogins,  \* password logins of merchant users
    Emails, Passwords,
    MaxHashes,   \* bound: password hashes ever made for the administrator
    Admin        \* the account portal-local-admin

Tokens == Logins \cup DevLogins
Accounts == {Admin} \cup DevLogins

ASSUME SessionsAssumption ==
    /\ MaxHashes \in Nat \ {0}
    /\ Logins \cap (DevLogins \cup UserLogins) = {}
    /\ DevLogins \cap UserLogins = {}
    /\ Admin \notin Tokens
    /\ None \notin Tokens \cup {Admin} \cup Emails \cup Passwords

VARIABLES
    credential,  \* the administrator's row of portal_accounts
    file,        \* the same credential in .local/portals.json
    enabled,     \* accounts with portal_accounts.enabled
    linked,      \* accounts with a row in developer_core_links
    sessions,    \* platform_identity.portal_sessions
    users,       \* platform_identity.sessions
    logins,      \* each administrator login in progress
    update       \* the update-admin command in progress

portalVars == <<credential, file, enabled, linked, sessions, users, logins,
                update>>

CredentialType == [email : Emails, password : Passwords]
AdminType == [email : Emails, password : Passwords, hash : Nat]
SessionType ==
    [account : Accounts, surface : {"admin", "developer"},
     hash : Nat \cup {None},      \* the hash whose password was proved
     expired : BOOLEAN, idle : BOOLEAN]
LoginType ==
    [at : {"admin", "developer", "replace", "in", "out"}, hash : Nat,
     old : Tokens \cup {None}, unified : BOOLEAN]
UpdateType ==
    [at : {"database", "file"}, from : CredentialType, to : CredentialType]

\* None is no row of a table and no request in progress.
ASSUME RowsAssumption ==
    /\ None \notin AdminType /\ None \notin SessionType
    /\ None \notin LoginType /\ None \notin UpdateType

PortalTypeOK ==
    /\ credential \in AdminType \cup {None}
    /\ file \in CredentialType \cup {None}
    /\ enabled \subseteq Accounts /\ linked \subseteq DevLogins
    /\ sessions \in [Tokens -> SessionType \cup {None}]
    /\ users \in [UserLogins -> {None, "live", "expired", "gone"}]
    /\ logins \in [Logins -> LoginType \cup {None}]
    /\ update \in UpdateType \cup {None}

DeveloperSession(a) ==
    [account |-> a, surface |-> "developer", hash |-> None,
     expired |-> FALSE, idle |-> FALSE]

\* No administrator is provisioned; the developers of signedIn have logged in
\* before.
PortalInit(signedIn) ==
    /\ credential = None /\ file = None
    /\ enabled = signedIn
    /\ linked = signedIn
    /\ sessions = [t \in Tokens |->
            IF t \in signedIn THEN DeveloperSession(t) ELSE None]
    /\ users = [u \in UserLogins |-> None]
    /\ logins = [l \in Logins |-> None]
    /\ update = None

----------------------------------------------------------------------------
(* Sessions *)

\* PortalSession: whom a token authenticates.
Authenticates(t) ==
    /\ sessions[t] # None
    /\ ~sessions[t].expired
    /\ sessions[t].account \in enabled
    /\ \/ sessions[t].surface = "admin"
       \/ sessions[t].account \in linked /\ ~sessions[t].idle

\* The tokens that have a row, and the table without some of them.
Rows == {t \in Tokens : sessions[t] # None}
Without(gone) ==
    [t \in Tokens |-> IF t \in gone THEN None ELSE sessions[t]]

\* DeletePortalSession: the row of that token on that surface, if any.
Deleted(surface, old) ==
    Without({t \in Rows : t = old /\ sessions[t].surface = surface})

Logout(surface, t) ==
    /\ sessions' = Deleted(surface, t)
    /\ UNCHANGED <<credential, file, enabled, linked, users, logins, update>>

\* The clock passes expires_at, or an hour after last_active_at.
Expire(t) ==
    /\ sessions[t] # None
    /\ \/ sessions' = [sessions EXCEPT ![t].expired = TRUE]
       \/ /\ sessions[t].surface = "developer"
          /\ sessions' = [sessions EXCEPT ![t].idle = TRUE]
    /\ UNCHANGED <<credential, file, enabled, linked, users, logins, update>>

\* Maintenance outside the program disables an account.
Disable(a) ==
    /\ a \in enabled
    /\ enabled' = enabled \ {a}
    /\ UNCHANGED <<credential, file, linked, sessions, users, logins, update>>

----------------------------------------------------------------------------
(* Administrator login *)

Move(l, at) == logins' = [logins EXCEPT ![l].at = at]

\* FindPortal and VerifyPassword, before any transaction; anything that does
\* not verify is refused and leaves nothing behind.
Verified(email, password) ==
    /\ Admin \in enabled
    /\ credential.email = email
    /\ credential.password = password

Proved(l, at, old, unified) ==
    logins' = [logins EXCEPT ![l] =
        [at |-> at, hash |-> credential.hash, old |-> old,
         unified |-> unified]]

\* Portals.Login, on the administrator's own surface.
Login(l, email, password, old) ==
    /\ logins[l] = None
    /\ Verified(email, password)
    /\ Proved(l, "replace", old, FALSE)
    /\ UNCHANGED <<credential, file, enabled, linked, sessions, users, update>>

\* Portals.LoginUnified: a browser that had a session ends it first.
LoginUnified(l, email, password, old) ==
    /\ logins[l] = None
    /\ Verified(email, password)
    /\ Proved(l, IF old = None THEN "replace" ELSE "admin", old, TRUE)
    /\ UNCHANGED <<credential, file, enabled, linked, sessions, users, update>>

\* The two logouts of LoginUnified, each a transaction of its own.
SwitchFrom(l) ==
    /\ logins[l] # None
    /\ logins[l].at \in {"admin", "developer"}
    /\ sessions' = Deleted(logins[l].at, logins[l].old)
    /\ Move(l, IF logins[l].at = "admin" THEN "developer" ELSE "replace")
    /\ UNCHANGED <<credential, file, enabled, linked, users, update>>

AdminSession(l) ==
    [account |-> Admin, surface |-> "admin", hash |-> logins[l].hash,
     expired |-> FALSE, idle |-> FALSE]

\* Mutant: the password proved is not compared again under the row lock.
ReplaceUnchecked(l) ==
    /\ logins[l] # None
    /\ logins[l].at = "replace"
    /\ Admin \in enabled
    /\ sessions' = [sessions EXCEPT ![l] = AdminSession(l)]
    /\ Move(l, "in")
    /\ UNCHANGED <<credential, file, enabled, linked, users, update>>

\* The row lock of the account makes this one step with UpdateDatabase.
ReplacePortalSession(l) ==
    /\ logins[l] # None
    /\ logins[l].at = "replace"
    /\ IF Admin \in enabled /\ credential.hash = logins[l].hash
       THEN /\ sessions' = [Without({t \in Rows :
                    /\ sessions[t].surface = "admin"
                    /\ t = logins[l].old \/ sessions[t].expired})
                    EXCEPT ![l] = AdminSession(l)]
            /\ Move(l, "in")
       ELSE Move(l, "out") /\ UNCHANGED sessions
    /\ UNCHANGED <<credential, file, enabled, linked, users, update>>

\* The request is cancelled, or the database fails between two steps.
LoginFails(l) ==
    /\ logins[l] # None
    /\ logins[l].at \in {"admin", "developer", "replace"}
    /\ Move(l, "out")
    /\ UNCHANGED <<credential, file, enabled, linked, sessions, users, update>>

----------------------------------------------------------------------------
(* init-portals, and update-admin *)

\* init-portals draws the credentials of the first run into the file, and
\* seeds them; a later run keeps the file.
InitPortals(drawn) ==
    /\ file = None
    /\ file' = drawn
    /\ UNCHANGED <<credential, enabled, linked, sessions, users, logins, update>>

\* SeedPortal, by this or a later run of init-portals: an account that exists
\* is compared with the file and never changed.
SeedPortal ==
    /\ file # None
    /\ credential = None
    /\ credential' = [email |-> file.email, password |-> file.password,
                      hash |-> 0]
    /\ enabled' = enabled \cup {Admin}
    /\ UNCHANGED <<file, linked, sessions, users, logins, update>>

\* update-admin reads the file first.
UpdateAdmin(to) ==
    /\ update = None
    /\ file # None
    /\ update' = [at |-> "database", from |-> file, to |-> to]
    /\ UNCHANGED <<credential, file, enabled, linked, sessions, users, logins>>

RowIs(c) == credential.email = c.email /\ credential.password = c.password

\* UpdatePrimaryAdmin: an answer of nil goes on to the file, an error ends
\* the command.
UpdateDatabase ==
    /\ update # None
    /\ update.at = "database"
    /\ IF Admin \in enabled /\ RowIs(update.to)
       THEN update' = [update EXCEPT !.at = "file"]
            /\ UNCHANGED <<credential, sessions>>
       ELSE IF Admin \in enabled /\ RowIs(update.from)
            THEN /\ credential.hash < MaxHashes
                 /\ credential' = [email |-> update.to.email,
                        password |-> update.to.password,
                        hash |-> credential.hash + 1]
                 /\ sessions' = Without({t \in Rows :
                        sessions[t].account = Admin})
                 /\ update' = [update EXCEPT !.at = "file"]
            ELSE update' = None /\ UNCHANGED <<credential, sessions>>
    /\ UNCHANGED <<file, enabled, linked, users, logins>>

UpdateFile ==
    /\ update # None
    /\ update.at = "file"
    /\ file' = update.to
    /\ update' = None
    /\ UNCHANGED <<credential, enabled, linked, sessions, users, logins>>

\* The command dies, or the file cannot be written.
UpdateCrash ==
    /\ update # None
    /\ update' = None
    /\ UNCHANGED <<credential, file, enabled, linked, sessions, users, logins>>

----------------------------------------------------------------------------
(* Merchant users *)

\* Service.Login and SaveSession.
UserLogin(u) ==
    /\ users[u] = None
    /\ users' = [users EXCEPT ![u] = "live"]
    /\ UNCHANGED <<credential, file, enabled, linked, sessions, logins, update>>

UserLogout(u) ==
    /\ users[u] \in {"live", "expired"}
    /\ users' = [users EXCEPT ![u] = "gone"]
    /\ UNCHANGED <<credential, file, enabled, linked, sessions, logins, update>>

UserExpires(u) ==
    /\ users[u] = "live"
    /\ users' = [users EXCEPT ![u] = "expired"]
    /\ UNCHANGED <<credential, file, enabled, linked, sessions, logins, update>>

UserAuthenticates(u) == users[u] = "live"

LoginNext ==
    \/ \E l \in Logins, e \in Emails, p \in Passwords,
          old \in Rows \cup {None} :
        Login(l, e, p, old) \/ LoginUnified(l, e, p, old)
    \/ \E l \in Logins :
        SwitchFrom(l) \/ ReplacePortalSession(l) \/ LoginFails(l)

SessionNext ==
    \E t \in Tokens :
        \/ Expire(t)
        \/ \E surface \in {"admin", "developer"} : Logout(surface, t)

\* The operator's commands
Commands ==
    \/ \E c \in CredentialType : InitPortals(c) \/ UpdateAdmin(c)
    \/ SeedPortal \/ UpdateDatabase \/ UpdateFile \/ UpdateCrash

PortalNext ==
    \/ LoginNext \/ SessionNext \/ Commands
    \/ \E a \in Accounts : Disable(a)

UserNext == \E u \in UserLogins : UserLogin(u) \/ UserLogout(u) \/ UserExpires(u)

----------------------------------------------------------------------------
(* Properties *)

\* A login verified against a password that is being replaced leaves no
\* session behind: every session of the administrator was opened with the
\* password hash that is in force now.
SessionsFollowPassword ==
    \A t \in Tokens :
        sessions[t] # None /\ sessions[t].account = Admin =>
            sessions[t].hash = credential.hash
=============================================================================
