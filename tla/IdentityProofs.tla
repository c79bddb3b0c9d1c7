--------------------------- MODULE IdentityProofs ---------------------------
(***************************************************************************)
(* The credentials of the platform, for every value of the constants:      *)
(* portal sessions follow the administrator's password, a login request    *)
(* becomes one session, a request key one Core key, a proof belongs to the *)
(* challenge a client holds, and what has ended stays ended.               *)
(***************************************************************************)
EXTENDS MCIdentity, TLAPS

USE DEF portalVars, merchantVars, keyVars, callVars, clientVars

-----------------------------------------------------------------------------
(* Portal sessions *)

(* An administrator that is enabled has been seeded.                       *)
AdminIsSeeded == Admin \in enabled => credential # None

(* SessionsFollowPassword, and that there is a password to follow          *)
AdminSessions ==
    \A t \in Tokens :
        sessions[t] # None /\ sessions[t].account = Admin =>
            credential # None /\ sessions[t].hash = credential.hash

(* A login has a session only once it is in.                               *)
LoginsAreIn ==
    \A l \in Logins : sessions[l] # None => logins[l] # None /\ logins[l].at = "in"

(* A developer's session belongs to a linked account.                      *)
SessionsAreLinked ==
    \A t \in Tokens : sessions[t] # None =>
        IF sessions[t].surface = "admin" THEN sessions[t].account = Admin
        ELSE sessions[t].account \in linked

PortalInv ==
    /\ PortalTypeOK
    /\ AdminIsSeeded
    /\ AdminSessions
    /\ LoginsAreIn
    /\ SessionsAreLinked

LEMMA NoneIsNoToken ==
    /\ None \notin Tokens /\ None # Admin
    /\ Logins \subseteq Tokens /\ DevLogins \subseteq Tokens
    /\ Admin \notin DevLogins
    /\ \A l \in Logins : l \notin DevLogins
    /\ Logins \cap DevLogins = {}
  BY SessionsAssumption DEF Tokens

LEMMA PortalInitInv ==
    ASSUME NEW signedIn \in SUBSET DevLogins, PortalInit(signedIn)
    PROVE  PortalInv
  <1>1. \A t \in signedIn : DeveloperSession(t) \in SessionType
    BY DEF DeveloperSession, SessionType, Accounts
  <1>2. PortalTypeOK
    BY <1>1, SessionsAssumption DEF PortalInit, PortalTypeOK, Tokens, Accounts
  <1>3. \A t \in Tokens : sessions[t] # None =>
            t \in signedIn /\ sessions[t] = DeveloperSession(t)
    BY DEF PortalInit
  <1>4. AdminIsSeeded /\ AdminSessions /\ LoginsAreIn
    BY <1>3, NoneIsNoToken
    DEF PortalInit, AdminIsSeeded, AdminSessions, LoginsAreIn, DeveloperSession
  <1>5. SessionsAreLinked
    BY <1>3 DEF PortalInit, SessionsAreLinked, DeveloperSession
  <1> QED
    BY <1>2, <1>4, <1>5 DEF PortalInv

(* Sessions end or run out, and are otherwise as they were.                *)
Aged ==
    /\ sessions' \in [Tokens -> SessionType \cup {None}]
    /\ \A t \in Tokens : sessions'[t] # None =>
          /\ sessions[t] # None
          /\ sessions'[t].account = sessions[t].account
          /\ sessions'[t].surface = sessions[t].surface
          /\ sessions'[t].hash = sessions[t].hash
          /\ sessions[t].expired => sessions'[t].expired
          /\ sessions[t].idle => sessions'[t].idle

LEMMA SameSessionsAge ==
    ASSUME PortalTypeOK, sessions' = sessions
    PROVE  Aged
  BY DEF PortalTypeOK, Aged

LEMMA FewerSessionsAge ==
    ASSUME PortalTypeOK, NEW gone, sessions' = Without(gone)
    PROVE  Aged
  BY DEF PortalTypeOK, Aged, Without

LEMMA OneSessionAges ==
    ASSUME PortalTypeOK, NEW t \in Tokens, sessions[t] # None,
           NEW s \in SessionType, sessions' = [sessions EXCEPT ![t] = s],
           s.account = sessions[t].account, s.surface = sessions[t].surface,
           s.hash = sessions[t].hash,
           sessions[t].expired => s.expired, sessions[t].idle => s.idle
    PROVE  Aged
  <1>1. sessions \in [Tokens -> SessionType \cup {None}]
    BY DEF PortalTypeOK
  <1>2. sessions' \in [Tokens -> SessionType \cup {None}]
    BY <1>1
  <1>3. sessions'[t] = s /\ \A u \in Tokens \ {t} : sessions'[u] = sessions[u]
    BY <1>1
  <1> QED
    BY <1>2, <1>3 DEF Aged

LEMMA ExpireAges ==
    ASSUME PortalTypeOK, NEW t \in Tokens, Expire(t)
    PROVE  Aged
  <1>1. sessions[t] # None /\ sessions[t] \in SessionType
    BY DEF PortalTypeOK, Expire
  <1> DEFINE s == [sessions[t] EXCEPT !.expired = TRUE]
             i == [sessions[t] EXCEPT !.idle = TRUE]
  <1>2. sessions' \in {[sessions EXCEPT ![t] = s], [sessions EXCEPT ![t] = i]}
    BY DEF Expire
  <1>3. /\ s \in SessionType /\ s.account = sessions[t].account
        /\ s.surface = sessions[t].surface /\ s.hash = sessions[t].hash
        /\ s.expired /\ s.idle = sessions[t].idle
    BY <1>1 DEF SessionType
  <1>4. /\ i \in SessionType /\ i.account = sessions[t].account
        /\ i.surface = sessions[t].surface /\ i.hash = sessions[t].hash
        /\ i.idle /\ i.expired = sessions[t].expired
    BY <1>1 DEF SessionType
  <1> HIDE DEF s, i
  <1> QED
    BY <1>1, <1>2, <1>3, <1>4, OneSessionAges

(* While sessions only age, the invariant of the sessions stays, unless the*)
(* password is replaced or a login starts over.                            *)
LEMMA AgedKeeps ==
    ASSUME PortalInv, Aged, credential' = credential, linked \subseteq linked',
           \A l \in Logins : logins[l] # None /\ logins[l].at = "in" =>
                                logins'[l] = logins[l]
    PROVE  AdminSessions' /\ LoginsAreIn' /\ SessionsAreLinked'
  <1>1. AdminSessions'
    BY DEF PortalInv, AdminSessions, Aged
  <1>2. LoginsAreIn'
    BY NoneIsNoToken DEF PortalInv, LoginsAreIn, Aged
  <1>3. SessionsAreLinked'
    BY DEF PortalInv, SessionsAreLinked, Aged
  <1> QED
    BY <1>1, <1>2, <1>3

(* No token that has stopped authenticating does so again (the first part  *)
(* of SessionsStayEnded).                                                  *)
NoneRevives ==
    \A t \in Tokens : Authenticates(t)' => Authenticates(t) \/ Minting(t)

LEMMA AgedRevivesNone ==
    ASSUME Aged, enabled' \subseteq enabled, linked' \subseteq linked
    PROVE  NoneRevives
  BY DEF Aged, NoneRevives, Authenticates

LEMMA ProvedType ==
    ASSUME PortalInv, NEW l \in Logins, NEW at \in {"admin", "developer", "replace"},
           NEW old \in Rows \cup {None}, NEW unified \in BOOLEAN,
           credential # None, Proved(l, at, old, unified)
    PROVE  logins' \in [Logins -> LoginType \cup {None}]
  <1>1. credential.hash \in Nat /\ old \in Tokens \cup {None}
    BY DEF PortalInv, PortalTypeOK, AdminType, Rows
  <1>2. [at |-> at, hash |-> credential.hash, old |-> old, unified |-> unified]
            \in LoginType
    BY <1>1 DEF LoginType
  <1>3. logins \in [Logins -> LoginType \cup {None}]
    BY DEF PortalInv, PortalTypeOK
  <1> QED
    BY <1>2, <1>3 DEF Proved

LEMMA MoveType ==
    ASSUME PortalInv, NEW l \in Logins, logins[l] # None,
           NEW at \in {"admin", "developer", "replace", "in", "out"}, Move(l, at)
    PROVE  /\ logins' \in [Logins -> LoginType \cup {None}]
           /\ logins'[l] # None /\ logins'[l].at = at
           /\ \A k \in Logins \ {l} : logins'[k] = logins[k]
  <1>1. logins \in [Logins -> LoginType \cup {None}] /\ logins[l] \in LoginType
    BY DEF PortalInv, PortalTypeOK
  <1> DEFINE m == [logins[l] EXCEPT !.at = at]
  <1>2. m \in LoginType /\ m.at = at
    BY <1>1 DEF LoginType
  <1>3. logins' = [logins EXCEPT ![l] = m]
    BY DEF Move
  <1> HIDE DEF m
  <1> QED
    BY <1>1, <1>2, <1>3, RowsAssumption

(* A login begins when its password is verified.                           *)
LEMMA LoginKeeps ==
    ASSUME PortalInv, NEW l \in Logins, NEW e, NEW p, NEW old \in Rows \cup {None},
           Login(l, e, p, old) \/ LoginUnified(l, e, p, old)
    PROVE  PortalInv' /\ NoneRevives
  <1>1. /\ logins[l] = None /\ Admin \in enabled
        /\ UNCHANGED <<credential, file, enabled, linked, sessions, users, update>>
    BY DEF Login, LoginUnified, Verified
  <1>2. PICK at \in {"admin", "developer", "replace"}, unified \in BOOLEAN :
            Proved(l, at, old, unified)
    BY DEF Login, LoginUnified
  <1>3. credential # None
    BY <1>1 DEF PortalInv, AdminIsSeeded
  <1>4. logins' \in [Logins -> LoginType \cup {None}]
    BY <1>2, <1>3, ProvedType
  <1>5. PortalTypeOK'
    BY <1>1, <1>4 DEF PortalInv, PortalTypeOK
  <1>6. \A k \in Logins : logins[k] # None => logins'[k] = logins[k]
    BY <1>1, <1>2 DEF Proved, PortalInv, PortalTypeOK
  <1>7. Aged
    BY <1>1, SameSessionsAge DEF PortalInv
  <1>8. AdminSessions' /\ LoginsAreIn' /\ SessionsAreLinked'
    BY <1>1, <1>6, <1>7, AgedKeeps
  <1>9. NoneRevives
    BY <1>1, <1>7, AgedRevivesNone
  <1> QED
    BY <1>1, <1>5, <1>8, <1>9 DEF PortalInv, AdminIsSeeded

(* A browser that switches ends its old session; a login that fails ends.  *)
LEMMA SwitchKeeps ==
    ASSUME PortalInv, NEW l \in Logins, SwitchFrom(l) \/ LoginFails(l)
    PROVE  PortalInv' /\ NoneRevives
  <1>1. /\ logins[l] # None
        /\ logins[l].at \in {"admin", "developer", "replace"}
        /\ UNCHANGED <<credential, file, enabled, linked, users, update>>
    BY DEF SwitchFrom, LoginFails
  <1>2. PICK at \in {"developer", "replace", "out"} : Move(l, at)
    BY DEF SwitchFrom, LoginFails
  <1>3. /\ logins' \in [Logins -> LoginType \cup {None}]
        /\ \A k \in Logins \ {l} : logins'[k] = logins[k]
    BY <1>1, <1>2, MoveType
  <1>4. Aged
    <2>1. CASE SwitchFrom(l)
      BY <2>1, FewerSessionsAge DEF SwitchFrom, Deleted, PortalInv
    <2>2. CASE LoginFails(l)
      BY <2>2, SameSessionsAge DEF LoginFails, PortalInv
    <2> QED
      BY <2>1, <2>2
  <1>5. PortalTypeOK'
    BY <1>1, <1>3, <1>4 DEF PortalInv, PortalTypeOK, Aged
  <1>6. AdminSessions' /\ LoginsAreIn' /\ SessionsAreLinked'
    BY <1>1, <1>3, <1>4, AgedKeeps
  <1>7. NoneRevives
    BY <1>1, <1>4, AgedRevivesNone
  <1> QED
    BY <1>1, <1>5, <1>6, <1>7 DEF PortalInv, AdminIsSeeded

(* The session is opened only under the hash that was proved, by a login   *)
(* that had none.                                                          *)
LEMMA ReplaceKeeps ==
    ASSUME PortalInv, NEW l \in Logins, ReplacePortalSession(l)
    PROVE  PortalInv' /\ NoneRevives
  <1>1. /\ logins[l] # None /\ logins[l].at = "replace"
        /\ UNCHANGED <<credential, file, enabled, linked, users, update>>
    BY DEF ReplacePortalSession
  <1>2. CASE ~(Admin \in enabled /\ credential.hash = logins[l].hash)
    <2>1. Move(l, "out") /\ sessions' = sessions
      BY <1>2 DEF ReplacePortalSession
    <2>2. /\ logins' \in [Logins -> LoginType \cup {None}]
          /\ \A k \in Logins \ {l} : logins'[k] = logins[k]
      BY <1>1, <2>1, MoveType
    <2>3. Aged
      BY <2>1, SameSessionsAge DEF PortalInv
    <2>4. AdminSessions' /\ LoginsAreIn' /\ SessionsAreLinked'
      BY <1>1, <2>2, <2>3, AgedKeeps
    <2>5. PortalTypeOK'
      BY <1>1, <2>1, <2>2 DEF PortalInv, PortalTypeOK
    <2> QED
      BY <1>1, <2>3, <2>4, <2>5, AgedRevivesNone DEF PortalInv, AdminIsSeeded
  <1>3. CASE Admin \in enabled /\ credential.hash = logins[l].hash
    <2> DEFINE gone == {t \in Rows : /\ sessions[t].surface = "admin"
                                     /\ t = logins[l].old \/ sessions[t].expired}
    <2>1. /\ sessions' = [Without(gone) EXCEPT ![l] = AdminSession(l)]
          /\ Move(l, "in")
      BY <1>3 DEF ReplacePortalSession
    <2> HIDE DEF gone
    <2>2. /\ logins' \in [Logins -> LoginType \cup {None}]
          /\ logins'[l] # None /\ logins'[l].at = "in"
          /\ \A k \in Logins \ {l} : logins'[k] = logins[k]
      BY <1>1, <2>1, MoveType
    <2>4. /\ AdminSession(l) \in SessionType
          /\ AdminSession(l).account = Admin /\ AdminSession(l).surface = "admin"
          /\ AdminSession(l).hash = credential.hash
      BY <1>1, <1>3 DEF AdminSession, SessionType, Accounts, PortalInv,
                        PortalTypeOK, LoginType
    <2>5. Without(gone) \in [Tokens -> SessionType \cup {None}]
      BY DEF Without, PortalInv, PortalTypeOK
    <2>6. /\ sessions' \in [Tokens -> SessionType \cup {None}]
          /\ sessions'[l] = AdminSession(l)
          /\ \A t \in Tokens \ {l} : sessions'[t] # None => sessions'[t] = sessions[t]
      BY <2>1, <2>4, <2>5, NoneIsNoToken DEF Without
    <2>7. sessions[l] = None
      BY <1>1 DEF PortalInv, LoginsAreIn
    <2>8. credential # None
      BY <1>3 DEF PortalInv, AdminIsSeeded
    <2>9. PortalTypeOK'
      BY <1>1, <2>2, <2>6 DEF PortalInv, PortalTypeOK
    <2>10. AdminSessions'
      BY <1>1, <2>4, <2>6, <2>8 DEF PortalInv, AdminSessions
    <2>11. LoginsAreIn'
      BY <2>2, <2>6, NoneIsNoToken DEF PortalInv, LoginsAreIn
    <2>12. SessionsAreLinked'
      BY <1>1, <2>4, <2>6 DEF PortalInv, SessionsAreLinked
    <2>13. NoneRevives
      <3> SUFFICES ASSUME NEW t \in Tokens, Authenticates(t)'
                   PROVE  Authenticates(t) \/ Minting(t)
        BY DEF NoneRevives
      <3>1. CASE t = l
        BY <1>1, <2>7, <3>1 DEF Minting
      <3>2. CASE t # l
        BY <1>1, <2>6, <3>2 DEF Authenticates
      <3> QED
        BY <3>1, <3>2
    <2> QED
      BY <1>1, <2>9, <2>10, <2>11, <2>12, <2>13 DEF PortalInv, AdminIsSeeded
  <1> QED
    BY <1>2, <1>3

LEMMA SessionKeeps ==
    ASSUME PortalInv, NEW t \in Tokens,
           Expire(t) \/ \E surface \in {"admin", "developer"} : Logout(surface, t)
    PROVE  PortalInv' /\ NoneRevives
  <1>1. UNCHANGED <<credential, file, enabled, linked, users, logins, update>>
    BY DEF Expire, Logout
  <1>2. Aged
    <2>1. CASE Expire(t)
      BY <2>1, ExpireAges DEF PortalInv
    <2>2. ASSUME NEW surface, Logout(surface, t) PROVE Aged
      BY <2>2, FewerSessionsAge DEF Logout, Deleted, PortalInv
    <2> QED
      BY <2>1, <2>2
  <1>3. PortalTypeOK'
    BY <1>1, <1>2 DEF PortalInv, PortalTypeOK, Aged
  <1> QED
    BY <1>1, <1>2, <1>3, AgedKeeps, AgedRevivesNone DEF PortalInv, AdminIsSeeded

LEMMA DisableKeeps ==
    ASSUME PortalInv, NEW a \in Accounts, Disable(a)
    PROVE  PortalInv' /\ NoneRevives
  <1>1. /\ UNCHANGED <<credential, file, linked, sessions, users, logins, update>>
        /\ enabled' \subseteq enabled
    BY DEF Disable
  <1>2. Aged
    BY <1>1, SameSessionsAge DEF PortalInv
  <1>3. PortalTypeOK'
    BY <1>1 DEF PortalInv, PortalTypeOK
  <1> QED
    BY <1>1, <1>2, <1>3, AgedKeeps, AgedRevivesNone DEF PortalInv, AdminIsSeeded

(* init-portals and update-admin: only UpdateDatabase replaces a password, *)
(* and it takes every session of the administrator with it.                *)
LEMMA CommandsKeep ==
    ASSUME PortalInv, Commands
    PROVE  PortalInv' /\ NoneRevives
  <1>1. ASSUME UNCHANGED <<credential, enabled, linked, sessions, users, logins>>,
               file' \in CredentialType \cup {None},
               update' \in UpdateType \cup {None}
        PROVE  PortalInv' /\ NoneRevives
    <2>1. Aged
      BY <1>1, SameSessionsAge DEF PortalInv
    <2>2. PortalTypeOK'
      BY <1>1 DEF PortalInv, PortalTypeOK
    <2> QED
      BY <1>1, <2>1, <2>2, AgedKeeps, AgedRevivesNone DEF PortalInv, AdminIsSeeded
  <1>2. ASSUME NEW c \in CredentialType, InitPortals(c) \/ UpdateAdmin(c)
        PROVE  PortalInv' /\ NoneRevives
    <2>1. /\ UNCHANGED <<credential, enabled, linked, sessions, users, logins>>
          /\ file' \in CredentialType \cup {None}
      BY <1>2 DEF InitPortals, UpdateAdmin, PortalInv, PortalTypeOK
    <2>2. update' \in UpdateType \cup {None}
      <3>1. CASE InitPortals(c)
        BY <3>1 DEF InitPortals, PortalInv, PortalTypeOK
      <3>2. CASE UpdateAdmin(c)
        BY <3>2 DEF UpdateAdmin, UpdateType, PortalInv, PortalTypeOK
      <3> QED
        BY <1>2, <3>1, <3>2
    <2> QED
      BY <1>1, <2>1, <2>2
  <1>3. ASSUME UpdateFile \/ UpdateCrash
        PROVE  PortalInv' /\ NoneRevives
    <2>1. UNCHANGED <<credential, enabled, linked, sessions, users, logins>>
      BY <1>3 DEF UpdateFile, UpdateCrash
    <2>2. file' \in CredentialType \cup {None} /\ update' = None
      BY <1>3 DEF UpdateFile, UpdateCrash, PortalInv, PortalTypeOK, UpdateType
    <2> QED
      BY <1>1, <2>1, <2>2
  <1>4. ASSUME SeedPortal
        PROVE  PortalInv' /\ NoneRevives
    <2>1. /\ credential = None /\ file \in CredentialType
          /\ credential' = [email |-> file.email, password |-> file.password,
                            hash |-> 0]
          /\ enabled' = enabled \cup {Admin}
          /\ UNCHANGED <<file, linked, sessions, users, logins, update>>
      BY <1>4 DEF SeedPortal, PortalInv, PortalTypeOK
    <2>2. credential' \in AdminType
      BY <2>1 DEF CredentialType, AdminType
    <2>3. PortalTypeOK'
      BY <2>1, <2>2 DEF PortalInv, PortalTypeOK, Accounts
    <2>4. \A t \in Tokens : sessions[t] # None => sessions[t].account # Admin
      BY <2>1 DEF PortalInv, AdminSessions
    <2>5. AdminSessions' /\ LoginsAreIn' /\ SessionsAreLinked'
      BY <2>1, <2>4 DEF PortalInv, AdminSessions, LoginsAreIn, SessionsAreLinked
    <2>6. AdminIsSeeded'
      BY <2>1, <2>2, RowsAssumption DEF AdminIsSeeded
    <2>7. NoneRevives
      BY <2>1, <2>4 DEF NoneRevives, Authenticates
    <2> QED
      BY <2>3, <2>5, <2>6, <2>7 DEF PortalInv
  <1>5. ASSUME UpdateDatabase
        PROVE  PortalInv' /\ NoneRevives
    <2>1. /\ update \in UpdateType
          /\ UNCHANGED <<file, enabled, linked, users, logins>>
      BY <1>5 DEF UpdateDatabase, PortalInv, PortalTypeOK
    <2>2. update' = [update EXCEPT !.at = "file"] => update' \in UpdateType
      BY <2>1 DEF UpdateType
    <2>3. CASE UNCHANGED <<credential, sessions>>
      BY <1>1, <1>5, <2>1, <2>2, <2>3 DEF UpdateDatabase, PortalInv, PortalTypeOK
    <2>4. CASE ~UNCHANGED <<credential, sessions>>
      <3>1. /\ Admin \in enabled /\ update' = [update EXCEPT !.at = "file"]
            /\ credential' = [email |-> update.to.email,
                              password |-> update.to.password,
                              hash |-> credential.hash + 1]
            /\ sessions' = Without({t \in Rows : sessions[t].account = Admin})
        BY <1>5, <2>4 DEF UpdateDatabase
      <3>2. credential \in AdminType
        BY <3>1 DEF PortalInv, PortalTypeOK, AdminIsSeeded
      <3>3. credential' \in AdminType
        BY <2>1, <3>1, <3>2 DEF UpdateType, CredentialType, AdminType
      <3>4. Aged
        BY <3>1, FewerSessionsAge DEF PortalInv
      <3>5. PortalTypeOK'
        BY <2>1, <2>2, <3>1, <3>3, <3>4 DEF PortalInv, PortalTypeOK, Aged
      <3>6. \A t \in Tokens : sessions'[t] # None => sessions[t].account # Admin
        BY <3>1 DEF Without, Rows
      <3>7. AdminSessions' /\ LoginsAreIn' /\ SessionsAreLinked'
        BY <2>1, <3>4, <3>6, NoneIsNoToken
        DEF Aged, PortalInv, AdminSessions, LoginsAreIn, SessionsAreLinked
      <3>8. AdminIsSeeded'
        BY <3>3, RowsAssumption DEF AdminIsSeeded
      <3> QED
        BY <2>1, <3>4, <3>5, <3>7, <3>8, AgedRevivesNone DEF PortalInv
    <2> QED
      BY <2>3, <2>4
  <1> QED
    BY <1>2, <1>3, <1>4, <1>5 DEF Commands

LEMMA PortalKeeps ==
    ASSUME PortalInv, PortalNext
    PROVE  PortalInv' /\ NoneRevives
  BY LoginKeeps, SwitchKeeps, ReplaceKeeps, SessionKeeps, CommandsKeep, DisableKeeps
  DEF PortalNext, LoginNext, SessionNext

(* Merchant users                                                          *)
LEMMA UserKeeps ==
    ASSUME PortalInv, UserNext
    PROVE  /\ PortalInv' /\ NoneRevives
           /\ \A u \in UserLogins :
                UserAuthenticates(u)' => UserAuthenticates(u) \/ users[u] = None
  <1>1. UNCHANGED <<credential, file, enabled, linked, sessions, logins, update>>
    BY DEF UserNext, UserLogin, UserLogout, UserExpires
  <1>2. Aged
    BY <1>1, SameSessionsAge DEF PortalInv
  <1>3. /\ users' \in [UserLogins -> {None, "live", "expired", "gone"}]
        /\ \A u \in UserLogins : users'[u] = "live" => users[u] \in {"live", None}
    <2>1. users \in [UserLogins -> {None, "live", "expired", "gone"}]
      BY DEF PortalInv, PortalTypeOK
    <2>2. PICK u \in UserLogins : UserLogin(u) \/ UserLogout(u) \/ UserExpires(u)
      BY DEF UserNext
    <2>3. \/ users[u] = None /\ users' = [users EXCEPT ![u] = "live"]
          \/ users' = [users EXCEPT ![u] = "gone"]
          \/ users' = [users EXCEPT ![u] = "expired"]
      BY <2>2 DEF UserLogin, UserLogout, UserExpires
    <2> QED
      BY <2>1, <2>3
  <1>4. PortalTypeOK'
    BY <1>1, <1>3 DEF PortalInv, PortalTypeOK
  <1> QED
    BY <1>1, <1>2, <1>3, <1>4, AgedKeeps, AgedRevivesNone
    DEF PortalInv, AdminIsSeeded, UserAuthenticates

-----------------------------------------------------------------------------
(* Merchant login *)

Finishing(d) == At(d) \in {"lock", "account"}

(* A transaction that has taken a request is alone with it, and knows the  *)
(* subject Core attested.                                                  *)
TakenIsHeld ==
    \A d \in DevLogins, r \in Requests :
        Finishing(d) /\ finishes[d].request = r =>
            /\ Open(r) /\ Approved(r)
            /\ finishes[d].subject = requests[r].subject
            /\ \A e \in DevLogins :
                    Finishing(e) /\ finishes[e].request = r => e = d

(* One that has locked its subject is alone with it, and knows its account.*)
SubjectIsHeld ==
    \A d \in DevLogins, s \in Subjects :
        At(d) = "account" /\ finishes[d].subject = s =>
            /\ finishes[d].found = links[s]
            /\ \A e \in DevLogins :
                    At(e) = "account" /\ finishes[e].subject = s => e = d

(* One that is done has used its request up, for the account of its        *)
(* subject.                                                                *)
DoneIsDone ==
    \A d \in DevLogins :
        /\ At(d) # "conflict"
        /\ At(d) = "done" =>
            /\ finishes[d].subject \in Subjects
            /\ links[finishes[d].subject] # None
            /\ sessions[d] # None =>
                    sessions[d].account = links[finishes[d].subject]

RequestIsUsedUp ==
    \A d \in DevLogins, r \in Requests :
        At(d) = "done" /\ finishes[d].request = r =>
            /\ requests[r] # None /\ requests[r].gone
            /\ \A e \in DevLogins :
                    At(e) = "done" /\ finishes[e].request = r => e = d

(* A session and its account have been made by transactions that are done. *)
SessionsAreDone ==
    \A t \in Tokens : sessions[t] # None =>
        /\ t \in DevLogins /\ At(t) = "done"
        /\ sessions[t].account # Admin
        /\ \A d \in DevLogins : sessions[t].account = d => At(d) = "done"

(* The account of a subject was made by a transaction that is done.        *)
LinksAreDone ==
    \A s \in Subjects : links[s] # None =>
        /\ links[s] # Admin
        /\ \A d \in DevLogins : links[s] = d => At(d) = "done"

MerchantInv ==
    /\ MerchantTypeOK
    /\ LinksAreDone
    /\ TakenIsHeld
    /\ SubjectIsHeld
    /\ DoneIsDone
    /\ RequestIsUsedUp
    /\ SessionsAreDone

LEMMA StageOf ==
    ASSUME MerchantTypeOK, NEW d \in DevLogins
    PROVE  /\ finishes[d] # None <=> At(d) # None
           /\ finishes[d] # None => finishes[d] \in FinishType /\ At(d) = finishes[d].at
           /\ At(d) # None => At(d) \in Stages
           /\ finishes[d] = None => At(d) = None /\ At(d) \notin Stages
  BY MerchantAssumption DEF MerchantTypeOK, At, FinishType

LEMMA MerchantInitInv ==
    ASSUME MerchantInit, PortalInit({})
    PROVE  MerchantInv
  <1>1. MerchantTypeOK /\ \A d \in DevLogins : At(d) = None
    BY DEF MerchantInit, MerchantTypeOK, At
  <1> QED
    BY <1>1, MerchantAssumption
    DEF MerchantInit, PortalInit, MerchantInv, LinksAreDone, TakenIsHeld,
        SubjectIsHeld, DoneIsDone, RequestIsUsedUp, SessionsAreDone, Finishing, Stages

LEMMA HolderType ==
    ASSUME MerchantInv, NEW d \in DevLogins, Finishing(d)
    PROVE  /\ finishes[d] \in FinishType /\ finishes[d].at = At(d)
           /\ finishes[d].request \in Requests
           /\ finishes[d].subject \in Subjects
  <1>1. finishes[d] \in FinishType /\ finishes[d].at = At(d)
    BY StageOf, MerchantAssumption DEF MerchantInv, Finishing, Stages
  <1>2. finishes[d].request \in Requests
    BY <1>1 DEF FinishType
  <1>3. Open(finishes[d].request) /\ Approved(finishes[d].request)
        /\ finishes[d].subject = requests[finishes[d].request].subject
    BY <1>2 DEF MerchantInv, TakenIsHeld
  <1>4. requests[finishes[d].request] \in RequestType
    BY <1>2, <1>3 DEF Open, MerchantInv, MerchantTypeOK
  <1> QED
    BY <1>1, <1>2, <1>3, <1>4 DEF Approved, RequestType

(* Requests go on: what is gone stays gone, and what a transaction has     *)
(* taken stays open and keeps its subject.                                 *)
RequestsGoOn ==
    /\ requests' \in [Requests -> RequestType \cup {None}]
    /\ \A r \in Requests : requests[r] # None =>
          /\ requests'[r] # None
          /\ requests[r].gone => requests'[r].gone
          /\ Taken(r) => /\ requests'[r].gone = requests[r].gone
                         /\ requests'[r].subject = requests[r].subject

LEMMA RequestsKeep ==
    ASSUME MerchantInv, RequestsGoOn, UNCHANGED <<links, finishes, portalVars>>
    PROVE  MerchantInv'
  <1>1. \A d \in DevLogins : At(d)' = At(d) /\ Finishing(d)' = Finishing(d)
    BY DEF At, Finishing
  <1>2. MerchantTypeOK'
    BY DEF MerchantInv, MerchantTypeOK, RequestsGoOn
  <1>3. TakenIsHeld'
    <2> SUFFICES ASSUME NEW d \in DevLogins, NEW r \in Requests,
                        Finishing(d), finishes[d].request = r
                 PROVE  /\ Open(r)' /\ Approved(r)'
                        /\ finishes[d].subject = requests'[r].subject
      BY <1>1 DEF TakenIsHeld, MerchantInv
    <2>1. Open(r) /\ Approved(r) /\ finishes[d].subject = requests[r].subject
      BY DEF MerchantInv, TakenIsHeld
    <2>2. Taken(r)
      BY DEF Taken, Finishing
    <2> QED
      BY <2>1, <2>2 DEF RequestsGoOn, Open, Approved
  <1>4. SubjectIsHeld' /\ DoneIsDone'
    BY <1>1 DEF MerchantInv, SubjectIsHeld, DoneIsDone
  <1>5. RequestIsUsedUp'
    BY <1>1 DEF MerchantInv, RequestIsUsedUp, RequestsGoOn
  <1>6. SessionsAreDone' /\ LinksAreDone'
    BY <1>1 DEF MerchantInv, SessionsAreDone, LinksAreDone
  <1> QED
    BY <1>2, <1>3, <1>4, <1>5, <1>6 DEF MerchantInv

(* One request takes a new state.                                          *)
LEMMA OneRequestGoesOn ==
    ASSUME MerchantTypeOK, NEW r \in Requests, requests[r] # None,
           NEW q \in RequestType, requests' = [requests EXCEPT ![r] = q],
           requests[r].gone => q.gone,
           Taken(r) => q.gone = requests[r].gone /\ q.subject = requests[r].subject
    PROVE  RequestsGoOn
  <1>1. requests \in [Requests -> RequestType \cup {None}]
    BY DEF MerchantTypeOK
  <1>2. /\ requests' \in [Requests -> RequestType \cup {None}]
        /\ requests'[r] = q /\ \A s \in Requests \ {r} : requests'[s] = requests[s]
    BY <1>1
  <1> QED
    BY <1>2, MerchantAssumption DEF RequestsGoOn

(* Opening, expiry, attestation and confirmation of a request              *)
LEMMA StartKeeps ==
    ASSUME MerchantInv, NEW r \in Requests, NEW kind \in {"browser", "cli"},
           NEW origin \in Origins, Start(r, kind, origin)
    PROVE  MerchantInv'
  <1>1. requests \in [Requests -> RequestType \cup {None}]
    BY DEF MerchantInv, MerchantTypeOK
  <1> DEFINE new  == [kind |-> kind, origin |-> origin, subject |-> None,
                      confirmed |-> FALSE, expired |-> FALSE, gone |-> FALSE]
             Gone(q) == [requests[q] EXCEPT !.gone = TRUE]
  <1>2. requests' = [q \in Requests |-> IF q = r THEN new
                        ELSE IF Open(q) /\ requests[q].expired THEN Gone(q)
                        ELSE requests[q]]
    BY DEF Start
  <1>3. new \in RequestType
    BY DEF RequestType
  <1>4. \A q \in Requests : requests[q] # None =>
            Gone(q) \in RequestType /\ Gone(q).gone
    BY <1>1 DEF RequestType
  <1>5. requests[r] = None /\ \A q \in Requests : Taken(q) => ~requests[q].expired
    BY DEF Start
  <1> HIDE DEF new, Gone
  <1>6. requests' \in [Requests -> RequestType \cup {None}]
    BY <1>1, <1>2, <1>3, <1>4 DEF Open
  <1>7. RequestsGoOn
    <2> SUFFICES ASSUME NEW q \in Requests, requests[q] # None
                 PROVE  /\ requests'[q] # None
                        /\ requests[q].gone => requests'[q].gone
                        /\ Taken(q) => requests'[q] = requests[q]
      BY <1>6 DEF RequestsGoOn
    <2>1. q # r
      BY <1>5
    <2> QED
      BY <1>2, <1>4, <1>5, <2>1, MerchantAssumption DEF Open
  <1> QED
    BY <1>7, RequestsKeep DEF Start

LEMMA RequestMovesKeep ==
    ASSUME MerchantInv, NEW r \in Requests,
           \/ RequestExpires(r)
           \/ \E s \in Subjects : Approve(r, s)
           \/ \E o \in Origins : CLIConfirmation(r, o)
    PROVE  MerchantInv'
  <1>1. requests[r] # None /\ requests[r] \in RequestType
    BY DEF RequestExpires, Approve, CLIConfirmation, Alive, Open, MerchantInv,
           MerchantTypeOK
  <1>2. CASE RequestExpires(r)
    <2> DEFINE q == [requests[r] EXCEPT !.expired = TRUE]
    <2>1. /\ q \in RequestType /\ q.gone = requests[r].gone
          /\ q.subject = requests[r].subject
      BY <1>1 DEF RequestType
    <2>2. requests' = [requests EXCEPT ![r] = q]
      BY <1>2 DEF RequestExpires
    <2> HIDE DEF q
    <2>3. RequestsGoOn
      BY <1>1, <2>1, <2>2, OneRequestGoesOn DEF MerchantInv
    <2> QED
      BY <1>2, <2>3, RequestsKeep DEF RequestExpires
  <1>3. ASSUME NEW s \in Subjects, Approve(r, s) PROVE MerchantInv'
    <2> DEFINE q == [requests[r] EXCEPT !.subject = s]
    <2>1. q \in RequestType /\ q.gone = requests[r].gone
      BY <1>1 DEF RequestType
    <2>2. requests' = [requests EXCEPT ![r] = q] /\ ~Taken(r)
      BY <1>3 DEF Approve
    <2> HIDE DEF q
    <2>3. RequestsGoOn
      BY <1>1, <2>1, <2>2, OneRequestGoesOn DEF MerchantInv
    <2> QED
      BY <1>3, <2>3, RequestsKeep DEF Approve
  <1>4. ASSUME NEW o \in Origins, CLIConfirmation(r, o) PROVE MerchantInv'
    <2> DEFINE q == [requests[r] EXCEPT !.confirmed = TRUE]
    <2>1. /\ q \in RequestType /\ q.gone = requests[r].gone
          /\ q.subject = requests[r].subject
      BY <1>1 DEF RequestType
    <2>2. requests' = [requests EXCEPT ![r] = q]
      BY <1>4 DEF CLIConfirmation
    <2> HIDE DEF q
    <2>3. RequestsGoOn
      BY <1>1, <2>1, <2>2, OneRequestGoesOn DEF MerchantInv
    <2> QED
      BY <1>4, <2>3, RequestsKeep DEF CLIConfirmation
  <1> QED
    BY <1>2, <1>3, <1>4

(* A transaction takes a new state; the others stay where they are.        *)
LEMMA FinishMoves ==
    ASSUME MerchantTypeOK, NEW d \in DevLogins, NEW f \in FinishType,
           finishes' = [finishes EXCEPT ![d] = f]
    PROVE  /\ finishes' \in [DevLogins -> FinishType \cup {None}]
           /\ finishes'[d] = f /\ At(d)' = f.at
           /\ Finishing(d)' = (f.at \in {"lock", "account"})
           /\ \A e \in DevLogins \ {d} :
                 /\ finishes'[e] = finishes[e] /\ At(e)' = At(e)
                 /\ Finishing(e)' = Finishing(e)
  <1>1. finishes \in [DevLogins -> FinishType \cup {None}]
    BY DEF MerchantTypeOK
  <1>2. /\ finishes' \in [DevLogins -> FinishType \cup {None}]
        /\ finishes'[d] = f
        /\ \A e \in DevLogins \ {d} : finishes'[e] = finishes[e]
    BY <1>1
  <1>3. At(d)' = f.at
    BY <1>2, MerchantAssumption DEF At
  <1>4. \A e \in DevLogins \ {d} : At(e)' = At(e)
    BY <1>2 DEF At
  <1> QED
    BY <1>2, <1>3, <1>4 DEF Finishing

(* A transaction begins, or is refused: it leaves nothing behind.          *)
LEMMA RefusedKeeps ==
    ASSUME MerchantInv, NEW d \in DevLogins, At(d) # "done",
           NEW f \in FinishType, f.at \in {"take", "refused"},
           finishes' = [finishes EXCEPT ![d] = f],
           UNCHANGED <<requests, links, portalVars>>
    PROVE  MerchantInv'
  <1>1. /\ finishes' \in [DevLogins -> FinishType \cup {None}]
        /\ finishes'[d] = f /\ At(d)' = f.at /\ ~Finishing(d)'
        /\ At(d)' \notin {"account", "done", "conflict"}
        /\ \A e \in DevLogins \ {d} :
              /\ finishes'[e] = finishes[e] /\ At(e)' = At(e)
              /\ Finishing(e)' = Finishing(e)
    BY FinishMoves DEF MerchantInv
  <1>2. MerchantTypeOK'
    BY <1>1 DEF MerchantInv, MerchantTypeOK
  <1>3. TakenIsHeld'
    BY <1>1 DEF MerchantInv, TakenIsHeld, Open, Approved
  <1>4. SubjectIsHeld' /\ DoneIsDone' /\ RequestIsUsedUp'
    BY <1>1 DEF MerchantInv, SubjectIsHeld, DoneIsDone, RequestIsUsedUp
  <1>5. SessionsAreDone' /\ LinksAreDone'
    <2>1. SessionsAreDone'
      BY <1>1 DEF MerchantInv, SessionsAreDone
    <2>2. LinksAreDone'
      BY <1>1 DEF MerchantInv, LinksAreDone
    <2> QED
      BY <2>1, <2>2
  <1> QED
    BY <1>2, <1>3, <1>4, <1>5 DEF MerchantInv

LEMMA BeginKeeps ==
    ASSUME MerchantInv, NEW d \in DevLogins, NEW r \in Requests,
           NEW o \in Origins, PollCLI(d, r, o) \/ FinishBrowser(d, r, o)
    PROVE  MerchantInv'
  <1>1. PICK byCLI \in BOOLEAN : Begin(d, r, byCLI, o)
    BY DEF PollCLI, FinishBrowser
  <1> DEFINE f == [at |-> "take", request |-> r, cli |-> byCLI, origin |-> o,
                   subject |-> None, found |-> None]
  <1>2. f \in FinishType /\ f.at = "take"
    BY DEF FinishType, Stages
  <1>3. finishes' = [finishes EXCEPT ![d] = f]
    BY <1>1 DEF Begin
  <1>4. At(d) # "done" /\ UNCHANGED <<requests, links, portalVars>>
    BY MerchantAssumption DEF At, PollCLI, FinishBrowser, Stages
  <1> HIDE DEF f
  <1> QED
    BY <1>2, <1>3, <1>4, RefusedKeeps

LEMMA RefuseKeeps ==
    ASSUME MerchantInv, NEW d \in DevLogins,
           At(d) \in {"take", "lock", "account"}, To(d, "refused"),
           UNCHANGED <<requests, links, portalVars>>
    PROVE  MerchantInv'
  <1>1. finishes[d] \in FinishType
    BY StageOf, MerchantAssumption DEF MerchantInv, Stages
  <1> DEFINE f == [finishes[d] EXCEPT !.at = "refused"]
  <1>2. f \in FinishType /\ f.at = "refused"
    BY <1>1 DEF FinishType, Stages
  <1>3. finishes' = [finishes EXCEPT ![d] = f]
    BY DEF To
  <1> HIDE DEF f
  <1> QED
    BY <1>2, <1>3, RefusedKeeps

LEMMA TakeKeeps ==
    ASSUME MerchantInv, NEW d \in DevLogins, Take(d)
    PROVE  MerchantInv'
  <1>1. At(d) = "take" /\ UNCHANGED <<requests, links, portalVars>>
    BY DEF Take
  <1>2. finishes[d] \in FinishType /\ finishes[d].at = "take"
    BY <1>1, StageOf, MerchantAssumption DEF MerchantInv, Stages
  <1>3. PICK r \in Requests : r = finishes[d].request
    BY <1>2 DEF FinishType
  <1>4. CASE ~Matches(d, r)
    BY <1>1, <1>3, <1>4, RefuseKeeps DEF Take
  <1>5. CASE Matches(d, r)
    <2>1. /\ ~Taken(r) /\ Open(r) /\ Approved(r)
          /\ finishes' = [finishes EXCEPT ![d].at = "lock",
                                ![d].subject = requests[r].subject]
      BY <1>3, <1>5 DEF Take, Matches, Alive
    <2>2. requests[r].subject \in Subjects
      BY <2>1 DEF Open, Approved, MerchantInv, MerchantTypeOK, RequestType
    <2> DEFINE l == [finishes[d] EXCEPT !.at = "lock"]
               f == [l EXCEPT !.subject = requests[r].subject]
    <2>3. l \in FinishType /\ l.at = "lock" /\ l.request = r
      BY <1>2, <1>3 DEF FinishType, Stages
    <2>4. finishes' = [finishes EXCEPT ![d] = f]
      BY <2>1, <1>2 DEF MerchantInv, MerchantTypeOK
    <2> HIDE DEF l
    <2>5. /\ f \in FinishType /\ f.at = "lock" /\ f.request = r
          /\ f.subject = requests[r].subject
      BY <2>2, <2>3 DEF FinishType
    <2> HIDE DEF f
    <2>6. /\ finishes' \in [DevLogins -> FinishType \cup {None}]
          /\ finishes'[d] = f /\ At(d)' = "lock" /\ Finishing(d)'
          /\ \A e \in DevLogins \ {d} :
                /\ finishes'[e] = finishes[e] /\ At(e)' = At(e)
                /\ Finishing(e)' = Finishing(e)
      BY <2>4, <2>5, FinishMoves DEF MerchantInv
    <2>7. MerchantTypeOK'
      BY <1>1, <2>6 DEF MerchantInv, MerchantTypeOK
    <2>8. \A e \in DevLogins : ~(Finishing(e) /\ finishes[e].request = r)
      BY <2>1 DEF Taken, Finishing
    <2>9. TakenIsHeld'
      <3> SUFFICES ASSUME NEW e \in DevLogins, NEW q \in Requests,
                          Finishing(e)', finishes'[e].request = q
                   PROVE  /\ Open(q)' /\ Approved(q)'
                          /\ finishes'[e].subject = requests'[q].subject
                          /\ \A o \in DevLogins :
                                Finishing(o)' /\ finishes'[o].request = q => o = e
        BY DEF TakenIsHeld
      <3>1. Open(q)' = Open(q) /\ Approved(q)' = Approved(q)
        BY <1>1 DEF Open, Approved
      <3>2. CASE e = d
        BY <1>1, <2>1, <2>5, <2>6, <2>8, <3>1, <3>2
      <3>3. CASE e # d
        <4>1. /\ Finishing(e) /\ finishes[e].request = q /\ q # r
          BY <2>6, <2>8, <3>3
        <4>2. /\ Open(q) /\ Approved(q)
              /\ finishes[e].subject = requests[q].subject
              /\ \A o \in DevLogins :
                    Finishing(o) /\ finishes[o].request = q => o = e
          BY <4>1 DEF MerchantInv, TakenIsHeld
        <4> QED
          BY <1>1, <2>5, <2>6, <3>1, <3>3, <4>1, <4>2
      <3> QED
        BY <3>2, <3>3
    <2>10. SubjectIsHeld'
      BY <1>1, <2>6 DEF MerchantInv, SubjectIsHeld
    <2>11. DoneIsDone' /\ RequestIsUsedUp'
      BY <1>1, <2>6 DEF MerchantInv, DoneIsDone, RequestIsUsedUp
    <2>12. SessionsAreDone' /\ LinksAreDone'
      BY <1>1, <2>6 DEF MerchantInv, SessionsAreDone, LinksAreDone
    <2> QED
      BY <2>7, <2>9, <2>10, <2>11, <2>12 DEF MerchantInv
  <1> QED
    BY <1>4, <1>5

LEMMA LockKeeps ==
    ASSUME MerchantInv, NEW d \in DevLogins, Lock(d)
    PROVE  MerchantInv'
  <1>1. /\ At(d) = "lock" /\ Finishing(d)
        /\ UNCHANGED <<requests, links, portalVars>>
    BY DEF Lock, Finishing
  <1>2. /\ finishes[d] \in FinishType /\ finishes[d].at = "lock"
        /\ finishes[d].request \in Requests /\ finishes[d].subject \in Subjects
    BY <1>1, HolderType
  <1>3. PICK s \in Subjects : s = finishes[d].subject
    BY <1>2
  <1>4. /\ ~Locked(s)
        /\ finishes' = [finishes EXCEPT ![d].at = "account", ![d].found = links[s]]
    BY <1>3 DEF Lock
  <1>5. links[s] \in Accounts \cup {None}
    BY DEF MerchantInv, MerchantTypeOK
  <1> DEFINE l == [finishes[d] EXCEPT !.at = "account"]
             f == [l EXCEPT !.found = links[s]]
  <1>6. /\ l \in FinishType /\ l.at = "account" /\ l.subject = s
        /\ l.request = finishes[d].request
    BY <1>2, <1>3 DEF FinishType, Stages
  <1>7. finishes' = [finishes EXCEPT ![d] = f]
    BY <1>2, <1>4 DEF MerchantInv, MerchantTypeOK
  <1> HIDE DEF l
  <1>8. /\ f \in FinishType /\ f.at = "account" /\ f.subject = s
        /\ f.request = finishes[d].request /\ f.found = links[s]
    BY <1>5, <1>6 DEF FinishType
  <1> HIDE DEF f
  <1>9. /\ finishes' \in [DevLogins -> FinishType \cup {None}]
        /\ finishes'[d] = f /\ At(d)' = "account" /\ Finishing(d)'
        /\ \A e \in DevLogins \ {d} :
              /\ finishes'[e] = finishes[e] /\ At(e)' = At(e)
              /\ Finishing(e)' = Finishing(e)
    BY <1>7, <1>8, FinishMoves DEF MerchantInv
  <1>10. MerchantTypeOK'
    BY <1>1, <1>9 DEF MerchantInv, MerchantTypeOK
  <1>11. TakenIsHeld'
    BY <1>1, <1>3, <1>8, <1>9 DEF MerchantInv, TakenIsHeld, Open, Approved
  <1>12. \A e \in DevLogins : ~(At(e) = "account" /\ finishes[e].subject = s)
    BY <1>4 DEF Locked
  <1>13. SubjectIsHeld'
    BY <1>1, <1>8, <1>9, <1>12 DEF MerchantInv, SubjectIsHeld
  <1>14. DoneIsDone' /\ RequestIsUsedUp'
    BY <1>1, <1>9 DEF MerchantInv, DoneIsDone, RequestIsUsedUp
  <1>15. SessionsAreDone' /\ LinksAreDone'
    BY <1>1, <1>9 DEF MerchantInv, SessionsAreDone, LinksAreDone
  <1> QED
    BY <1>10, <1>11, <1>13, <1>14, <1>15 DEF MerchantInv

(* The transaction that commits is alone with request and subject, so that *)
(* no account is made twice and the session is its subject's.              *)
LEMMA CommitKeeps ==
    ASSUME PortalInv, MerchantInv, NEW d \in DevLogins, Commit(d)
    PROVE  PortalInv' /\ MerchantInv' /\ NoneRevives
  <1>1. At(d) = "account" /\ Finishing(d)
    BY DEF Commit, Finishing
  <1>2. /\ finishes[d] \in FinishType /\ finishes[d].at = "account"
        /\ finishes[d].request \in Requests /\ finishes[d].subject \in Subjects
    BY <1>1, HolderType
  <1>3. PICK s \in Subjects, r \in Requests :
            s = finishes[d].subject /\ r = finishes[d].request
    BY <1>2
  <1>4. /\ finishes[d].found = links[s]
        /\ \A e \in DevLogins \ {d} : ~(At(e) = "account" /\ finishes[e].subject = s)
    BY <1>1, <1>3 DEF MerchantInv, SubjectIsHeld
  <1>5. /\ requests[r] # None /\ requests[r] \in RequestType
        /\ ~requests[r].gone
        /\ \A e \in DevLogins \ {d} : ~(Finishing(e) /\ finishes[e].request = r)
    BY <1>1, <1>3 DEF MerchantInv, TakenIsHeld, Open, MerchantTypeOK
  <1> DEFINE first   == links[s] = None
             account == IF first THEN d ELSE links[s]
  <1>6. CASE ~first /\ account \notin enabled
    <2>1. To(d, "refused") /\ UNCHANGED <<requests, links, portalVars>>
      BY <1>3, <1>4, <1>6 DEF Commit
    <2>2. MerchantInv'
      BY <1>1, <2>1, RefuseKeeps
    <2>3. Aged
      BY <2>1, SameSessionsAge DEF PortalInv
    <2>4. PortalTypeOK'
      BY <2>1 DEF PortalInv, PortalTypeOK
    <2>5. AdminSessions' /\ LoginsAreIn' /\ SessionsAreLinked'
      BY <2>1, <2>3, AgedKeeps
    <2>6. NoneRevives
      BY <2>1, <2>3, AgedRevivesNone
    <2> QED
      BY <2>1, <2>2, <2>4, <2>5, <2>6 DEF PortalInv, AdminIsSeeded
  <1>7. CASE first \/ account \in enabled
    <2>1. /\ requests' = [requests EXCEPT ![r].gone = TRUE]
          /\ links' = [links EXCEPT ![s] = account]
          /\ linked' = linked \cup {account}
          /\ enabled' = IF first THEN enabled \cup {account} ELSE enabled
          /\ sessions' = [sessions EXCEPT ![d] = DeveloperSession(account)]
          /\ To(d, "done")
          /\ UNCHANGED <<credential, file, users, logins, update>>
      BY <1>3, <1>4, <1>7 DEF Commit
    <2>2. account \in DevLogins /\ account # None /\ account # Admin
      BY NoneIsNoToken
      DEF MerchantInv, MerchantTypeOK, LinksAreDone, Accounts
    <2>3. /\ first => account = d
          /\ ~first => account = links[s] /\ account \in enabled
      BY <1>7
    <2>4. links[s] # None => At(account) = "done"
      BY <2>2, <2>3 DEF MerchantInv, LinksAreDone
    <2>5. first <=> links[s] = None
      OBVIOUS
    <2> HIDE DEF first, account
    <2> DEFINE f == [finishes[d] EXCEPT !.at = "done"]
               q == [requests[r] EXCEPT !.gone = TRUE]
    <2>6. /\ f \in FinishType /\ f.at = "done"
          /\ f.request = r /\ f.subject = s
      BY <1>2, <1>3 DEF FinishType, Stages
    <2>7. q \in RequestType /\ q.gone /\ q.subject = requests[r].subject
      BY <1>5 DEF RequestType
    <2>8. finishes' = [finishes EXCEPT ![d] = f]
      BY <2>1 DEF To
    <2>9. requests' = [requests EXCEPT ![r] = q]
      BY <2>1
    <2> HIDE DEF f, q
    <2>10. /\ finishes' \in [DevLogins -> FinishType \cup {None}]
           /\ finishes'[d] = f /\ At(d)' = "done" /\ ~Finishing(d)'
           /\ \A e \in DevLogins \ {d} :
                 /\ finishes'[e] = finishes[e] /\ At(e)' = At(e)
                 /\ Finishing(e)' = Finishing(e)
      BY <2>6, <2>8, FinishMoves DEF MerchantInv
    <2>11. /\ requests' \in [Requests -> RequestType \cup {None}]
           /\ requests'[r] # None /\ requests'[r].gone
           /\ \A o \in Requests \ {r} : requests'[o] = requests[o]
      BY <2>7, <2>9, MerchantAssumption DEF MerchantInv, MerchantTypeOK
    <2>12. /\ links' \in [Subjects -> Accounts \cup {None}]
           /\ links'[s] = account
           /\ \A o \in Subjects \ {s} : links'[o] = links[o]
           /\ \A o \in Subjects : links[o] # None => links'[o] = links[o]
      BY <2>1, <2>2, <2>3, <2>5 DEF MerchantInv, MerchantTypeOK, Accounts
    <2>13. /\ DeveloperSession(account) \in SessionType
           /\ DeveloperSession(account).account = account
           /\ DeveloperSession(account).surface = "developer"
      BY <2>2 DEF DeveloperSession, SessionType, Accounts
    <2>14. /\ sessions' \in [Tokens -> SessionType \cup {None}]
           /\ sessions'[d] = DeveloperSession(account)
           /\ \A t \in Tokens \ {d} : sessions'[t] = sessions[t]
      BY <2>1, <2>13, NoneIsNoToken DEF PortalInv, PortalTypeOK
    <2>15. d \in Tokens /\ d \notin Logins /\ sessions[d] = None
      BY <1>1, NoneIsNoToken DEF MerchantInv, SessionsAreDone
    <2>16. PortalInv'
      <3>1. PortalTypeOK'
        BY <2>1, <2>2, <2>14 DEF PortalInv, PortalTypeOK, Accounts
      <3>2. AdminSessions'
        BY <2>1, <2>2, <2>13, <2>14 DEF PortalInv, AdminSessions
      <3>3. LoginsAreIn'
        BY <2>1, <2>14, <2>15, NoneIsNoToken DEF PortalInv, LoginsAreIn
      <3>4. SessionsAreLinked'
        BY <2>1, <2>13, <2>14 DEF PortalInv, SessionsAreLinked
      <3>5. AdminIsSeeded'
        BY <2>1, <2>2 DEF PortalInv, AdminIsSeeded
      <3> QED
        BY <3>1, <3>2, <3>3, <3>4, <3>5 DEF PortalInv
    <2>17. MerchantInv'
      <3>1. MerchantTypeOK'
        BY <2>10, <2>11, <2>12 DEF MerchantTypeOK
      <3>2. TakenIsHeld'
        <4> SUFFICES ASSUME NEW e \in DevLogins, NEW o \in Requests,
                            Finishing(e)', finishes'[e].request = o
                     PROVE  /\ Open(o)' /\ Approved(o)'
                            /\ finishes'[e].subject = requests'[o].subject
                            /\ \A g \in DevLogins :
                                  Finishing(g)' /\ finishes'[g].request = o => g = e
          BY DEF TakenIsHeld
        <4>1. e # d /\ Finishing(e) /\ finishes[e].request = o /\ o # r
          BY <1>5, <2>10
        <4>2. requests'[o] = requests[o]
          BY <2>11, <4>1
        <4>3. /\ Open(o) /\ Approved(o)
              /\ finishes[e].subject = requests[o].subject
              /\ \A g \in DevLogins :
                    Finishing(g) /\ finishes[g].request = o => g = e
          BY <4>1 DEF MerchantInv, TakenIsHeld
        <4> QED
          BY <2>10, <4>1, <4>2, <4>3 DEF Open, Approved
      <3>3. SubjectIsHeld'
        BY <1>4, <2>10, <2>12 DEF MerchantInv, SubjectIsHeld
      <3>4. DoneIsDone'
        <4> SUFFICES ASSUME NEW e \in DevLogins
                     PROVE  /\ At(e)' # "conflict"
                            /\ At(e)' = "done" =>
                                /\ finishes'[e].subject \in Subjects
                                /\ links'[finishes'[e].subject] # None
                                /\ sessions'[e] # None =>
                                    sessions'[e].account = links'[finishes'[e].subject]
          BY DEF DoneIsDone
        <4>1. CASE e = d
          BY <2>2, <2>6, <2>10, <2>12, <2>13, <2>14, <4>1
        <4>2. CASE e # d
          <5>1. At(e) # "conflict"
            BY DEF MerchantInv, DoneIsDone
          <5>2. CASE At(e) = "done"
            <6>1. PICK o \in Subjects : o = finishes[e].subject
              BY <5>2 DEF MerchantInv, DoneIsDone
            <6>2. /\ links[o] # None
                  /\ sessions[e] # None => sessions[e].account = links[o]
              BY <5>2, <6>1 DEF MerchantInv, DoneIsDone
            <6>3. e \in Tokens
              BY NoneIsNoToken
            <6> QED
              BY <2>10, <2>12, <2>14, <4>2, <5>2, <6>1, <6>2, <6>3
          <5> QED
            BY <2>10, <4>2, <5>1, <5>2
        <4> QED
          BY <4>1, <4>2
      <3>5. RequestIsUsedUp'
        <4> SUFFICES ASSUME NEW e \in DevLogins, NEW o \in Requests,
                            At(e)' = "done", finishes'[e].request = o
                     PROVE  /\ requests'[o] # None /\ requests'[o].gone
                            /\ \A g \in DevLogins :
                                  At(g)' = "done" /\ finishes'[g].request = o => g = e
          BY DEF RequestIsUsedUp
        <4>1. \A g \in DevLogins \ {d} :
                  ~(At(g) = "done" /\ finishes[g].request = r)
          BY <1>5 DEF MerchantInv, RequestIsUsedUp
        <4>2. CASE e = d
          BY <2>6, <2>10, <2>11, <4>1, <4>2
        <4>3. CASE e # d
          <5>1. At(e) = "done" /\ finishes[e].request = o /\ o # r
            BY <2>10, <4>1, <4>3
          <5>2. /\ requests[o] # None /\ requests[o].gone
                /\ \A g \in DevLogins :
                      At(g) = "done" /\ finishes[g].request = o => g = e
            BY <5>1 DEF MerchantInv, RequestIsUsedUp
          <5> QED
            BY <2>6, <2>10, <2>11, <4>3, <5>1, <5>2
        <4> QED
          BY <4>2, <4>3
      <3>6. SessionsAreDone'
        <4> SUFFICES ASSUME NEW t \in Tokens, sessions'[t] # None
                     PROVE  /\ t \in DevLogins /\ At(t)' = "done"
                            /\ sessions'[t].account # Admin
                            /\ \A e \in DevLogins :
                                  sessions'[t].account = e => At(e)' = "done"
          BY DEF SessionsAreDone
        <4>1. CASE t = d
          BY <2>2, <2>3, <2>4, <2>5, <2>10, <2>13, <2>14, <4>1
        <4>2. CASE t # d
          BY <2>10, <2>14, <4>2 DEF MerchantInv, SessionsAreDone
        <4> QED
          BY <4>1, <4>2
      <3>7. LinksAreDone'
        <4> SUFFICES ASSUME NEW o \in Subjects, links'[o] # None
                     PROVE  /\ links'[o] # Admin
                            /\ \A e \in DevLogins : links'[o] = e => At(e)' = "done"
          BY DEF LinksAreDone
        <4>1. CASE o = s
          BY <2>2, <2>3, <2>4, <2>5, <2>10, <2>12, <4>1
        <4>2. CASE o # s
          BY <2>10, <2>12, <4>2 DEF MerchantInv, LinksAreDone
        <4> QED
          BY <4>1, <4>2
      <3> QED
        BY <3>1, <3>2, <3>3, <3>4, <3>5, <3>6, <3>7 DEF MerchantInv
    <2>18. NoneRevives
      <3> SUFFICES ASSUME NEW t \in Tokens, Authenticates(t)'
                   PROVE  Authenticates(t) \/ Minting(t)
        BY DEF NoneRevives
      <3>1. CASE t = d
        BY <1>1, <2>15, <3>1 DEF Minting
      <3>2. CASE t # d
        <4>1. sessions'[t] = sessions[t] /\ sessions[t] # None
          BY <2>14, <3>2 DEF Authenticates
        <4>2. sessions[t].account # d
          BY <1>1, <4>1 DEF MerchantInv, SessionsAreDone
        <4>3. sessions[t].account \in enabled' => sessions[t].account \in enabled
          BY <2>1, <2>3, <4>2
        <4>4. sessions[t].surface # "admin" => sessions[t].account \in linked
          BY <4>1 DEF PortalInv, SessionsAreLinked
        <4> QED
          BY <4>1, <4>3, <4>4 DEF Authenticates
      <3> QED
        BY <3>1, <3>2
    <2> QED
      BY <2>16, <2>17, <2>18
  <1> QED
    BY <1>6, <1>7

(* Sessions that only age keep what the transactions know of them.         *)
LEMMA AgedKeepsMerchant ==
    ASSUME MerchantInv, Aged, UNCHANGED merchantVars
    PROVE  MerchantInv'
  <1>1. \A d \in DevLogins : At(d)' = At(d) /\ Finishing(d)' = Finishing(d)
    BY DEF At, Finishing
  <1>2. MerchantTypeOK' /\ TakenIsHeld'
    BY <1>1 DEF MerchantInv, MerchantTypeOK, TakenIsHeld, Open, Approved
  <1>3. SubjectIsHeld' /\ RequestIsUsedUp' /\ LinksAreDone'
    BY <1>1 DEF MerchantInv, SubjectIsHeld, RequestIsUsedUp, LinksAreDone
  <1>4. DoneIsDone'
    BY <1>1, NoneIsNoToken DEF MerchantInv, DoneIsDone, Aged
  <1>5. SessionsAreDone'
    BY <1>1 DEF MerchantInv, SessionsAreDone, Aged
  <1> QED
    BY <1>2, <1>3, <1>4, <1>5 DEF MerchantInv

(* Activity renews only what has not run out: it changes nothing.          *)
LEMMA ActivityKeeps ==
    ASSUME PortalInv, MerchantInv, NEW t \in Tokens, Activity(t)
    PROVE  PortalInv' /\ MerchantInv' /\ NoneRevives
  <1>1. /\ sessions \in [Tokens -> SessionType \cup {None}]
        /\ sessions[t] \in SessionType
        /\ ~sessions[t].expired /\ ~sessions[t].idle
        /\ sessions' = [sessions EXCEPT ![t].idle = FALSE, ![t].expired = FALSE]
        /\ UNCHANGED <<credential, file, enabled, linked, users, logins, update,
                       merchantVars>>
    BY DEF Activity, PortalInv, PortalTypeOK
  <1> DEFINE i == [sessions[t] EXCEPT !.idle = FALSE]
             s == [i EXCEPT !.expired = FALSE]
  <1>2. sessions' = [sessions EXCEPT ![t] = s]
    BY <1>1
  <1>3. /\ i \in SessionType /\ ~i.idle /\ ~i.expired
        /\ i.account = sessions[t].account /\ i.surface = sessions[t].surface
        /\ i.hash = sessions[t].hash
    BY <1>1 DEF SessionType
  <1> HIDE DEF i
  <1>4. /\ s \in SessionType
        /\ s.account = sessions[t].account /\ s.surface = sessions[t].surface
        /\ s.hash = sessions[t].hash
    BY <1>3 DEF SessionType
  <1> HIDE DEF s
  <1>5. Aged
    BY <1>1, <1>2, <1>4, OneSessionAges, RowsAssumption DEF PortalInv
  <1>6. PortalTypeOK'
    BY <1>1, <1>5 DEF PortalInv, PortalTypeOK, Aged
  <1>7. AdminSessions' /\ LoginsAreIn' /\ SessionsAreLinked'
    BY <1>1, <1>5, AgedKeeps
  <1>8. NoneRevives
    BY <1>1, <1>5, AgedRevivesNone
  <1> QED
    BY <1>1, <1>5, <1>6, <1>7, <1>8, AgedKeepsMerchant DEF PortalInv, AdminIsSeeded

LEMMA MerchantKeeps ==
    ASSUME PortalInv, MerchantInv, MerchantNext
    PROVE  PortalInv' /\ MerchantInv' /\ NoneRevives
  <1>1. ASSUME UNCHANGED portalVars PROVE PortalInv' /\ NoneRevives
    <2>1. Aged
      BY <1>1, SameSessionsAge DEF PortalInv
    <2>2. AdminSessions' /\ LoginsAreIn' /\ SessionsAreLinked'
      BY <1>1, <2>1, AgedKeeps
    <2> QED
      BY <1>1, <2>1, <2>2, AgedRevivesNone DEF PortalInv, PortalTypeOK, AdminIsSeeded
  <1>2. CASE BrowserNext
    <2>1. UNCHANGED portalVars
      BY <1>2 DEF BrowserNext, Start, FinishBrowser, Approve
    <2>2. MerchantInv'
      BY <1>2, StartKeeps, BeginKeeps, RequestMovesKeep DEF BrowserNext
    <2> QED
      BY <1>1, <2>1, <2>2
  <1>3. CASE CLINext
    <2>1. UNCHANGED portalVars
      BY <1>3 DEF CLINext, Start, CLIConfirmation, PollCLI
    <2>2. MerchantInv'
      BY <1>3, StartKeeps, BeginKeeps, RequestMovesKeep DEF CLINext
    <2> QED
      BY <1>1, <2>1, <2>2
  <1>4. CASE ActivityNext
    BY <1>4, ActivityKeeps, NoneIsNoToken DEF ActivityNext
  <1>5. ASSUME NEW r \in Requests, RequestExpires(r)
        PROVE  PortalInv' /\ MerchantInv' /\ NoneRevives
    <2>1. UNCHANGED portalVars
      BY <1>5 DEF RequestExpires
    <2> QED
      BY <1>1, <1>5, <2>1, RequestMovesKeep
  <1>6. ASSUME NEW d \in DevLogins, Take(d) \/ Lock(d) \/ FinishFails(d)
        PROVE  PortalInv' /\ MerchantInv' /\ NoneRevives
    <2>1. UNCHANGED portalVars
      BY <1>6 DEF Take, Lock, FinishFails
    <2>2. CASE FinishFails(d)
      BY <1>1, <2>1, <2>2, RefuseKeeps DEF FinishFails
    <2> QED
      BY <1>1, <1>6, <2>1, <2>2, TakeKeeps, LockKeeps
  <1>7. ASSUME NEW d \in DevLogins, Commit(d)
        PROVE  PortalInv' /\ MerchantInv' /\ NoneRevives
    BY <1>7, CommitKeeps
  <1> QED
    BY <1>2, <1>3, <1>4, <1>5, <1>6, <1>7 DEF MerchantNext

LEMMA MerchantInvImplies == MerchantInv => OneSessionPerRequest
  <1> SUFFICES ASSUME MerchantInv, NEW d \in DevLogins
               PROVE  /\ At(d) # "conflict"
                      /\ At(d) = "done" =>
                          /\ \A e \in DevLogins \ {d} : At(e) = "done" =>
                                finishes[e].request # finishes[d].request
                          /\ requests[finishes[d].request].gone
                          /\ sessions[d] # None =>
                                sessions[d].account = links[finishes[d].subject]
    BY DEF OneSessionPerRequest
  <1>1. At(d) # "conflict"
    BY DEF MerchantInv, DoneIsDone
  <1>2. CASE At(d) = "done"
    <2>1. PICK r \in Requests : r = finishes[d].request
      BY <1>2, StageOf, MerchantAssumption DEF MerchantInv, Stages, FinishType
    <2> QED
      BY <1>2, <2>1 DEF MerchantInv, DoneIsDone, RequestIsUsedUp
  <1> QED
    BY <1>1, <1>2

(* Outside its focus no developer logs in.                                 *)
LEMMA NobodyFinishes ==
    ASSUME finishes = [d \in DevLogins |-> None]
    PROVE  OneSessionPerRequest
  <1>1. \A d \in DevLogins : At(d) = None
    BY DEF At
  <1> QED
    BY <1>1, MerchantAssumption DEF OneSessionPerRequest, Stages

-----------------------------------------------------------------------------
(* Core keys *)

(* What the calls know of the keys: OneKeyPerRequest, and that a key is    *)
(* inserted by a call that is alone with its request, which nobody used.   *)
CallsKnow ==
    \A c \in KeyCalls :
        /\ CallAt(c) # "failed"
        /\ keys[c] # None =>
            /\ CallAt(c) \in {"created", "told", "lost"}
            /\ RowOf(c) # None
            /\ RowOf(c).key = c
        /\ CallAt(c) \in {"created", "told"} => keys[c] # None
        /\ CallAt(c) \in {"replayed", "repeated"} =>
            /\ keys[c] = None
            /\ RowOf(c) # None /\ RowOf(c).key # c
        /\ CallAt(c) = "insert" =>
            /\ RowOf(c) = None
            /\ \A d \in KeyCalls :
                  /\ CallAt(d) = "insert"
                  /\ calls[d].kind = calls[c].kind
                  /\ calls[d].request = calls[c].request
                  => d = c

(* A request key stands for a key that was made.                           *)
IssuedAreKeys ==
    \A q \in Kinds \X KeyRequests, c \in KeyCalls :
        issued[q] # None /\ issued[q].key = c => keys[c] # None

KeysInv == KeysTypeOK /\ CallsKnow /\ IssuedAreKeys

LEMMA KeysInvImplies == KeysInv => OneKeyPerRequest
  BY DEF KeysInv, CallsKnow, OneKeyPerRequest

LEMMA CallStage ==
    ASSUME KeysTypeOK, NEW c \in KeyCalls
    PROVE  /\ CallAt(c) # None => /\ calls[c] # None /\ calls[c] \in CallType
                                  /\ CallAt(c) = calls[c].at
                                  /\ <<calls[c].kind, calls[c].request>>
                                        \in Kinds \X KeyRequests
           /\ CallAt(c) = None => CallAt(c) \notin CallStages
  BY KeyRowsAssumption DEF KeysTypeOK, CallAt, CallType

LEMMA NoKeysInit == KeysInit(<<>>) => KeysInv
  <1> SUFFICES ASSUME KeysInit(<<>>) PROVE KeysInv
    OBVIOUS
  <1>1. DOMAIN <<>> = {} /\ \A q : MadeUnder(<<>>, q) = {}
    BY DEF MadeUnder
  <1>2. /\ keys = [c \in KeyCalls |-> None] /\ calls = [c \in KeyCalls |-> None]
        /\ issued = [q \in Kinds \X KeyRequests |-> None]
        /\ core = None /\ coreFile = None /\ command = None
    BY <1>1 DEF KeysInit
  <1>3. KeysTypeOK
    BY <1>2 DEF KeysTypeOK
  <1>4. \A c \in KeyCalls : CallAt(c) = None
    BY <1>2 DEF CallAt
  <1>5. CallsKnow /\ IssuedAreKeys
    BY <1>2, <1>4, KeyRowsAssumption DEF CallsKnow, IssuedAreKeys, CallStages
  <1> QED
    BY <1>3, <1>5 DEF KeysInv

LEMMA BothKindsInit == KeysInit(BothKinds) => KeysInv
  <1> SUFFICES ASSUME KeysInit(BothKinds) PROVE KeysInv
    OBVIOUS
  <1> DEFINE request == CHOOSE q \in KeyRequests : TRUE
             body    == CHOOSE b \in Bodies : TRUE
             Kind(c) == IF c = PlatformCall THEN "platform" ELSE "managed"
             Told    == {PlatformCall, ManagedCall}
             Call(c) == [at |-> "told", kind |-> Kind(c), request |-> request,
                         body |-> body]
  <1>1. /\ request \in KeyRequests /\ body \in Bodies
        /\ PlatformCall \in KeyCalls /\ ManagedCall \in KeyCalls
        /\ PlatformCall # ManagedCall
    BY IdentityAssumption
  <1>2. BothKinds = [c \in Told |-> Call(c)]
    BY DEF BothKinds
  <1> HIDE DEF request, body
  <1>3. /\ Told \subseteq KeyCalls
        /\ \A c \in Told : Kind(c) \in Kinds
        /\ \A c, d \in Told : Kind(c) = Kind(d) => c = d
    BY <1>1 DEF Kinds
  <1> HIDE DEF Kind, Told
  <1>4. \A c \in Told :
            /\ BothKinds[c].kind = Kind(c) /\ BothKinds[c].request = request
            /\ BothKinds[c].body = body /\ BothKinds[c] = Call(c)
            /\ Call(c) \in CallType
    BY <1>1, <1>2, <1>3 DEF CallType, CallStages
  <1>5. DOMAIN BothKinds = Told
    BY <1>2
  <1>6. /\ calls = [c \in KeyCalls |-> IF c \in Told THEN Call(c) ELSE None]
        /\ keys = [c \in KeyCalls |-> IF c \in Told
                      THEN [kind |-> Kind(c), revoked |-> FALSE, expired |-> FALSE]
                      ELSE None]
        /\ core = None /\ coreFile = None /\ command = None
    BY <1>3, <1>4, <1>5 DEF KeysInit
  <1>7. /\ issued \in [Kinds \X KeyRequests -> IssuedType \cup {None}]
        /\ \A q \in Kinds \X KeyRequests : issued[q] # None =>
              issued[q] \in IssuedType /\ issued[q].key \in Told
        /\ \A c \in Told : /\ issued[<<Kind(c), request>>] # None
                           /\ issued[<<Kind(c), request>>].key = c
    <2> DEFINE M(q)   == MadeUnder(BothKinds, q)
               The(q) == CHOOSE c \in M(q) : TRUE
    <2>1. issued = [q \in Kinds \X KeyRequests |->
                       IF M(q) = {} THEN None
                       ELSE [key |-> The(q), body |-> BothKinds[The(q)].body]]
      BY DEF KeysInit
    <2>2. \A q, c : c \in M(q) <=> c \in Told /\ q = <<Kind(c), request>>
      BY <1>4, <1>5 DEF MadeUnder
    <2>3. \A q : M(q) # {} => The(q) \in M(q)
      OBVIOUS
    <2> HIDE DEF M, The
    <2>4. \A q \in Kinds \X KeyRequests : M(q) # {} =>
              /\ The(q) \in Told /\ q = <<Kind(The(q)), request>>
              /\ issued[q] = [key |-> The(q), body |-> body]
      BY <1>4, <2>1, <2>2, <2>3
    <2>5. \A c \in Told : /\ [key |-> c, body |-> body] \in IssuedType
                          /\ [key |-> c, body |-> body] # None
      BY <1>1, <1>3, KeyRowsAssumption DEF IssuedType
    <2>6. \A q \in Kinds \X KeyRequests : M(q) = {} => issued[q] = None
      BY <2>1
    <2>7. \A q \in Kinds \X KeyRequests : issued[q] \in IssuedType \cup {None}
      BY <2>4, <2>5, <2>6
    <2>8. issued \in [Kinds \X KeyRequests -> IssuedType \cup {None}]
      <3>1. issued = [q \in Kinds \X KeyRequests |-> issued[q]]
        BY <2>1
      <3> QED
        BY <2>7, <3>1
    <2>9. ASSUME NEW q \in Kinds \X KeyRequests, issued[q] # None
          PROVE  issued[q] \in IssuedType /\ issued[q].key \in Told
      <3>1. M(q) # {}
        BY <2>6, <2>9
      <3>2. PICK c \in Told : issued[q] = [key |-> c, body |-> body]
        BY <2>4, <3>1
      <3> QED
        BY <2>5, <3>2
    <2>10. ASSUME NEW c \in Told
           PROVE  /\ issued[<<Kind(c), request>>] # None
                  /\ issued[<<Kind(c), request>>].key = c
      <3>1. <<Kind(c), request>> \in Kinds \X KeyRequests
        BY <1>1, <1>3
      <3>2. M(<<Kind(c), request>>) # {}
        BY <2>2
      <3>3. PICK d \in Told : /\ <<Kind(c), request>> = <<Kind(d), request>>
                              /\ issued[<<Kind(c), request>>] = [key |-> d, body |-> body]
        BY <2>4, <3>1, <3>2
      <3>4. d = c
        BY <1>3, <3>3
      <3> QED
        BY <2>5, <3>3, <3>4
    <2> QED
      BY <2>8, <2>9, <2>10
  <1>8. KeysTypeOK
    <2>1. calls \in [KeyCalls -> CallType \cup {None}]
      BY <1>4, <1>6
    <2>2. keys \in [KeyCalls -> KeyType \cup {None}]
      BY <1>3, <1>6 DEF KeyType
    <2> QED
      BY <1>6, <1>7, <2>1, <2>2 DEF KeysTypeOK
  <1>9. \A c \in KeyCalls :
            IF c \in Told
            THEN /\ CallAt(c) = "told" /\ keys[c] # None
                 /\ RowOf(c) # None /\ RowOf(c).key = c
            ELSE CallAt(c) = None /\ keys[c] = None
    <2> TAKE c \in KeyCalls
    <2>1. CASE c \in Told
      <3>1. /\ calls[c] = Call(c) /\ calls[c] # None
            /\ keys[c] = [kind |-> Kind(c), revoked |-> FALSE, expired |-> FALSE]
        BY <1>4, <1>6, <2>1, KeyRowsAssumption
      <3>2. [kind |-> Kind(c), revoked |-> FALSE, expired |-> FALSE] \in KeyType
        BY <1>3, <2>1 DEF KeyType
      <3>3. calls[c].kind = Kind(c) /\ calls[c].request = request
        BY <3>1
      <3>4. CallAt(c) = "told"
        BY <3>1 DEF CallAt
      <3>5. RowOf(c) = issued[<<Kind(c), request>>]
        BY <3>3 DEF RowOf
      <3> QED
        BY <1>7, <2>1, <3>1, <3>2, <3>4, <3>5, KeyRowsAssumption
    <2>2. CASE c \notin Told
      BY <1>6, <2>2 DEF CallAt
    <2> QED
      BY <2>1, <2>2
  <1>10. CallsKnow
    BY <1>9, KeyRowsAssumption DEF CallsKnow, CallStages
  <1>11. IssuedAreKeys
    BY <1>3, <1>7, <1>9 DEF IssuedAreKeys
  <1> QED
    BY <1>8, <1>10, <1>11 DEF KeysInv

(* A call takes a new state; the others stay where they are.               *)
LEMMA CallMoves ==
    ASSUME KeysTypeOK, NEW c \in KeyCalls, NEW f \in CallType,
           calls' = [calls EXCEPT ![c] = f]
    PROVE  /\ calls' \in [KeyCalls -> CallType \cup {None}]
           /\ calls'[c] = f /\ CallAt(c)' = f.at
           /\ \A d \in KeyCalls \ {c} : calls'[d] = calls[d] /\ CallAt(d)' = CallAt(d)
  <1>1. calls \in [KeyCalls -> CallType \cup {None}]
    BY DEF KeysTypeOK
  <1>2. /\ calls' \in [KeyCalls -> CallType \cup {None}]
        /\ calls'[c] = f /\ \A d \in KeyCalls \ {c} : calls'[d] = calls[d]
    BY <1>1
  <1>3. CallAt(c)' = f.at
    BY <1>2, KeyRowsAssumption DEF CallAt
  <1>4. \A d \in KeyCalls \ {c} : CallAt(d)' = CallAt(d)
    BY <1>2 DEF CallAt
  <1> QED
    BY <1>2, <1>3, <1>4

(* A call moves on and leaves the tables alone.                            *)
LEMMA CallKeeps ==
    ASSUME KeysInv, NEW c \in KeyCalls, NEW f \in CallType,
           calls' = [calls EXCEPT ![c] = f], UNCHANGED <<keys, issued, cli>>,
           f.at # "failed",
           keys[c] # None => /\ f.at \in {"created", "told", "lost"}
                             /\ f.kind = calls[c].kind
                             /\ f.request = calls[c].request,
           f.at \in {"created", "told"} => keys[c] # None,
           f.at \in {"replayed", "repeated"} =>
               /\ keys[c] = None
               /\ issued[<<f.kind, f.request>>] # None
               /\ issued[<<f.kind, f.request>>].key # c,
           f.at = "insert" =>
               /\ issued[<<f.kind, f.request>>] = None
               /\ \A d \in KeyCalls \ {c} :
                     ~ /\ CallAt(d) = "insert"
                       /\ calls[d].kind = f.kind /\ calls[d].request = f.request
    PROVE  KeysInv' /\ KeysStayDead
  <1>1. /\ calls' \in [KeyCalls -> CallType \cup {None}]
        /\ calls'[c] = f /\ CallAt(c)' = f.at
        /\ \A d \in KeyCalls \ {c} : calls'[d] = calls[d] /\ CallAt(d)' = CallAt(d)
    BY CallMoves DEF KeysInv
  <1>2. UNCHANGED <<core, coreFile, command>>
    BY DEF cli
  <1>3. KeysTypeOK'
    BY <1>1, <1>2 DEF KeysInv, KeysTypeOK
  <1>4. CallsKnow'
    <2> SUFFICES ASSUME NEW d \in KeyCalls
                 PROVE  /\ CallAt(d)' # "failed"
                        /\ keys[d] # None =>
                            /\ CallAt(d)' \in {"created", "told", "lost"}
                            /\ RowOf(d)' # None
                            /\ RowOf(d)'.key = d
                        /\ CallAt(d)' \in {"created", "told"} => keys[d] # None
                        /\ CallAt(d)' \in {"replayed", "repeated"} =>
                            /\ keys[d] = None
                            /\ RowOf(d)' # None /\ RowOf(d)'.key # d
                        /\ CallAt(d)' = "insert" =>
                            /\ RowOf(d)' = None
                            /\ \A e \in KeyCalls :
                                  /\ CallAt(e)' = "insert"
                                  /\ calls'[e].kind = calls'[d].kind
                                  /\ calls'[e].request = calls'[d].request
                                  => e = d
      BY DEF CallsKnow
    <2>1. CASE d = c
      <3>1. RowOf(c)' = issued[<<f.kind, f.request>>]
        BY <1>1 DEF RowOf
      <3>2. keys[c] # None => RowOf(c) # None /\ RowOf(c).key = c /\ RowOf(c)' = RowOf(c)
        BY <3>1 DEF KeysInv, CallsKnow, RowOf
      <3> QED
        BY <1>1, <2>1, <3>1, <3>2
    <2>2. CASE d # c
      <3>1. RowOf(d)' = RowOf(d) /\ CallAt(d)' = CallAt(d) /\ calls'[d] = calls[d]
        BY <1>1, <2>2 DEF RowOf
      <3>2. CallAt(d) = "insert" => RowOf(d) = issued[<<calls[d].kind, calls[d].request>>]
        BY DEF RowOf
      <3> QED
        BY <1>1, <2>2, <3>1, <3>2 DEF KeysInv, CallsKnow
    <2> QED
      BY <2>1, <2>2
  <1>5. IssuedAreKeys'
    BY DEF KeysInv, IssuedAreKeys
  <1>6. KeysStayDead
    BY <1>2 DEF KeysStayDead, KeyAuthenticates, CoreAuthenticates
  <1> QED
    BY <1>3, <1>4, <1>5, <1>6 DEF KeysInv

LEMMA CreateKeeps ==
    ASSUME KeysInv, NEW c \in KeyCalls, NEW kind \in Kinds,
           NEW q \in KeyRequests, NEW b \in Bodies, Create(c, kind, q, b)
    PROVE  KeysInv' /\ KeysStayDead
  <1> DEFINE f == [at |-> "lock", kind |-> kind, request |-> q, body |-> b]
  <1>1. f \in CallType /\ f.at = "lock"
    BY DEF CallType, CallStages
  <1>2. calls' = [calls EXCEPT ![c] = f] /\ UNCHANGED <<keys, issued, cli>>
    BY DEF Create
  <1>3. CallAt(c) = None
    BY DEF Create, CallAt
  <1>4. keys[c] = None
    BY <1>3, KeyRowsAssumption DEF KeysInv, CallsKnow, CallStages
  <1> HIDE DEF f
  <1> QED
    BY <1>1, <1>2, <1>4, CallKeeps

(* Looking the request up, giving up, and answering                        *)
LEMMA CallStepKeeps ==
    ASSUME KeysInv, NEW c \in KeyCalls,
           CreateLocked(c) \/ CreateRollsBack(c) \/ Tell(c)
    PROVE  KeysInv' /\ KeysStayDead
  <1>1. PICK at \in CallStages :
            CallTo(c, at) /\ at # "failed" /\ CallAt(c) # at /\
            \/ CallAt(c) \in {"lock", "insert"} /\ at = "refused"
            \/ /\ CallAt(c) = "lock" /\ ~Held(c)
               /\ \/ at = "insert" /\ RowOf(c) = None
                  \/ at = "replayed" /\ RowOf(c) # None
            \/ CallAt(c) \in {"created", "replayed"} /\ at = "lost"
            \/ CallAt(c) = "created" /\ at = "told"
            \/ CallAt(c) = "replayed" /\ at = "repeated"
    <2>1. CASE CreateLocked(c)
      BY <2>1 DEF CreateLocked, CallStages
    <2>2. CASE CreateRollsBack(c)
      BY <2>2 DEF CreateRollsBack, CallStages
    <2>3. CASE Tell(c)
      BY <2>3 DEF Tell, CallStages
    <2> QED
      BY <2>1, <2>2, <2>3
  <1>2. UNCHANGED <<keys, issued, cli>>
    BY DEF CreateLocked, CreateRollsBack, Tell
  <1>3. calls[c] \in CallType /\ <<calls[c].kind, calls[c].request>> \in Kinds \X KeyRequests
    BY <1>1, CallStage, KeyRowsAssumption DEF KeysInv, CallStages
  <1> DEFINE f == [calls[c] EXCEPT !.at = at]
  <1>4. /\ f \in CallType /\ f.at = at
        /\ f.kind = calls[c].kind /\ f.request = calls[c].request
    BY <1>3 DEF CallType
  <1>5. calls' = [calls EXCEPT ![c] = f]
    BY <1>1 DEF CallTo
  <1> HIDE DEF f
  <1>6. RowOf(c) = issued[<<f.kind, f.request>>]
    BY <1>4 DEF RowOf
  <1>7. /\ keys[c] # None => CallAt(c) \in {"created", "told", "lost"}
        /\ CallAt(c) = "created" => keys[c] # None
        /\ CallAt(c) = "replayed" => /\ keys[c] = None
                                     /\ RowOf(c) # None /\ RowOf(c).key # c
    BY DEF KeysInv, CallsKnow
  <1>8. at = "replayed" => RowOf(c).key # c
    <2> SUFFICES ASSUME at = "replayed", RowOf(c).key = c PROVE FALSE
      OBVIOUS
    <2>1. RowOf(c) # None /\ keys[c] = None
      BY <1>1, <1>7
    <2> QED
      BY <1>3, <2>1 DEF KeysInv, IssuedAreKeys, RowOf
  <1>9. at = "insert" =>
            \A d \in KeyCalls \ {c} :
               ~ /\ CallAt(d) = "insert"
                 /\ calls[d].kind = f.kind /\ calls[d].request = f.request
    BY <1>1, <1>4 DEF Held
  <1>10. /\ keys[c] # None => at \in {"created", "told", "lost"}
         /\ at \in {"created", "told"} => keys[c] # None
         /\ at \in {"replayed", "repeated"} =>
               /\ keys[c] = None
               /\ issued[<<f.kind, f.request>>] # None
               /\ issued[<<f.kind, f.request>>].key # c
         /\ at = "insert" => issued[<<f.kind, f.request>>] = None
    BY <1>1, <1>6, <1>7, <1>8
  <1> QED
    BY <1>1, <1>2, <1>4, <1>5, <1>9, <1>10, CallKeeps

(* The key and its request in one commit; the request is still unused.     *)
LEMMA CreateCommitsKeeps ==
    ASSUME KeysInv, NEW c \in KeyCalls, CreateCommits(c)
    PROVE  KeysInv' /\ KeysStayDead
  <1>1. CallAt(c) = "insert"
    BY DEF CreateCommits
  <1>2. /\ RowOf(c) = None /\ keys[c] = None
        /\ \A d \in KeyCalls \ {c} : CallAt(d) = "insert" =>
              ~(calls[d].kind = calls[c].kind /\ calls[d].request = calls[c].request)
    BY <1>1 DEF KeysInv, CallsKnow
  <1>3. calls[c] \in CallType /\ <<calls[c].kind, calls[c].request>> \in Kinds \X KeyRequests
    BY <1>1, CallStage, KeyRowsAssumption DEF KeysInv, CallStages
  <1> DEFINE q   == <<calls[c].kind, calls[c].request>>
             key == [kind |-> calls[c].kind, revoked |-> FALSE, expired |-> FALSE]
             row == [key |-> c, body |-> calls[c].body]
             f   == [calls[c] EXCEPT !.at = "created"]
  <1>4. /\ keys' = [keys EXCEPT ![c] = key] /\ issued' = [issued EXCEPT ![q] = row]
        /\ calls' = [calls EXCEPT ![c] = f]
        /\ UNCHANGED <<core, coreFile, command>>
    BY <1>2 DEF CreateCommits, CallTo, cli
  <1>5. key \in KeyType /\ row \in IssuedType /\ row.key = c
    BY <1>3 DEF KeyType, IssuedType, CallType
  <1>6. /\ f \in CallType /\ f.at = "created"
        /\ f.kind = calls[c].kind /\ f.request = calls[c].request
    BY <1>3 DEF CallType, CallStages
  <1>7. q \in Kinds \X KeyRequests /\ issued[q] = None
    BY <1>2, <1>3 DEF RowOf
  <1> HIDE DEF key, row, f
  <1>8. /\ calls' \in [KeyCalls -> CallType \cup {None}]
        /\ calls'[c] = f /\ CallAt(c)' = "created"
        /\ \A d \in KeyCalls \ {c} : calls'[d] = calls[d] /\ CallAt(d)' = CallAt(d)
    BY <1>4, <1>6, CallMoves DEF KeysInv
  <1>9. /\ keys' \in [KeyCalls -> KeyType \cup {None}]
        /\ keys'[c] = key /\ keys'[c] # None
        /\ \A d \in KeyCalls \ {c} : keys'[d] = keys[d]
    BY <1>4, <1>5, KeyRowsAssumption DEF KeysInv, KeysTypeOK
  <1>10. /\ issued' \in [Kinds \X KeyRequests -> IssuedType \cup {None}]
         /\ issued'[q] = row /\ row # None
         /\ \A p \in Kinds \X KeyRequests : p # q => issued'[p] = issued[p]
    BY <1>4, <1>5, <1>7, KeyRowsAssumption DEF KeysInv, KeysTypeOK
  <1>11. RowOf(c)' = row
    BY <1>6, <1>8, <1>10 DEF RowOf
  <1>12. KeysTypeOK'
    BY <1>4, <1>8, <1>9, <1>10 DEF KeysInv, KeysTypeOK
  <1>13. CallsKnow'
    <2> SUFFICES ASSUME NEW d \in KeyCalls
                 PROVE  /\ CallAt(d)' # "failed"
                        /\ keys'[d] # None =>
                            /\ CallAt(d)' \in {"created", "told", "lost"}
                            /\ RowOf(d)' # None
                            /\ RowOf(d)'.key = d
                        /\ CallAt(d)' \in {"created", "told"} => keys'[d] # None
                        /\ CallAt(d)' \in {"replayed", "repeated"} =>
                            /\ keys'[d] = None
                            /\ RowOf(d)' # None /\ RowOf(d)'.key # d
                        /\ CallAt(d)' = "insert" =>
                            /\ RowOf(d)' = None
                            /\ \A e \in KeyCalls :
                                  /\ CallAt(e)' = "insert"
                                  /\ calls'[e].kind = calls'[d].kind
                                  /\ calls'[e].request = calls'[d].request
                                  => e = d
      BY DEF CallsKnow
    <2>1. CASE d = c
      BY <1>5, <1>8, <1>9, <1>10, <1>11, <2>1
    <2>2. CASE d # c
      <3>1. CallAt(d)' = CallAt(d) /\ calls'[d] = calls[d] /\ keys'[d] = keys[d]
        BY <1>8, <1>9, <2>2
      <3>2. CallAt(d) \in CallStages =>
                <<calls[d].kind, calls[d].request>> \in Kinds \X KeyRequests
        BY CallStage, KeyRowsAssumption DEF KeysInv
      <3>3. RowOf(d) = issued[<<calls[d].kind, calls[d].request>>]
            /\ RowOf(d)' = issued'[<<calls[d].kind, calls[d].request>>]
        BY <3>1 DEF RowOf
      <3>4. CallAt(d) \in CallStages /\ RowOf(d) # None => RowOf(d)' = RowOf(d)
        BY <1>7, <1>10, <3>2, <3>3
      <3>5. CallAt(d) = "insert" => RowOf(d)' = RowOf(d)
        BY <1>2, <1>10, <2>2, <3>2, <3>3 DEF CallStages
      <3>6. CallsKnow
        BY DEF KeysInv
      <3>7. /\ CallAt(d) # "failed"
            /\ CallAt(d) \in {"created", "told"} => keys[d] # None
        BY <3>6 DEF CallsKnow
      <3>8. keys[d] # None => /\ CallAt(d) \in {"created", "told", "lost"}
                              /\ RowOf(d)' # None /\ RowOf(d)'.key = d
        BY <3>4, <3>6 DEF CallsKnow, CallStages
      <3>9. CallAt(d) \in {"replayed", "repeated"} =>
                keys[d] = None /\ RowOf(d)' # None /\ RowOf(d)'.key # d
        BY <3>4, <3>6 DEF CallsKnow, CallStages
      <3>10. CallAt(d) = "insert" =>
                /\ RowOf(d)' = None
                /\ \A e \in KeyCalls :
                      /\ CallAt(e)' = "insert"
                      /\ calls'[e].kind = calls[d].kind
                      /\ calls'[e].request = calls[d].request
                      => e = d
        BY <1>8, <3>5, <3>6 DEF CallsKnow
      <3> QED
        BY <3>1, <3>7, <3>8, <3>9, <3>10
    <2> QED
      BY <2>1, <2>2
  <1>14. IssuedAreKeys'
    BY <1>5, <1>9, <1>10 DEF KeysInv, IssuedAreKeys
  <1>15. KeysStayDead
    BY <1>2, <1>4, <1>9 DEF KeysStayDead, KeyAuthenticates, CoreAuthenticates
  <1> QED
    BY <1>12, <1>13, <1>14, <1>15 DEF KeysInv

(* A key ends by revocation or with its time.                              *)
LEMMA EndKeyKeeps ==
    ASSUME KeysInv, NEW c \in KeyCalls, RevokeKey(c) \/ KeyExpires(c)
    PROVE  KeysInv' /\ KeysStayDead
  <1>1. /\ keys[c] # None /\ keys[c] \in KeyType
        /\ UNCHANGED <<issued, calls, core, coreFile, command>>
    BY DEF RevokeKey, KeyExpires, KeysInv, KeysTypeOK, cli
  <1>2. PICK k \in KeyType :
            /\ keys' = [keys EXCEPT ![c] = k]
            /\ k.revoked \/ k.expired
    <2>1. CASE RevokeKey(c)
      <3> DEFINE k == [keys[c] EXCEPT !.revoked = TRUE]
      <3>1. k \in KeyType /\ k.revoked
        BY <1>1 DEF KeyType
      <3>2. keys' = [keys EXCEPT ![c] = k]
        BY <2>1 DEF RevokeKey
      <3> HIDE DEF k
      <3> QED
        BY <3>1, <3>2
    <2>2. CASE KeyExpires(c)
      <3> DEFINE k == [keys[c] EXCEPT !.expired = TRUE]
      <3>1. k \in KeyType /\ k.expired
        BY <1>1 DEF KeyType
      <3>2. keys' = [keys EXCEPT ![c] = k]
        BY <2>2 DEF KeyExpires
      <3> HIDE DEF k
      <3> QED
        BY <3>1, <3>2
    <2> QED
      BY <2>1, <2>2
  <1>3. /\ keys' \in [KeyCalls -> KeyType \cup {None}]
        /\ keys'[c] = k /\ k # None
        /\ \A d \in KeyCalls \ {c} : keys'[d] = keys[d]
    BY <1>2, KeyRowsAssumption DEF KeysInv, KeysTypeOK
  <1>4. \A d \in KeyCalls : keys'[d] = None <=> keys[d] = None
    BY <1>1, <1>3
  <1>5. KeysTypeOK'
    BY <1>1, <1>3 DEF KeysInv, KeysTypeOK
  <1>6. \A d \in KeyCalls : CallAt(d)' = CallAt(d) /\ RowOf(d)' = RowOf(d)
    BY <1>1 DEF CallAt, RowOf
  <1>7. CallsKnow'
    BY <1>1, <1>4, <1>6 DEF KeysInv, CallsKnow
  <1>8. IssuedAreKeys'
    BY <1>1, <1>4 DEF KeysInv, IssuedAreKeys
  <1>9. KeysStayDead
    BY <1>1, <1>2, <1>3 DEF KeysStayDead, KeyAuthenticates, CoreAuthenticates
  <1> QED
    BY <1>5, <1>7, <1>8, <1>9 DEF KeysInv

LEMMA KeysKeep ==
    ASSUME KeysInv, KeysNext
    PROVE  KeysInv' /\ KeysStayDead
  BY CreateKeeps, CallStepKeeps, CreateCommitsKeeps, EndKeyKeeps DEF KeysNext

(* Only an operator's rotation makes a token work, and nobody had it.      *)
LEMMA CoreKeeps ==
    ASSUME KeysInv, CoreNext
    PROVE  KeysInv' /\ KeysStayDead
  <1>1. UNCHANGED <<keys, issued, calls>>
    BY DEF CoreNext, InitCore, RotateCore, RevokeCore, CoreExpires, WriteCore, portal
  <1>2. /\ core \in CoreType \cup {None}
        /\ coreFile \in Nat \cup {None} /\ command \in Nat \cup {None}
    BY DEF KeysInv, KeysTypeOK
  <1>3. /\ core' \in CoreType \cup {None}
        /\ coreFile' \in Nat \cup {None} /\ command' \in Nat \cup {None}
        /\ core # None => \/ core' \in CoreType /\ core'.token = core.token + 1
                          \/ core' \in CoreType /\ core'.token = core.token
                             /\ (core'.revoked \/ core'.expired)
                          \/ core' = core
    <2>1. CASE InitCore \/ RotateCore
      <3>1. NextToken \in Nat /\ (core # None => NextToken = core.token + 1)
        BY <1>2 DEF NextToken, CoreType
      <3>2. core' = Fresh(NextToken) /\ command' = NextToken /\ coreFile' = coreFile
        BY <2>1 DEF InitCore, RotateCore
      <3>3. Fresh(NextToken) \in CoreType /\ Fresh(NextToken).token = NextToken
        BY <3>1 DEF Fresh, CoreType
      <3> QED
        BY <1>2, <3>1, <3>2, <3>3
    <2>2. CASE RevokeCore
      BY <1>2, <2>2 DEF RevokeCore, CoreType
    <2>3. CASE CoreExpires
      BY <1>2, <2>3 DEF CoreExpires, CoreType
    <2>4. CASE WriteCore
      BY <1>2, <2>4 DEF WriteCore
    <2> QED
      BY <2>1, <2>2, <2>3, <2>4 DEF CoreNext
  <1>4. KeysTypeOK'
    BY <1>1, <1>3 DEF KeysInv, KeysTypeOK
  <1>5. \A c \in KeyCalls : CallAt(c)' = CallAt(c) /\ RowOf(c)' = RowOf(c)
    BY <1>1 DEF CallAt, RowOf
  <1>6. CallsKnow' /\ IssuedAreKeys'
    BY <1>1, <1>5 DEF KeysInv, CallsKnow, IssuedAreKeys
  <1>7. \A c \in KeyCalls : KeyAuthenticates(c)' = KeyAuthenticates(c)
    BY <1>1 DEF KeyAuthenticates
  <1>8. core # None => \A n \in 0 .. core.token :
            CoreAuthenticates(n)' => CoreAuthenticates(n)
    <2>1. core # None => core.token \in Nat
      BY <1>2 DEF CoreType
    <2> QED
      BY <1>3, <2>1 DEF CoreAuthenticates
  <1> QED
    BY <1>4, <1>6, <1>7, <1>8 DEF KeysInv, KeysStayDead

LEMMA SameKeysKeep ==
    ASSUME KeysInv, UNCHANGED keyVars
    PROVE  KeysInv' /\ KeysStayDead
  <1>1. \A c \in KeyCalls : CallAt(c)' = CallAt(c) /\ RowOf(c)' = RowOf(c)
    BY DEF CallAt, RowOf
  <1>2. KeysTypeOK' /\ CallsKnow' /\ IssuedAreKeys'
    BY <1>1 DEF KeysInv, KeysTypeOK, CallsKnow, IssuedAreKeys
  <1> QED
    BY <1>2 DEF KeysInv, KeysStayDead, KeyAuthenticates, CoreAuthenticates

-----------------------------------------------------------------------------
(* Calls with Core's keys *)

Sharing(r) == RpcAt(r) \in {"shared", "inserted", "found"}

(* The key of a registration in progress is not revoked.                   *)
SharedIsGood ==
    \A r \in RpcCalls, c \in KeyCalls :
        Sharing(r) /\ rpc[r].key = c => ~keys[c].revoked

(* A merchant that is being inserted is new, and inserted once.            *)
InsertedIsNew ==
    \A r \in RpcCalls, m \in Merchants :
        RpcAt(r) = "inserted" /\ rpc[r].merchant = m =>
            /\ workspaces[m] = None
            /\ \A s \in RpcCalls :
                  RpcAt(s) = "inserted" /\ rpc[s].merchant = m => s = r

CallsInv == CallsTypeOK /\ SharedIsGood /\ InsertedIsNew

LEMMA RpcStage ==
    ASSUME CallsTypeOK, NEW r \in RpcCalls
    PROVE  /\ RpcAt(r) # None => /\ rpc[r] \in RpcType /\ rpc[r] # None
                                 /\ RpcAt(r) = rpc[r].at
           /\ RpcAt(r) = None => RpcAt(r) \notin RpcStages
           /\ rpc[r] # None => RpcAt(r) # None
  BY RpcAssumption DEF CallsTypeOK, RpcAt, RpcType

LEMMA CallsInitInv == CallsInit => CallsInv
  <1> SUFFICES ASSUME CallsInit PROVE CallsInv
    OBVIOUS
  <1>1. \A r \in RpcCalls : RpcAt(r) = None
    BY DEF CallsInit, RpcAt
  <1>2. CallsTypeOK
    BY CallsAssumption DEF CallsInit, CallsTypeOK, WorkspaceType
  <1> QED
    BY <1>1, <1>2, RpcAssumption
    DEF CallsInv, SharedIsGood, InsertedIsNew, Sharing, RpcStages

(* A call takes a new state, or ends; the others stay where they are.      *)
LEMMA RpcMoves ==
    ASSUME CallsTypeOK, NEW r \in RpcCalls, NEW f \in RpcType \cup {None},
           rpc' = [rpc EXCEPT ![r] = f]
    PROVE  /\ rpc' \in [RpcCalls -> RpcType \cup {None}]
           /\ rpc'[r] = f
           /\ RpcAt(r)' = IF f = None THEN None ELSE f.at
           /\ \A s \in RpcCalls \ {r} :
                 rpc'[s] = rpc[s] /\ RpcAt(s)' = RpcAt(s) /\ Sharing(s)' = Sharing(s)
  <1>1. /\ rpc' \in [RpcCalls -> RpcType \cup {None}]
        /\ rpc'[r] = f /\ \A s \in RpcCalls \ {r} : rpc'[s] = rpc[s]
    BY DEF CallsTypeOK
  <1> QED
    BY <1>1 DEF RpcAt, Sharing

(* Calls that do not register move on.                                     *)
LEMMA RpcKeeps ==
    ASSUME CallsInv, NEW r \in RpcCalls, NEW f \in RpcType \cup {None},
           rpc' = [rpc EXCEPT ![r] = f],
           f # None => f.at \in {"admitted", "caller", "running"},
           UNCHANGED <<keyVars, workspaces>>
    PROVE  CallsInv' /\ RevokedRegistersNothing
  <1>1. /\ rpc' \in [RpcCalls -> RpcType \cup {None}]
        /\ RpcAt(r)' \notin {"shared", "inserted", "found"} /\ ~Sharing(r)'
        /\ \A s \in RpcCalls \ {r} :
              rpc'[s] = rpc[s] /\ RpcAt(s)' = RpcAt(s) /\ Sharing(s)' = Sharing(s)
    <2>1. /\ rpc' \in [RpcCalls -> RpcType \cup {None}]
          /\ RpcAt(r)' = IF f = None THEN None ELSE f.at
          /\ \A s \in RpcCalls \ {r} :
                rpc'[s] = rpc[s] /\ RpcAt(s)' = RpcAt(s) /\ Sharing(s)' = Sharing(s)
      BY RpcMoves DEF CallsInv
    <2> QED
      BY <2>1, RpcAssumption DEF Sharing, RpcStages
  <1>2. CallsTypeOK'
    BY <1>1 DEF CallsInv, CallsTypeOK
  <1>3. SharedIsGood'
    BY <1>1 DEF CallsInv, SharedIsGood
  <1>4. InsertedIsNew'
    BY <1>1 DEF CallsInv, InsertedIsNew
  <1> QED
    BY <1>2, <1>3, <1>4 DEF CallsInv, RevokedRegistersNothing

LEMMA AdmitKeeps ==
    ASSUME CallsInv, NEW r \in RpcCalls, NEW public \in BOOLEAN,
           NEW c \in KeyCalls, NEW p \in Procedures, NEW m \in Merchants,
           Admit(r, public, c, p, m)
    PROVE  CallsInv' /\ RevokedRegistersNothing
  <1> DEFINE f == [at |-> "admitted", public |-> public, key |-> c,
                   procedure |-> p, merchant |-> m]
  <1>1. f \in RpcType /\ f.at = "admitted"
    BY DEF RpcType, RpcStages
  <1>2. rpc' = [rpc EXCEPT ![r] = f] /\ UNCHANGED <<keyVars, workspaces>>
    BY DEF Admit
  <1> HIDE DEF f
  <1> QED
    BY <1>1, <1>2, RpcKeeps

LEMMA RpcGoesTo ==
    ASSUME CallsInv, NEW r \in RpcCalls, NEW at \in RpcStages, RpcTo(r, at),
           RpcAt(r) \in RpcStages
    PROVE  \E f \in RpcType :
              /\ rpc' = [rpc EXCEPT ![r] = f]
              /\ f.at = at /\ f.key = rpc[r].key /\ f.merchant = rpc[r].merchant
  <1>1. rpc[r] \in RpcType
    BY RpcStage, RpcAssumption DEF CallsInv
  <1> DEFINE f == [rpc[r] EXCEPT !.at = at]
  <1>2. /\ f \in RpcType /\ f.at = at
        /\ f.key = rpc[r].key /\ f.merchant = rpc[r].merchant
    BY <1>1 DEF RpcType
  <1>3. rpc' = [rpc EXCEPT ![r] = f]
    BY DEF RpcTo
  <1> HIDE DEF f
  <1> QED
    BY <1>2, <1>3

LEMMA ServedKeeps ==
    ASSUME CallsInv, NEW r \in RpcCalls,
           \/ Intercept(r) \/ IntentCall(r) \/ LifecycleCall(r)
           \/ TestingCall(r) \/ Invoke(r)
    PROVE  CallsInv' /\ RevokedRegistersNothing
  <1>1. PICK at \in {"caller", "running"} : RpcTo(r, at)
    BY DEF Intercept, IntentCall, LifecycleCall, TestingCall, Invoke, Run
  <1>2. RpcAt(r) \in RpcStages /\ UNCHANGED <<keyVars, workspaces>>
    BY DEF Intercept, IntentCall, LifecycleCall, TestingCall, Invoke, Run, RpcStages
  <1>3. PICK f \in RpcType : rpc' = [rpc EXCEPT ![r] = f] /\ f.at = at
    BY <1>1, <1>2, RpcGoesTo DEF RpcStages
  <1> QED
    BY <1>2, <1>3, RpcKeeps

(* A registration starts with a key that is not revoked.                   *)
LEMMA EnsureKeeps ==
    ASSUME CallsInv, NEW r \in RpcCalls, EnsureMerchant(r)
    PROVE  CallsInv' /\ RevokedRegistersNothing
  <1>1. /\ RpcAt(r) = "caller" /\ RpcTo(r, "shared")
        /\ ~keys[rpc[r].key].revoked
        /\ UNCHANGED <<keyVars, workspaces>>
    BY DEF EnsureMerchant
  <1>2. PICK f \in RpcType : /\ rpc' = [rpc EXCEPT ![r] = f]
                             /\ f.at = "shared" /\ f.key = rpc[r].key
    BY <1>1, RpcGoesTo DEF RpcStages
  <1>3. /\ rpc' \in [RpcCalls -> RpcType \cup {None}]
        /\ rpc'[r] = f /\ RpcAt(r)' = "shared"
        /\ \A s \in RpcCalls \ {r} :
              rpc'[s] = rpc[s] /\ RpcAt(s)' = RpcAt(s) /\ Sharing(s)' = Sharing(s)
    BY <1>2, RpcMoves, RpcAssumption DEF CallsInv
  <1>4. CallsTypeOK' /\ InsertedIsNew'
    BY <1>1, <1>3 DEF CallsInv, CallsTypeOK, InsertedIsNew
  <1>5. SharedIsGood'
    BY <1>1, <1>2, <1>3 DEF CallsInv, SharedIsGood
  <1> QED
    BY <1>1, <1>4, <1>5 DEF CallsInv, RevokedRegistersNothing

(* The insert waits for another of the same id.                            *)
LEMMA InsertKeeps ==
    ASSUME CallsInv, NEW r \in RpcCalls, InsertMerchant(r)
    PROVE  CallsInv' /\ RevokedRegistersNothing
  <1>1. /\ RpcAt(r) = "shared" /\ Sharing(r)
        /\ UNCHANGED <<keyVars, workspaces>>
    BY DEF InsertMerchant, Sharing
  <1>2. rpc[r] \in RpcType
    BY <1>1, RpcStage, RpcAssumption DEF CallsInv, RpcStages
  <1>3. PICK m \in Merchants : m = rpc[r].merchant
    BY <1>2 DEF RpcType
  <1>4. PICK at \in {"inserted", "found"} :
            /\ RpcTo(r, at)
            /\ at = "inserted" => workspaces[m] = None
    BY <1>3 DEF InsertMerchant
  <1>5. \A s \in RpcCalls : RpcAt(s) = "inserted" => rpc[s].merchant # m
    BY <1>3 DEF InsertMerchant
  <1>6. PICK f \in RpcType : /\ rpc' = [rpc EXCEPT ![r] = f] /\ f.at = at
                             /\ f.key = rpc[r].key /\ f.merchant = m
    BY <1>1, <1>3, <1>4, RpcGoesTo DEF RpcStages
  <1>7. /\ rpc' \in [RpcCalls -> RpcType \cup {None}]
        /\ rpc'[r] = f /\ RpcAt(r)' = at
        /\ \A s \in RpcCalls \ {r} :
              rpc'[s] = rpc[s] /\ RpcAt(s)' = RpcAt(s) /\ Sharing(s)' = Sharing(s)
    BY <1>6, RpcMoves, RpcAssumption DEF CallsInv
  <1>8. CallsTypeOK'
    BY <1>1, <1>7 DEF CallsInv, CallsTypeOK
  <1>9. SharedIsGood'
    BY <1>1, <1>6, <1>7 DEF CallsInv, SharedIsGood
  <1>10. InsertedIsNew'
    BY <1>1, <1>4, <1>5, <1>6, <1>7 DEF CallsInv, InsertedIsNew
  <1> QED
    BY <1>1, <1>8, <1>9, <1>10 DEF CallsInv, RevokedRegistersNothing

(* The registration commits: the merchant is new, the key still good.      *)
LEMMA CommitMerchantKeeps ==
    ASSUME CallsInv, NEW r \in RpcCalls, CommitMerchant(r)
    PROVE  CallsInv' /\ RevokedRegistersNothing
  <1>1. /\ RpcAt(r) \in {"inserted", "found"} /\ Sharing(r)
        /\ rpc' = [rpc EXCEPT ![r] = None]
        /\ UNCHANGED keyVars
    BY DEF CommitMerchant, Sharing
  <1>2. rpc[r] \in RpcType /\ None \in RpcType \cup {None}
    BY <1>1, RpcStage, RpcAssumption DEF CallsInv, RpcStages
  <1>3. PICK m \in Merchants, c \in KeyCalls : m = rpc[r].merchant /\ c = rpc[r].key
    BY <1>2 DEF RpcType
  <1>4. CASE RpcAt(r) = "found"
    <2>1. workspaces' = workspaces
      BY <1>4 DEF CommitMerchant
    <2> QED
      BY <1>1, <2>1, RpcKeeps
  <1>5. CASE RpcAt(r) = "inserted"
    <2>1. workspaces' = [workspaces EXCEPT ![m] = [by |-> c]]
      BY <1>3, <1>5 DEF CommitMerchant
    <2>2. /\ workspaces[m] = None /\ ~keys[c].revoked
          /\ \A s \in RpcCalls \ {r} :
                RpcAt(s) = "inserted" => rpc[s].merchant # m
      BY <1>1, <1>3, <1>5 DEF CallsInv, InsertedIsNew, SharedIsGood
    <2>3. /\ workspaces' \in [Merchants -> WorkspaceType \cup {None}]
          /\ workspaces'[m] = [by |-> c]
          /\ \A o \in Merchants \ {m} : workspaces'[o] = workspaces[o]
      BY <2>1 DEF CallsInv, CallsTypeOK, WorkspaceType
    <2>4. /\ rpc' \in [RpcCalls -> RpcType \cup {None}]
          /\ RpcAt(r)' = None
          /\ \A s \in RpcCalls \ {r} :
                rpc'[s] = rpc[s] /\ RpcAt(s)' = RpcAt(s) /\ Sharing(s)' = Sharing(s)
      BY <1>1, RpcMoves DEF CallsInv
    <2>5. ~Sharing(r)' /\ RpcAt(r)' # "inserted"
      BY <2>4, RpcAssumption DEF Sharing, RpcStages
    <2>6. CallsTypeOK'
      BY <2>3, <2>4 DEF CallsTypeOK
    <2>7. SharedIsGood'
      BY <1>1, <2>4, <2>5 DEF CallsInv, SharedIsGood
    <2>8. InsertedIsNew'
      BY <2>2, <2>3, <2>4, <2>5 DEF CallsInv, InsertedIsNew
    <2>9. RevokedRegistersNothing
      BY <2>2, <2>3 DEF RevokedRegistersNothing
    <2> QED
      BY <2>6, <2>7, <2>8, <2>9 DEF CallsInv
  <1> QED
    BY <1>1, <1>4, <1>5

(* A revocation waits for the registrations that share the key.            *)
LEMMA EndKeyKeepsCalls ==
    ASSUME KeysInv, CallsInv, NEW c \in KeyCalls,
           RevokeUnshared(c) \/ (KeyExpires(c) /\ UNCHANGED callVars)
    PROVE  CallsInv' /\ RevokedRegistersNothing
  <1>1. UNCHANGED callVars
    BY DEF RevokeUnshared
  <1>2. /\ \A d \in KeyCalls \ {c} : keys'[d] = keys[d]
        /\ KeyExpires(c) => keys'[c].revoked = keys[c].revoked
    <2>1. keys \in [KeyCalls -> KeyType \cup {None}]
      BY DEF KeysInv, KeysTypeOK
    <2>2. CASE RevokeUnshared(c)
      <3>1. \A d \in KeyCalls \ {c} : keys'[d] = keys[d]
        BY <2>1, <2>2 DEF RevokeUnshared, RevokeKey
      <3>2. ~KeyExpires(c) \/ KeyExpires(c)
        OBVIOUS
      <3>3. CASE KeyExpires(c)
        <4> DEFINE k == [keys[c] EXCEPT !.expired = TRUE]
        <4>1. keys[c] \in KeyType /\ keys' = [keys EXCEPT ![c] = k]
          BY <2>1, <3>3 DEF KeyExpires
        <4>2. k.revoked = keys[c].revoked
          BY <4>1 DEF KeyType
        <4> HIDE DEF k
        <4> QED
          BY <2>1, <3>1, <4>1, <4>2
      <3> QED
        BY <3>1, <3>3
    <2>3. CASE KeyExpires(c)
      <3> DEFINE k == [keys[c] EXCEPT !.expired = TRUE]
      <3>1. keys[c] \in KeyType /\ keys' = [keys EXCEPT ![c] = k]
        BY <2>1, <2>3 DEF KeyExpires
      <3>2. k.revoked = keys[c].revoked
        BY <3>1 DEF KeyType
      <3> HIDE DEF k
      <3> QED
        BY <2>1, <3>1, <3>2
    <2> QED
      BY <2>2, <2>3
  <1>3. \A r \in RpcCalls : RpcAt(r)' = RpcAt(r) /\ Sharing(r)' = Sharing(r)
    BY <1>1 DEF RpcAt, Sharing
  <1>4. RevokeUnshared(c) =>
            \A r \in RpcCalls : ~(Sharing(r) /\ rpc[r].key = c)
    BY DEF RevokeUnshared, Shared, Sharing
  <1>5. SharedIsGood'
    BY <1>1, <1>2, <1>3, <1>4 DEF CallsInv, SharedIsGood
  <1>6. CallsTypeOK' /\ InsertedIsNew'
    BY <1>1, <1>3 DEF CallsInv, CallsTypeOK, InsertedIsNew
  <1> QED
    BY <1>1, <1>5, <1>6 DEF CallsInv, RevokedRegistersNothing

LEMMA CallsKeep ==
    ASSUME KeysInv, CallsInv, CallsNext
    PROVE  KeysInv' /\ KeysStayDead /\ CallsInv' /\ RevokedRegistersNothing
  <1>1. ASSUME NEW r \in RpcCalls,
               \/ \E public \in BOOLEAN, c \in KeyCalls, p \in Procedures,
                     m \in Merchants : Admit(r, public, c, p, m)
               \/ Intercept(r)
               \/ IntentCall(r) \/ LifecycleCall(r) \/ TestingCall(r) \/ Invoke(r)
               \/ Complete(r) \/ Refuse(r)
               \/ EnsureMerchant(r) \/ InsertMerchant(r) \/ CommitMerchant(r)
        PROVE  KeysInv' /\ KeysStayDead /\ CallsInv' /\ RevokedRegistersNothing
    <2>1. UNCHANGED keyVars
      BY <1>1 DEF Admit, Intercept, IntentCall, LifecycleCall, TestingCall, Invoke,
                  Run, Complete, Refuse, EnsureMerchant, InsertMerchant,
                  CommitMerchant
    <2>2. CASE Complete(r) \/ Refuse(r)
      <3>1. rpc' = [rpc EXCEPT ![r] = None] /\ UNCHANGED <<keyVars, workspaces>>
        BY <2>2 DEF Complete, Refuse
      <3>2. None \in RpcType \cup {None}
        OBVIOUS
      <3> QED
        BY <2>1, <3>1, <3>2, RpcKeeps, SameKeysKeep
    <2>3. CallsInv' /\ RevokedRegistersNothing
      BY <1>1, <2>2, AdmitKeeps, ServedKeeps, EnsureKeeps, InsertKeeps,
         CommitMerchantKeeps
    <2> QED
      BY <2>1, <2>3, SameKeysKeep
  <1>2. ASSUME NEW c \in KeyCalls,
               RevokeUnshared(c) \/ (KeyExpires(c) /\ UNCHANGED callVars)
        PROVE  KeysInv' /\ KeysStayDead /\ CallsInv' /\ RevokedRegistersNothing
    BY <1>2, EndKeyKeeps, EndKeyKeepsCalls DEF RevokeUnshared
  <1> QED
    BY <1>1, <1>2 DEF CallsNext

-----------------------------------------------------------------------------
(* App clients *)

(* A probe is about the client as it was at a revision, and of the client  *)
(* at its present revision it knows the challenge.                         *)
ProbesAreAbout(ps, c) ==
    \A p \in ps :
        /\ c # None
        /\ p.revision <= c.revision
        /\ p.revision = c.revision => p.challenge = c.challenge

(* A verified client has proved its challenge, and its secret is the       *)
(* newest.                                                                 *)
ProvedAndNewest(c) ==
    c # None =>
        /\ c.status = "verified" => c.proved = c.challenge
        /\ c.secret \in {None, c.version}

ClientsInv ==
    /\ ClientsTypeOK
    /\ ProbesAreAbout(probes, client)
    /\ ProvedAndNewest(client)

LEMMA ClientsInitInv == ClientsInit => ClientsInv
  BY DEF ClientsInit, ClientsInv, ClientsTypeOK, ProbesAreAbout, ProvedAndNewest

LEMMA ClientsInvImplies == ClientsInv => ProofIsOfThisChallenge
  <1> SUFFICES ASSUME ClientsInv, client # None PROVE ProofIsOfThisChallenge
    BY DEF ProofIsOfThisChallenge
  <1>1. client \in ClientType
    BY DEF ClientsInv, ClientsTypeOK
  <1>2. Current => client.proved = client.challenge
    BY DEF ClientsInv, ProvedAndNewest, Current
  <1>3. ASSUME NEW n \in 1..client.version, ClientAuthenticates(n)
        PROVE  n = client.version /\ client.proved = client.challenge
    <2>1. client.secret = n /\ Current
      BY <1>3 DEF ClientAuthenticates
    <2>2. n # None
      BY <1>1, ClientsAssumption DEF ClientType
    <2> QED
      BY <1>2, <2>1, <2>2 DEF ClientsInv, ProvedAndNewest
  <1> QED
    BY <1>2, <1>3 DEF ProofIsOfThisChallenge, LaunchCurrent, Ready, ClientsInv,
                      ProvedAndNewest

(* What a step may do to a client that is there: c becomes d.              *)
GoesOn(c, d) ==
    /\ d \in ClientType
    /\ c.revision <= d.revision
    /\ d.revision = c.revision => d.challenge = c.challenge
    /\ d.status = "verified" => d.proved = d.challenge
    /\ d.secret \in {None, d.version}
    /\ d.secret \in {None, c.secret, c.version + 1}
    /\ c.status = "revoked" => d.status = "revoked"

(* A client that goes on keeps its probes about it.                        *)
LEMMA GoesOnKeeps ==
    ASSUME ClientsInv, client \in ClientType, GoesOn(client, client'),
           probes' \subseteq ProbeType,
           \A p \in probes' : p \in probes \/ ProbesAreAbout({p}, client'),
           UNCHANGED <<signed, endpoint, launch, credentialVersion, rotations>>
    PROVE  ClientsInv' /\ SecretsStayDead
  <1>1. client' \in ClientType /\ client' # None /\ client # None
    BY RowsExistAssumption DEF GoesOn
  <1>2. ClientsTypeOK'
    BY <1>1 DEF ClientsInv, ClientsTypeOK
  <1>3. ASSUME NEW p \in probes'
        PROVE  /\ p.revision <= client'.revision
               /\ p.revision = client'.revision => p.challenge = client'.challenge
    <2>1. CASE ProbesAreAbout({p}, client')
      BY <2>1 DEF ProbesAreAbout
    <2>2. CASE p \in probes
      <3>1. /\ p.revision \in Nat /\ client.revision \in Nat
            /\ client'.revision \in Nat
        BY <1>1, <1>3 DEF ProbeType, ClientType
      <3>2. /\ p.revision <= client.revision
            /\ p.revision = client.revision => p.challenge = client.challenge
        BY <2>2 DEF ClientsInv, ProbesAreAbout
      <3> QED
        BY <3>1, <3>2 DEF GoesOn
    <2> QED
      BY <1>3, <2>1, <2>2
  <1>4. ProbesAreAbout(probes, client)'
    BY <1>1, <1>3 DEF ProbesAreAbout
  <1>5. ProvedAndNewest(client)'
    BY DEF GoesOn, ProvedAndNewest
  <1>6. ASSUME NEW n \in 1..client.version, client'.secret = n
        PROVE  client.secret = n
    <2>1. client.version \in Nat /\ n # None /\ n # client.version + 1
      BY <1>6, ClientsAssumption DEF ClientType
    <2> QED
      BY <1>6, <2>1 DEF GoesOn
  <1>7. SecretsStayDead
    BY <1>6 DEF SecretsStayDead, GoesOn, AppAuthenticates
  <1> QED
    BY <1>2, <1>4, <1>5, <1>7 DEF ClientsInv

(* A step that leaves the client and adds no probe of another challenge    *)
LEMMA SameClientKeeps ==
    ASSUME ClientsInv, UNCHANGED client,
           ClientsTypeOK',
           \A p \in probes' : \E q \in probes :
                p.revision = q.revision /\ p.challenge = q.challenge,
           launch # None /\ launch.status \in {"rejected", "revoked"} =>
                launch' = launch,
           \A v \in 1..credentialVersion :
                AppAuthenticates(v)' => AppAuthenticates(v)
    PROVE  ClientsInv' /\ SecretsStayDead
  <1>1. ProbesAreAbout(probes, client)'
    BY DEF ClientsInv, ProbesAreAbout
  <1>2. ProvedAndNewest(client)'
    BY DEF ClientsInv, ProvedAndNewest
  <1> QED
    BY <1>1, <1>2 DEF ClientsInv, SecretsStayDead

(* A change that Mutate applies to the row                                 *)
LEMMA ApplyGives ==
    ASSUME client \in ClientType, NEW c \in ClientType, Apply(c)
    PROVE  /\ client' \in ClientType
           /\ client'.revision = client.revision + 1
           /\ client'.status = c.status /\ client'.challenge = c.challenge
           /\ client'.secret = c.secret /\ client'.version = c.version
           /\ client'.proved = c.proved
  <1>1. client' = [c EXCEPT !.revision = client.revision + 1]
    BY DEF Apply
  <1>2. client.revision + 1 \in Nat
    BY DEF ClientType
  <1> QED
    BY <1>1, <1>2 DEF ClientType

LEMMA AppliedGoesOn ==
    ASSUME client \in ClientType, NEW c \in ClientType, Apply(c),
           c.status = "verified" => c.proved = c.challenge,
           c.secret \in {None, c.version},
           c.secret \in {None, client.secret, client.version + 1},
           client.status = "revoked" => c.status = "revoked"
    PROVE  GoesOn(client, client') /\ client'.revision = client.revision + 1
  <1>1. /\ client' \in ClientType
        /\ client'.revision = client.revision + 1
        /\ client'.status = c.status /\ client'.challenge = c.challenge
        /\ client'.secret = c.secret /\ client'.version = c.version
        /\ client'.proved = c.proved
    BY ApplyGives
  <1>2. client.revision \in Nat
    BY DEF ClientType
  <1>3. client.revision <= client'.revision /\ client'.revision # client.revision
    BY <1>1, <1>2
  <1> QED
    BY <1>1, <1>3 DEF GoesOn

LEMMA RegisterKeeps ==
    ASSUME ClientsInv, RegisterClient
    PROVE  ClientsInv' /\ SecretsStayDead
  <1>1. probes = {} /\ UNCHANGED otherThanClient
    BY DEF RegisterClient, ClientsInv, ProbesAreAbout
  <1>2. client' \in ClientType /\ client'.status = "pending" /\ client'.secret = None
    BY DEF RegisterClient, ClientType
  <1>3. ClientsTypeOK' /\ ProbesAreAbout(probes, client)' /\ ProvedAndNewest(client)'
    BY <1>1, <1>2 DEF ClientsInv, ClientsTypeOK, otherThanClient, ProbesAreAbout,
                      ProvedAndNewest
  <1>4. SecretsStayDead
    BY <1>1 DEF RegisterClient, SecretsStayDead, AppAuthenticates, otherThanClient
  <1> QED
    BY <1>3, <1>4 DEF ClientsInv

LEMMA ChallengeKeeps ==
    ASSUME ClientsInv, Challenge
    PROVE  ClientsInv' /\ SecretsStayDead
  <1>1. client \in ClientType /\ UNCHANGED otherThanClient /\ client.status # "revoked"
    BY DEF Challenge, ClientsInv, ClientsTypeOK
  <1> DEFINE c == [client EXCEPT !.challenge = @ + 1, !.lapsed = FALSE,
                    !.status = "pending", !.stale = FALSE, !.secret = None,
                    !.result = "not_checked"]
  <1>2. c \in ClientType /\ c.status = "pending" /\ c.secret = None
    <2>1. client.challenge \in Nat
      BY <1>1 DEF ClientType
    <2> DEFINE n == client.challenge + 1
    <2>2. n \in Nat
      BY <2>1
    <2>3. c = [client EXCEPT !.challenge = n, !.lapsed = FALSE,
                !.status = "pending", !.stale = FALSE, !.secret = None,
                !.result = "not_checked"]
      OBVIOUS
    <2> HIDE DEF n, c
    <2> QED
      BY <1>1, <2>2, <2>3 DEF ClientType
  <1>3. Apply(c)
    BY DEF Challenge
  <1> HIDE DEF c
  <1>4. GoesOn(client, client')
    BY <1>1, <1>2, <1>3, AppliedGoesOn
  <1> QED
    BY <1>1, <1>4, GoesOnKeeps DEF otherThanClient, ClientsInv, ClientsTypeOK

LEMMA RotateSecretKeeps ==
    ASSUME ClientsInv, RotateSecret
    PROVE  ClientsInv' /\ SecretsStayDead
  <1>1. client \in ClientType /\ UNCHANGED otherThanClient /\ client.status = "verified"
    BY DEF RotateSecret, ClientsInv, ClientsTypeOK, Current
  <1> DEFINE c == [client EXCEPT !.version = @ + 1, !.secret = client.version + 1]
  <1>2. /\ c \in ClientType /\ c.status = "verified"
        /\ c.proved = client.proved /\ c.challenge = client.challenge
        /\ c.secret = client.version + 1 /\ c.version = client.version + 1
    <2>1. client.version \in Nat
      BY <1>1 DEF ClientType
    <2> DEFINE n == client.version + 1
    <2>2. n \in Nat
      BY <2>1
    <2>3. c = [client EXCEPT !.version = n, !.secret = n]
      OBVIOUS
    <2>4. c \in ClientType /\ c.status = "verified"
          /\ c.proved = client.proved /\ c.challenge = client.challenge
          /\ c.secret = n /\ c.version = n
      <3> HIDE DEF n, c
      <3> QED
        BY <1>1, <2>2, <2>3 DEF ClientType
    <2> QED
      BY <2>4
  <1>3. Apply(c)
    BY DEF RotateSecret
  <1>4. client.proved = client.challenge
    BY <1>1, RowsExistAssumption DEF ClientsInv, ProvedAndNewest
  <1> HIDE DEF c
  <1>5. GoesOn(client, client')
    BY <1>1, <1>2, <1>3, <1>4, AppliedGoesOn
  <1> QED
    BY <1>1, <1>5, GoesOnKeeps DEF otherThanClient, ClientsInv, ClientsTypeOK

LEMMA RevokeClientKeeps ==
    ASSUME ClientsInv, RevokeClient
    PROVE  ClientsInv' /\ SecretsStayDead
  <1>1. client \in ClientType /\ UNCHANGED otherThanClient
    BY DEF RevokeClient, ClientsInv, ClientsTypeOK
  <1> DEFINE c == [client EXCEPT !.status = "revoked", !.secret = None,
                    !.stale = FALSE]
  <1>2. c \in ClientType /\ c.status = "revoked" /\ c.secret = None
    BY <1>1 DEF ClientType
  <1>3. Apply(c)
    BY DEF RevokeClient
  <1> HIDE DEF c
  <1>4. GoesOn(client, client')
    BY <1>1, <1>2, <1>3, AppliedGoesOn
  <1> QED
    BY <1>1, <1>4, GoesOnKeeps DEF otherThanClient, ClientsInv, ClientsTypeOK

LEMMA ClientClockKeeps ==
    ASSUME ClientsInv, ClientClock
    PROVE  ClientsInv' /\ SecretsStayDead
  <1>1. client \in ClientType /\ UNCHANGED otherThanClient
    BY DEF ClientClock, ClientsInv, ClientsTypeOK
  <1>2. /\ client' \in ClientType
        /\ client'.revision = client.revision
        /\ client'.challenge = client.challenge
        /\ client'.status = client.status /\ client'.proved = client.proved
        /\ client'.secret = client.secret /\ client'.version = client.version
    <2>1. CASE client' = [client EXCEPT !.lapsed = TRUE]
      BY <1>1, <2>1 DEF ClientType
    <2>2. CASE client' = [client EXCEPT !.recent = FALSE]
      BY <1>1, <2>2 DEF ClientType
    <2>3. CASE client' = [client EXCEPT !.stale = TRUE]
      BY <1>1, <2>3 DEF ClientType
    <2> QED
      BY <2>1, <2>2, <2>3 DEF ClientClock
  <1>3. client.revision \in Nat
    BY <1>1 DEF ClientType
  <1>4. GoesOn(client, client')
    BY <1>1, <1>2, <1>3, RowsExistAssumption DEF GoesOn, ClientsInv, ProvedAndNewest
  <1> QED
    BY <1>1, <1>4, GoesOnKeeps DEF otherThanClient, ClientsInv, ClientsTypeOK

(* The probe that is sent carries the revision the row now has.            *)
LEMMA VerifyKeeps ==
    ASSUME ClientsInv, Verify
    PROVE  ClientsInv' /\ SecretsStayDead
  <1>1. client \in ClientType /\ client.status = "pending"
    BY DEF Verify, ClientsInv, ClientsTypeOK
  <1> DEFINE c == [client EXCEPT !.recent = TRUE, !.result = "checking"]
             p == [revision |-> client.revision + 1,
                   challenge |-> client.challenge,
                   ok |-> IF Busy THEN FALSE ELSE None]
  <1>2. /\ c \in ClientType /\ c.status = "pending"
        /\ c.challenge = client.challenge
        /\ c.secret = client.secret /\ c.version = client.version
    BY <1>1 DEF ClientType
  <1>3. Apply(c) /\ probes' = probes \cup {p}
    BY DEF Verify
  <1>4. /\ p \in ProbeType /\ p.revision = client.revision + 1
        /\ p.challenge = client.challenge
    BY <1>1 DEF ClientType, ProbeType
  <1> HIDE DEF c, p
  <1>5. client.secret \in {None, client.version}
    BY <1>1, RowsExistAssumption DEF ClientsInv, ProvedAndNewest
  <1>6. GoesOn(client, client') /\ client'.revision = client.revision + 1
    BY <1>1, <1>2, <1>3, <1>5, AppliedGoesOn
  <1>7. client'.challenge = client.challenge /\ client' \in ClientType
    BY <1>1, <1>2, <1>3, ApplyGives
  <1>8. p.revision <= client'.revision /\ client' # None
    BY <1>4, <1>6, <1>7, RowsExistAssumption DEF ClientType
  <1>9. ProbesAreAbout({p}, client')
    BY <1>4, <1>7, <1>8 DEF ProbesAreAbout
  <1>10. probes' \subseteq ProbeType
    BY <1>3, <1>4 DEF ClientsInv, ClientsTypeOK
  <1> QED
    BY <1>1, <1>3, <1>6, <1>9, <1>10, GoesOnKeeps DEF Verify

LEMMA AnswerKeeps ==
    ASSUME ClientsInv, NEW p \in probes, Answer(p) \/ ProbeLost(p)
    PROVE  ClientsInv' /\ SecretsStayDead
  <1> DEFINE q == [p EXCEPT !.ok = Succeeds(p)]
  <1>1. p \in ProbeType
    BY DEF ClientsInv, ClientsTypeOK
  <1>2. q \in ProbeType /\ q.revision = p.revision /\ q.challenge = p.challenge
    BY <1>1 DEF ProbeType, Succeeds
  <1>3. probes' \subseteq probes \cup {q} /\ UNCHANGED otherThanProbes
    BY DEF Answer, ProbeLost
  <1> HIDE DEF q
  <1>4. ClientsTypeOK'
    BY <1>2, <1>3 DEF ClientsInv, ClientsTypeOK, otherThanProbes
  <1>5. \A r \in probes' : \E s \in probes :
            r.revision = s.revision /\ r.challenge = s.challenge
    BY <1>2, <1>3
  <1> QED
    BY <1>3, <1>4, <1>5, SameClientKeeps DEF otherThanProbes, AppAuthenticates

(* A probe of the present revision carries the present challenge.          *)
LEMMA FinishProbeKeeps ==
    ASSUME ClientsInv, NEW p \in probes, FinishProbe(p)
    PROVE  ClientsInv' /\ SecretsStayDead
  <1>1. /\ p \in ProbeType /\ client # None /\ client \in ClientType
        /\ p.revision = client.revision => p.challenge = client.challenge
    BY DEF ClientsInv, ClientsTypeOK, ProbesAreAbout
  <1>2. /\ probes' \subseteq probes
        /\ UNCHANGED <<signed, endpoint, launch, credentialVersion, rotations>>
    BY DEF FinishProbe
  <1>3. probes' \subseteq ProbeType
    BY <1>2 DEF ClientsInv, ClientsTypeOK
  <1>4. CASE UNCHANGED client
    <2>1. ClientsTypeOK'
      BY <1>2, <1>3, <1>4 DEF ClientsInv, ClientsTypeOK
    <2> QED
      BY <1>2, <1>4, <2>1, SameClientKeeps DEF AppAuthenticates
  <1>5. CASE client.revision = p.revision /\ client.status = "pending"
    <2>1. client.secret \in {None, client.version} /\ p.challenge \in Nat
      BY <1>1 DEF ClientsInv, ProvedAndNewest, ProbeType
    <2>2. ASSUME Apply([client EXCEPT !.status = "verified",
                          !.result = "verified", !.stale = FALSE,
                          !.proved = p.challenge])
          PROVE  GoesOn(client, client')
      <3> DEFINE c == [client EXCEPT !.status = "verified",
                          !.result = "verified", !.stale = FALSE,
                          !.proved = p.challenge]
      <3>1. /\ c \in ClientType
            /\ c.proved = p.challenge /\ c.challenge = client.challenge
            /\ c.secret = client.secret /\ c.version = client.version
        BY <1>1, <2>1 DEF ClientType
      <3>2. Apply(c)
        BY <2>2
      <3> HIDE DEF c
      <3> QED
        BY <1>1, <1>5, <2>1, <3>1, <3>2, AppliedGoesOn
    <2>3. ASSUME Apply([client EXCEPT !.result = "failed"])
          PROVE  GoesOn(client, client')
      <3> DEFINE c == [client EXCEPT !.result = "failed"]
      <3>1. /\ c \in ClientType /\ c.status = client.status
            /\ c.secret = client.secret /\ c.version = client.version
        BY <1>1 DEF ClientType
      <3>2. Apply(c)
        BY <2>3
      <3> HIDE DEF c
      <3> QED
        BY <1>1, <1>5, <2>1, <3>1, <3>2, AppliedGoesOn
    <2>4. UNCHANGED client \/ GoesOn(client, client')
      BY <2>2, <2>3 DEF FinishProbe
    <2> QED
      BY <1>1, <1>2, <1>3, <1>4, <2>4, GoesOnKeeps
  <1> QED
    BY <1>4, <1>5 DEF FinishProbe

LEMMA LaunchKeeps ==
    ASSUME ClientsInv,
           \/ SubmitLaunch
           \/ \E status \in {"approved", "rejected", "revoked"} : ReviewLaunch(status)
    PROVE  ClientsInv' /\ SecretsStayDead
  <1>1. UNCHANGED otherThanLaunch
    BY DEF SubmitLaunch, ReviewLaunch
  <1>2. launch' \in LaunchType
    <2>1. CASE SubmitLaunch
      BY <2>1 DEF SubmitLaunch, LaunchType
    <2>2. ASSUME NEW status \in {"approved", "rejected", "revoked"},
                 ReviewLaunch(status)
          PROVE  launch' \in LaunchType
      <3>1. launch \in LaunchType
        BY <2>2 DEF ClientsInv, ClientsTypeOK, ReviewLaunch
      <3>2. launch.revision + 1 \in Nat /\ launch.signature \in BOOLEAN
        BY <3>1 DEF LaunchType
      <3>3. (launch.signature \/ status = "approved") \in BOOLEAN
        BY <3>2
      <3> QED
        BY <2>2, <3>2, <3>3 DEF ReviewLaunch, LaunchType
    <2> QED
      BY <2>1, <2>2
  <1>3. ClientsTypeOK'
    BY <1>1, <1>2 DEF ClientsInv, ClientsTypeOK, otherThanLaunch
  <1>4. ~(launch # None /\ launch.status \in {"rejected", "revoked"})
    BY DEF SubmitLaunch, ReviewLaunch
  <1> QED
    BY <1>1, <1>3, <1>4, SameClientKeeps DEF otherThanLaunch, AppAuthenticates

LEMMA ClientsKeep ==
    ASSUME ClientsInv, ClientsNext
    PROVE  ClientsInv' /\ SecretsStayDead
  <1>1. CASE Distribute \/ \E c \in {None} \cup 0..MaxChallenges : Serve(c)
    <2>1. UNCHANGED <<client, probes, launch, credentialVersion, rotations>>
      BY <1>1 DEF Distribute, Serve
    <2>2. signed' \in BOOLEAN
      BY <1>1 DEF Distribute, Serve, ClientsInv, ClientsTypeOK
    <2>3. endpoint' \in Nat \cup {None}
      <3>1. \A c \in {None} \cup 0..MaxChallenges : c \in Nat \cup {None}
        BY ClientsAssumption
      <3> QED
        BY <1>1, <3>1 DEF Distribute, Serve, ClientsInv, ClientsTypeOK
    <2>4. ClientsTypeOK'
      BY <2>1, <2>2, <2>3 DEF ClientsInv, ClientsTypeOK
    <2> QED
      BY <2>1, <2>4, SameClientKeeps DEF AppAuthenticates
  <1>2. ASSUME NEW p \in probes, Answer(p) \/ ProbeLost(p) \/ FinishProbe(p)
        PROVE  ClientsInv' /\ SecretsStayDead
    BY <1>2, AnswerKeeps, FinishProbeKeeps
  <1> QED
    BY <1>1, <1>2, RegisterKeeps, ChallengeKeeps, VerifyKeeps, RotateSecretKeeps,
       RevokeClientKeeps, ClientClockKeeps, LaunchKeeps DEF ClientsNext

LEMMA CredentialKeeps ==
    ASSUME ClientsInv, CredentialNext
    PROVE  ClientsInv' /\ SecretsStayDead
  <1>1. UNCHANGED otherThanCredential /\ credentialVersion' = credentialVersion + 1
    BY DEF CredentialNext, EnsureCredential, RotateCredential
  <1>2. credentialVersion \in Nat /\ credentialVersion + 1 \in Nat
    BY DEF ClientsInv, ClientsTypeOK
  <1>3. rotations' \in [RotateKeys -> Nat \cup {None}]
    <2>1. CASE EnsureCredential
      BY <2>1 DEF EnsureCredential, ClientsInv, ClientsTypeOK
    <2>2. ASSUME NEW k \in RotateKeys, NEW v \in 1..Cardinality(RotateKeys) + 1,
                 RotateCredential(k, v)
          PROVE  rotations' \in [RotateKeys -> Nat \cup {None}]
      BY <1>2, <2>2 DEF RotateCredential, ClientsInv, ClientsTypeOK
    <2> QED
      BY <2>1, <2>2 DEF CredentialNext
  <1>4. ClientsTypeOK'
    BY <1>1, <1>2, <1>3 DEF ClientsInv, ClientsTypeOK, otherThanCredential
  <1>5. \A v \in 1..credentialVersion : AppAuthenticates(v)' => AppAuthenticates(v)
    BY <1>1, <1>2 DEF AppAuthenticates
  <1> QED
    BY <1>1, <1>4, <1>5, SameClientKeeps DEF otherThanCredential

LEMMA SameClientsKeep ==
    ASSUME ClientsInv, UNCHANGED clientVars
    PROVE  ClientsInv' /\ SecretsStayDead
  <1>1. ClientsTypeOK'
    BY DEF ClientsInv, ClientsTypeOK
  <1> QED
    BY <1>1, SameClientKeeps DEF AppAuthenticates

-----------------------------------------------------------------------------
(* The whole specification *)

(* The components besides the one a run is about are as they began.        *)
OthersAtRest ==
    /\ focus # "developers" => finishes = [d \in DevLogins |-> None]
    /\ focus # "calls" => rpc = [r \in RpcCalls |-> None]

IdentityInv ==
    /\ focus \in Focuses
    /\ PortalInv
    /\ IF focus = "developers" THEN MerchantInv ELSE MerchantTypeOK
    /\ KeysInv
    /\ IF focus = "calls" THEN CallsInv ELSE CallsTypeOK
    /\ ClientsInv
    /\ OthersAtRest

LEMMA IdentityInitInv == Init => IdentityInv
  <1> SUFFICES ASSUME Init PROVE IdentityInv
    OBVIOUS
  <1>1. PortalInv
    BY PortalInitInv, IdentityAssumption DEF Init
  <1>2. /\ MerchantTypeOK /\ finishes = [d \in DevLogins |-> None]
        /\ focus = "developers" => MerchantInv
    BY MerchantInitInv DEF Init, MerchantInit, MerchantTypeOK
  <1>3. KeysInv
    BY NoKeysInit, BothKindsInit DEF Init
  <1>4. CallsInv
    BY CallsInitInv DEF Init
  <1>5. ClientsInv
    BY ClientsInitInv DEF Init
  <1> QED
    BY <1>1, <1>2, <1>3, <1>4, <1>5
    DEF Init, IdentityInv, OthersAtRest, CallsInv, CallsInit

(* What may not be said of a step: that something ended came back.         *)
NothingComesBack ==
    SessionsStayEnded /\ KeysStayDead /\ RevokedRegistersNothing /\ SecretsStayDead

LEMMA SameUsersStay ==
    ASSUME NoneRevives, UNCHANGED users
    PROVE  SessionsStayEnded
  BY DEF NoneRevives, SessionsStayEnded, UserAuthenticates

LEMMA PortalsLeaveUsers ==
    ASSUME PortalNext
    PROVE  UNCHANGED users
  <1>1. LoginNext => UNCHANGED users
    BY DEF LoginNext, Login, LoginUnified, SwitchFrom, ReplacePortalSession, LoginFails
  <1>2. SessionNext => UNCHANGED users
    BY DEF SessionNext, Expire, Logout
  <1>3. Commands => UNCHANGED users
    BY DEF Commands, InitPortals, UpdateAdmin, SeedPortal, UpdateDatabase, UpdateFile,
           UpdateCrash
  <1>4. (\E a \in Accounts : Disable(a)) => UNCHANGED users
    BY DEF Disable
  <1> QED
    BY <1>1, <1>2, <1>3, <1>4 DEF PortalNext

LEMMA MerchantsLeaveUsers ==
    ASSUME MerchantNext
    PROVE  UNCHANGED users
  <1>1. BrowserNext => UNCHANGED users
    BY DEF BrowserNext, Start, FinishBrowser, Approve
  <1>2. CLINext => UNCHANGED users
    BY DEF CLINext, Start, CLIConfirmation, PollCLI
  <1>3. ActivityNext => UNCHANGED users
    BY DEF ActivityNext, Activity
  <1>4. (\E r \in Requests : RequestExpires(r)) => UNCHANGED users
    BY DEF RequestExpires
  <1>5. ASSUME NEW d \in DevLogins, Take(d) \/ Lock(d) \/ Commit(d) \/ FinishFails(d)
        PROVE  UNCHANGED users
    BY <1>5 DEF Take, Lock, Commit, FinishFails
  <1> QED
    BY <1>1, <1>2, <1>3, <1>4, <1>5 DEF MerchantNext

LEMMA SamePortalKeeps ==
    ASSUME PortalInv, UNCHANGED portalVars
    PROVE  PortalInv' /\ SessionsStayEnded
  <1>1. Aged
    BY SameSessionsAge DEF PortalInv
  <1>2. AdminSessions' /\ LoginsAreIn' /\ SessionsAreLinked' /\ NoneRevives
    BY <1>1, AgedKeeps, AgedRevivesNone
  <1> QED
    BY <1>2, SameUsersStay DEF PortalInv, PortalTypeOK, AdminIsSeeded

LEMMA SameMerchantKeeps ==
    ASSUME PortalInv, MerchantInv, UNCHANGED portalVars, UNCHANGED merchantVars
    PROVE  MerchantInv'
  <1>1. Aged
    BY SameSessionsAge DEF PortalInv
  <1> QED
    BY <1>1, AgedKeepsMerchant

LEMMA SameCallsKeep ==
    ASSUME CallsInv, UNCHANGED <<keyVars, callVars>>
    PROVE  CallsInv'
  <1>1. \A r \in RpcCalls : RpcAt(r)' = RpcAt(r) /\ Sharing(r)' = Sharing(r)
    BY DEF RpcAt, Sharing
  <1> QED
    BY <1>1 DEF CallsInv, CallsTypeOK, SharedIsGood, InsertedIsNew

LEMMA IdentityStays ==
    ASSUME IdentityInv, UNCHANGED vars
    PROVE  IdentityInv' /\ NothingComesBack
  <1>1. PortalInv' /\ SessionsStayEnded
    BY SamePortalKeeps DEF IdentityInv, vars
  <1>2. MerchantTypeOK' /\ (focus = "developers" => MerchantInv')
    BY SameMerchantKeeps DEF IdentityInv, MerchantInv, MerchantTypeOK, vars
  <1>3. KeysInv' /\ KeysStayDead
    BY SameKeysKeep DEF IdentityInv, vars
  <1>4. CallsTypeOK' /\ (focus = "calls" => CallsInv')
    BY SameCallsKeep DEF IdentityInv, CallsInv, CallsTypeOK, vars
  <1>5. ClientsInv' /\ SecretsStayDead
    BY SameClientsKeep DEF IdentityInv, vars
  <1> QED
    BY <1>1, <1>2, <1>3, <1>4, <1>5
    DEF IdentityInv, NothingComesBack, OthersAtRest, RevokedRegistersNothing, vars

LEMMA IdentityKeeps ==
    ASSUME IdentityInv, Next
    PROVE  IdentityInv' /\ NothingComesBack
  <1>1. focus \in Focuses /\ UNCHANGED focus
    BY DEF IdentityInv, Next
  <1>2. /\ UNCHANGED portalVars => PortalInv' /\ SessionsStayEnded
        /\ UNCHANGED merchantVars /\ focus # "developers" =>
                MerchantTypeOK' /\ finishes' = [d \in DevLogins |-> None]
        /\ UNCHANGED keyVars => KeysInv' /\ KeysStayDead
        /\ UNCHANGED callVars /\ focus # "calls" =>
                /\ CallsTypeOK' /\ rpc' = [r \in RpcCalls |-> None]
                /\ RevokedRegistersNothing
        /\ UNCHANGED clientVars => ClientsInv' /\ SecretsStayDead
    <2>1. UNCHANGED portalVars => PortalInv' /\ SessionsStayEnded
      BY SamePortalKeeps DEF IdentityInv
    <2>2. UNCHANGED merchantVars /\ focus # "developers" =>
                MerchantTypeOK' /\ finishes' = [d \in DevLogins |-> None]
      BY DEF IdentityInv, OthersAtRest, MerchantTypeOK
    <2>3. UNCHANGED keyVars => KeysInv' /\ KeysStayDead
      BY SameKeysKeep DEF IdentityInv
    <2>4. UNCHANGED callVars /\ focus # "calls" =>
                /\ CallsTypeOK' /\ rpc' = [r \in RpcCalls |-> None]
                /\ RevokedRegistersNothing
      BY DEF IdentityInv, OthersAtRest, CallsTypeOK, RevokedRegistersNothing
    <2>5. UNCHANGED clientVars => ClientsInv' /\ SecretsStayDead
      BY SameClientsKeep DEF IdentityInv
    <2> QED
      BY <2>1, <2>2, <2>3, <2>4, <2>5
  <1>3. CASE focus \in {"passwords", "users"}
    <2>1. PortalInv' /\ SessionsStayEnded
      <3>1. CASE focus = "passwords"
        BY <3>1, PortalKeeps, PortalsLeaveUsers, SameUsersStay DEF IdentityInv, Next
      <3>2. CASE focus = "users"
        BY <3>2, UserKeeps DEF IdentityInv, Next, SessionsStayEnded, NoneRevives
      <3> QED
        BY <1>3, <3>1, <3>2
    <2>2. UNCHANGED <<merchantVars, keyVars, callVars, clientVars>>
      BY <1>3 DEF Next
    <2> QED
      BY <1>1, <1>2, <1>3, <2>1, <2>2
      DEF IdentityInv, OthersAtRest, NothingComesBack
  <1>4. CASE focus = "developers"
    <2>1. PortalInv' /\ NoneRevives /\ MerchantInv' /\ UNCHANGED users
      <3>1. CASE MerchantNext
        BY <1>4, <3>1, MerchantKeeps, MerchantsLeaveUsers DEF IdentityInv
      <3>2. ASSUME NEW t \in DevLogins, Expire(t), UNCHANGED merchantVars
            PROVE  PortalInv' /\ NoneRevives /\ MerchantInv' /\ UNCHANGED users
        <4>1. t \in Tokens
          BY NoneIsNoToken
        <4> QED
          BY <1>4, <3>2, <4>1, SessionKeeps, ExpireAges, AgedKeepsMerchant
          DEF IdentityInv, PortalInv, Expire
      <3> QED
        BY <1>4, <3>1, <3>2 DEF Next
    <2>2. UNCHANGED <<keyVars, callVars, clientVars>>
      BY <1>4 DEF Next
    <2>3. SessionsStayEnded
      BY <2>1, SameUsersStay
    <2> QED
      BY <1>1, <1>2, <1>4, <2>1, <2>2, <2>3
      DEF IdentityInv, OthersAtRest, NothingComesBack
  <1>5. CASE focus \in {"keys", "operator"}
    <2>1. KeysInv' /\ KeysStayDead
      BY <1>5, KeysKeep, CoreKeeps DEF IdentityInv, Next
    <2>2. UNCHANGED <<portalVars, merchantVars, callVars, clientVars>>
      BY <1>5 DEF Next
    <2> QED
      BY <1>1, <1>2, <1>5, <2>1, <2>2
      DEF IdentityInv, OthersAtRest, NothingComesBack
  <1>6. CASE focus = "calls"
    <2>1. KeysInv' /\ KeysStayDead /\ CallsInv' /\ RevokedRegistersNothing
      BY <1>6, CallsKeep DEF IdentityInv, Next
    <2>2. UNCHANGED <<portalVars, merchantVars, clientVars>>
      BY <1>6 DEF Next
    <2> QED
      BY <1>1, <1>2, <1>6, <2>1, <2>2
      DEF IdentityInv, OthersAtRest, NothingComesBack
  <1>7. CASE focus \in {"clients", "credential"}
    <2>1. ClientsInv' /\ SecretsStayDead
      BY <1>7, ClientsKeep, CredentialKeeps DEF IdentityInv, Next
    <2>2. UNCHANGED <<portalVars, merchantVars, keyVars, callVars>>
      BY <1>7 DEF Next
    <2> QED
      BY <1>1, <1>2, <1>7, <2>1, <2>2
      DEF IdentityInv, OthersAtRest, NothingComesBack
  <1> QED
    BY <1>1, <1>3, <1>4, <1>5, <1>6, <1>7 DEF Focuses

LEMMA IdentityAlways == Spec => []IdentityInv
  <1>1. IdentityInv /\ [Next]_vars => IdentityInv'
    BY IdentityKeeps, IdentityStays
  <1> QED
    BY <1>1, IdentityInitInv, PTL DEF Spec

(* The tables of users, sessions, logins, keys, calls, clients and         *)
(* credentials keep their shape.                                           *)
THEOREM TypeCorrect == Spec => []TypeOK
  <1>1. IdentityInv => TypeOK
    BY DEF IdentityInv, PortalInv, MerchantInv, KeysInv, CallsInv, ClientsInv, TypeOK
  <1> QED
    BY <1>1, IdentityAlways, PTL

(* A login that was verified against a password which is being replaced    *)
(* leaves no session behind: every session of the administrator was opened *)
(* with the password that is in force now.                                 *)
THEOREM PasswordsRule == Spec => []SessionsFollowPassword
  <1>1. IdentityInv => SessionsFollowPassword
    BY DEF IdentityInv, PortalInv, AdminSessions, SessionsFollowPassword
  <1> QED
    BY <1>1, IdentityAlways, PTL

(* Of all the finishes of one merchant login, however they interleave, one *)
(* gets a session, the request is used up, and the session is that of the  *)
(* account the login is linked to.                                         *)
THEOREM RequestsBecomeOneSession == Spec => []OneSessionPerRequest
  <1>1. IdentityInv => OneSessionPerRequest
    BY MerchantInvImplies, NobodyFinishes DEF IdentityInv, OthersAtRest
  <1> QED
    BY <1>1, IdentityAlways, PTL

(* However often a request for a key is repeated, at once or after a lost  *)
(* answer, one key is made under it.                                       *)
THEOREM RequestsMakeOneKey == Spec => []OneKeyPerRequest
  <1>1. IdentityInv => OneKeyPerRequest
    BY KeysInvImplies DEF IdentityInv
  <1> QED
    BY <1>1, IdentityAlways, PTL

(* A client counts as verified, its secret authenticates and its launch is *)
(* current only behind a proof of the challenge it holds now, whatever     *)
(* probes were on their way when it was challenged anew.                   *)
THEOREM ProofsAreCurrent == Spec => []ProofIsOfThisChallenge
  <1>1. IdentityInv => ProofIsOfThisChallenge
    BY ClientsInvImplies DEF IdentityInv
  <1> QED
    BY <1>1, IdentityAlways, PTL

(* No step brings back a session, a key, a client, a launch or a secret    *)
(* that had ended, and none registers a merchant with a revoked key.       *)
THEOREM WhatEndedStaysEnded == Spec => EndedStaysEnded
  <1>1. ASSUME IdentityInv, [Next]_vars
        PROVE  /\ SessionsStayEnded /\ KeysStayDead
               /\ RevokedRegistersNothing /\ SecretsStayDead
    BY <1>1, IdentityKeeps, IdentityStays DEF NothingComesBack
  <1> QED
    BY <1>1, IdentityAlways, PTL DEF Spec, EndedStaysEnded
=============================================================================
