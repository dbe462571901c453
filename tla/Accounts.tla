------------------------------ MODULE Accounts ------------------------------
(***************************************************************************)
(* People and browser sessions: setup, sign up, login and the People page  *)
(* of server/internal/web over server/internal/store/accounts.go.          *)
(*                                                                         *)
(* A handler is several statements, each a transaction of its own, with    *)
(* the hashing of a password and, on sign up, a question to a captcha      *)
(* service in between: other browsers' requests run there.  A browser      *)
(* waits for the answer to one request at a time and keeps one cookie.     *)
(*                                                                         *)
(* Account ids and session tokens are random: one that anything still      *)
(* remembers is not made again.  Form checks, which only end a handler,    *)
(* are left out.                                                           *)
(***************************************************************************)
EXTENDS Naturals, FiniteSets

CONSTANTS
    Browsers,
    Names,           \* user names typed into forms
    Ids,             \* bound: accounts at a time
    Tokens,          \* bound: sessions at a time
    None             \* no name, no account, no cookie

ASSUME Identities == IsFiniteSet(Ids) /\ None \notin Names \cup Ids \cup Tokens

VARIABLES
    users,           \* the users table, by id
    sessions,        \* the sessions table, by token
    registration,    \* the open_registration setting
    cookie,          \* [Browsers -> session token or None]
    req,             \* [Browsers -> the request it waits for]
    stale,           \* history: an administrator was deleted on a count that was no
                     \* longer true
    opened           \* history: registration has been open

vars == <<users, sessions, registration, cookie, req, stale, opened>>

Origins == {"setup", "register", "people", "cli"}

\* A row made by `daemoond -pair` has no name and no password.
UserRows == [name: Names \cup {None}, password: BOOLEAN, admin: BOOLEAN,
             how: Origins]                \* history

PCs == {"idle",
        "create", "session",              \* setup, sign up; create: the People page too
        "registering",                    \* sign up, between its two checks
        "lookup", "verify",               \* login
        "open", "close",                  \* the People page, switching sign up
        "find", "count", "delete"}        \* the People page, removing somebody

Idle == [pc |-> "idle", name |-> None, admin |-> FALSE, how |-> "cli",
         id |-> None, counted |-> 0]

Requests == [pc: PCs, name: Names \cup {None}, admin: BOOLEAN, how: Origins,
             id: Ids \cup {None},         \* the account the request is about
             counted: Nat]                \* what CountAdmins answered

UsersType ==
    /\ DOMAIN users \subseteq Ids
    /\ \A i \in DOMAIN users : users[i] \in UserRows
    /\ \A i, j \in DOMAIN users :
         i # j /\ users[i].name # None => users[i].name # users[j].name

SessionsType ==
    /\ DOMAIN sessions \subseteq Tokens
    /\ \A t \in DOMAIN sessions : sessions[t] \in [user: Ids, expired: BOOLEAN]

TypeOK ==
    /\ UsersType
    /\ SessionsType
    /\ registration \in {"absent", "0", "1"}
    /\ cookie \in [Browsers -> Tokens \cup {None}]
    /\ req \in [Browsers -> Requests]
    /\ stale \in BOOLEAN /\ opened \in BOOLEAN

Init ==
    /\ users = <<>> /\ sessions = <<>>
    /\ registration = "absent"
    /\ cookie = [b \in Browsers |-> None]
    /\ req = [b \in Browsers |-> Idle]
    /\ stale = FALSE /\ opened = FALSE

With(f, x, y)    == [z \in DOMAIN f \cup {x} |-> IF z = x THEN y ELSE f[z]]
Without(f, gone) == [z \in DOMAIN f \ gone |-> f[z]]

-----------------------------------------------------------------------------
(* The store *)

\* CountUsers counts who can log in; a row without a password does not.
People == {i \in DOMAIN users : users[i].password}

Admins(rows) == {i \in DOMAIN rows : rows[i].admin}

\* A setting nobody has touched reads as open.
OpenByDefault(setting) == setting # "0"

\* OpenRegistration: its absence is "no".
OpenRegistration(setting) == setting = "1"

\* SessionUser: the row is there, has not expired, and so has its owner.
Valid(t) == t \in DOMAIN sessions /\ ~sessions[t].expired

\* Ids and tokens nothing remembers.
FreshIds    == Ids \ (DOMAIN users \cup {req[b].id : b \in Browsers})
FreshTokens == Tokens \ (DOMAIN sessions \cup {cookie[b] : b \in Browsers})

Do(b, request) == req' = [req EXCEPT ![b] = request]
Answered(b)    == Do(b, Idle)

\* The rows a deleted person leaves behind when only the users table is touched.
KeepSessions(rows, id) == rows

\* ON DELETE CASCADE
CascadeSessions(rows, id) == Without(rows, {t \in DOMAIN rows : rows[t].user = id})

-----------------------------------------------------------------------------
(* Setup and sign up *)

\* postSetup: an instance with an account on it does not offer another administrator.
PostSetup(b) ==
    /\ req[b].pc = "idle"
    /\ People = {}
    /\ \E n \in Names :
         Do(b, [Idle EXCEPT !.pc = "create", !.name = n, !.admin = TRUE, !.how = "setup"])
    /\ UNCHANGED <<users, sessions, registration, cookie, stale, opened>>

\* postRegister: on a fresh instance the first account is setup's job.  A count that fails
\* is not a count of zero.
PostRegister(b) ==
    /\ req[b].pc = "idle"
    /\ \E failed \in BOOLEAN : failed \/ People # {}
    /\ \E n \in Names :
         Do(b, [Idle EXCEPT !.pc = "registering", !.name = n, !.how = "register"])
    /\ UNCHANGED <<users, sessions, registration, cookie, stale, opened>>

\* ... and then the setting, and if it is open the captcha and the hashing.
CheckOpen(b) ==
    /\ req[b].pc = "registering"
    /\ IF OpenRegistration(registration) THEN Do(b, [req[b] EXCEPT !.pc = "create"]) ELSE Answered(b)
    /\ UNCHANGED <<users, sessions, registration, cookie, stale, opened>>

\* Whoever comes second overwrites nothing and is not refused either.
NeverTaken(name) == FALSE

\* The unique index on username.
Taken(name) == \E i \in DOMAIN users : users[i].name = name

\* CreateUser: a name that is taken fails.  Setup and sign up go on to a session, the
\* People page is shown again.
CreateUser(b) ==
    LET r == req[b] IN
    /\ r.pc = "create"
    /\ \/ Taken(r.name) /\ Answered(b) /\ UNCHANGED users
       \/ /\ ~Taken(r.name)
          /\ \E i \in FreshIds :
               /\ users' = With(users, i, [name |-> r.name, password |-> TRUE,
                                           admin |-> r.admin, how |-> r.how])
               /\ IF r.how = "people" THEN Answered(b)
                  ELSE Do(b, [Idle EXCEPT !.pc = "session", !.id = i])
    /\ UNCHANGED <<sessions, registration, cookie, stale, opened>>

\* startSession without the foreign key.
SessionForAnybody(id) == TRUE

\* A session's row refers to its owner's: a person deleted by now gets none.
SessionFor(id) == id \in DOMAIN users

StartSession(b) ==
    /\ req[b].pc = "session"
    /\ Answered(b)
    /\ \/ /\ SessionFor(req[b].id)
          /\ \E t \in FreshTokens :
               /\ sessions' = With(sessions, t, [user |-> req[b].id, expired |-> FALSE])
               /\ cookie' = [cookie EXCEPT ![b] = t]
       \/ ~SessionFor(req[b].id) /\ UNCHANGED <<sessions, cookie>>
    /\ UNCHANGED <<users, registration, stale, opened>>

\* EnsureUser: `daemoond -pair` makes a person to pair a console for.
EnsureUser ==
    /\ \E i \in FreshIds :
         users' = With(users, i, [name |-> None, password |-> FALSE, admin |-> FALSE,
                                  how |-> "cli"])
    /\ UNCHANGED <<sessions, registration, cookie, req, stale, opened>>

-----------------------------------------------------------------------------
(* Login and logout *)

\* PurgeExpiredSessions comes first on every login, which goes on if it fails.
PostLogin(b) ==
    /\ req[b].pc = "idle"
    /\ sessions' \in {sessions, Without(sessions, {t \in DOMAIN sessions : sessions[t].expired})}
    /\ \E n \in Names : Do(b, [Idle EXCEPT !.pc = "lookup", !.name = n])
    /\ UNCHANGED <<users, registration, cookie, stale, opened>>

\* UserByName
LookUp(b) ==
    /\ req[b].pc = "lookup"
    /\ \/ \E i \in DOMAIN users :
            /\ users[i].name = req[b].name
            /\ Do(b, [Idle EXCEPT !.pc = "verify", !.id = i])
       \/ ~Taken(req[b].name) /\ Answered(b)
    /\ UNCHANGED <<users, sessions, registration, cookie, stale, opened>>

\* PasswordHash, and the password is the right one or not.
Verify(b) ==
    /\ req[b].pc = "verify"
    /\ \/ /\ req[b].id \in People
          /\ Do(b, [req[b] EXCEPT !.pc = "session"])
       \/ Answered(b)
    /\ UNCHANGED <<users, sessions, registration, cookie, stale, opened>>

\* postLogout: the cookie goes even if the row could not be deleted.
PostLogout(b) ==
    /\ req[b].pc = "idle"
    /\ cookie[b] # None
    /\ sessions' \in {sessions, Without(sessions, {cookie[b]})}
    /\ cookie' = [cookie EXCEPT ![b] = None]
    /\ UNCHANGED <<users, registration, req, stale, opened>>

\* A week passes.
Expire(t) ==
    /\ ~sessions[t].expired
    /\ sessions' = [sessions EXCEPT ![t].expired = TRUE]
    /\ UNCHANGED <<users, registration, cookie, req, stale, opened>>

\* requireSession clears a cookie that no longer opens anything.
ClearCookie(b) ==
    /\ req[b].pc = "idle"
    /\ cookie[b] # None /\ ~Valid(cookie[b])
    /\ cookie' = [cookie EXCEPT ![b] = None]
    /\ UNCHANGED <<users, sessions, registration, req, stale, opened>>

-----------------------------------------------------------------------------
(* The People page, behind requireSession: who the request acts for is read once and   *)
(* kept for the rest of it.                                                            *)

ActsAsAdmin(b) ==
    /\ req[b].pc = "idle"
    /\ Valid(cookie[b])
    /\ users[sessions[cookie[b]].user].admin

PostUsers(b) ==
    /\ ActsAsAdmin(b)
    /\ \E n \in Names, a \in BOOLEAN :
         Do(b, [Idle EXCEPT !.pc = "create", !.name = n, !.admin = a, !.how = "people"])
    /\ UNCHANGED <<users, sessions, registration, cookie, stale, opened>>

\* postRegistration sets what the form says, it does not toggle.
PostRegistration(b) ==
    /\ ActsAsAdmin(b)
    /\ \E to \in {"open", "close"} : Do(b, [Idle EXCEPT !.pc = to])
    /\ UNCHANGED <<users, sessions, registration, cookie, stale, opened>>

SetOpenRegistration(b) ==
    /\ req[b].pc \in {"open", "close"}
    /\ registration' = IF req[b].pc = "open" THEN "1" ELSE "0"
    /\ opened' = (opened \/ req[b].pc = "open")
    /\ Answered(b)
    /\ UNCHANGED <<users, sessions, cookie, stale>>

PostDeleteUser(b) ==
    /\ ActsAsAdmin(b)
    /\ \E i \in Ids : Do(b, [Idle EXCEPT !.pc = "find", !.id = i])
    /\ UNCHANGED <<users, sessions, registration, cookie, stale, opened>>

FindTarget(b) ==
    /\ req[b].pc = "find"
    /\ \/ req[b].id \notin DOMAIN users /\ Answered(b)
       \/ /\ req[b].id \in DOMAIN users
          /\ Do(b, [req[b] EXCEPT !.pc = IF users[req[b].id].admin THEN "count" ELSE "delete",
                                  !.admin = users[req[b].id].admin])
    /\ UNCHANGED <<users, sessions, registration, cookie, stale, opened>>

\* Nobody is the last one.
AlwaysSpare(n) == TRUE

\* "The last administrator cannot be removed."
Spare(n) == n > 1

CountAdmins(b) ==
    LET n == Cardinality(Admins(users)) IN
    /\ req[b].pc = "count"
    /\ IF Spare(n) THEN Do(b, [req[b] EXCEPT !.pc = "delete", !.counted = n]) ELSE Answered(b)
    /\ UNCHANGED <<users, sessions, registration, cookie, stale, opened>>

\* DeleteUser, and the cascade; somebody who is gone already is not found.
DeleteUser(b) ==
    LET r == req[b] IN
    /\ r.pc = "delete"
    /\ Answered(b)
    /\ \/ /\ r.id \in DOMAIN users
          /\ users' = Without(users, {r.id})
          /\ sessions' = CascadeSessions(sessions, r.id)
          /\ stale' = (stale \/ (r.admin /\ r.counted # Cardinality(Admins(users))))
       \/ r.id \notin DOMAIN users /\ UNCHANGED <<users, sessions, stale>>
    /\ UNCHANGED <<registration, cookie, opened>>

\* The browser leaves, a statement fails or the server stops: what the request has not
\* done yet it does not do.
CutShort(b) ==
    /\ req[b].pc # "idle"
    /\ Answered(b)
    /\ UNCHANGED <<users, sessions, registration, cookie, stale, opened>>

-----------------------------------------------------------------------------
Next ==
    \/ \E b \in Browsers :
         \/ PostSetup(b) \/ PostRegister(b) \/ CheckOpen(b) \/ CreateUser(b) \/ StartSession(b)
         \/ PostLogin(b) \/ LookUp(b) \/ Verify(b) \/ PostLogout(b) \/ ClearCookie(b)
         \/ PostUsers(b) \/ PostRegistration(b) \/ SetOpenRegistration(b)
         \/ PostDeleteUser(b) \/ FindTarget(b) \/ CountAdmins(b) \/ DeleteUser(b)
         \/ CutShort(b)
    \/ EnsureUser
    \/ \E t \in DOMAIN sessions : Expire(t)

Spec == Init /\ [][Next]_vars

-----------------------------------------------------------------------------
(* What makes it correct *)

\* An instance with people on it has somebody who can administer it: accounts appear
\* only after setup's administrator and that one goes last.  Two administrators removed
\* on counts taken before either went are the exception.
AdministratorRemains == stale \/ People = {} \/ Admins(users) # {}

\* Deleting a person closes every way in they had, also one that a login under way while
\* they were deleted would have opened.
SessionsHaveOwners == \A t \in DOMAIN sessions : sessions[t].user \in DOMAIN users

\* Nobody signs up on an instance whose administrator never opened it: "an instance
\* nobody has configured has to be closed" (SettingOpenRegistration).
SignUpWasOpened == (\E i \in DOMAIN users : users[i].how = "register") => opened

-----------------------------------------------------------------------------
(* What TLC refutes *)

\* Said by a comment: "The last administrator cannot be removed, whether by themselves or
\* by another" (postDeleteUser).
LastAdministratorStays == People = {} \/ Admins(users) # {}

\* Said by nothing: of two people who post the setup page together, both are let in
\* (postSetup counts and creates in two transactions).
SetupMakesOneAdministrator ==
    \A i, j \in DOMAIN users : users[i].how = "setup" /\ users[j].how = "setup" => i = j

=============================================================================
