--------------------------- MODULE AccountsProofs ---------------------------
(***************************************************************************)
(* Theorems of Accounts for any number of browsers, names, accounts and    *)
(* sessions.                                                               *)
(***************************************************************************)
EXTENDS Accounts, FiniteSetTheorems, TLAPS

\* Administrators can be counted.
LEMMA CountType ==
    ASSUME TypeOK
    PROVE  IsFiniteSet(Admins(users)) /\ Cardinality(Admins(users)) \in Nat
  <1>1. Admins(users) \subseteq Ids
    BY DEF TypeOK, UsersType, Admins
  <1> QED
    BY <1>1, Identities, FS_Subset, FS_CardinalityType

(***************************************************************************)
(* Type correctness.                                                       *)
(***************************************************************************)

\* No request is a request.
LEMMA IdleType == Idle \in Requests
  BY DEF Idle, Requests, PCs, Origins

\* What a table keeps when rows only go.
LEMMA FewerRows ==
    /\ /\ UsersType
       /\ DOMAIN users' \subseteq DOMAIN users
       /\ \A i \in DOMAIN users' : users'[i] = users[i]
       => UsersType'
    /\ /\ SessionsType
       /\ DOMAIN sessions' \subseteq DOMAIN sessions
       /\ \A t \in DOMAIN sessions' : sessions'[t] = sessions[t]
       => SessionsType'
  <1>1. ASSUME UsersType, DOMAIN users' \subseteq DOMAIN users,
               \A i \in DOMAIN users' : users'[i] = users[i]
        PROVE  UsersType'
    BY <1>1 DEF UsersType
  <1>2. ASSUME SessionsType, DOMAIN sessions' \subseteq DOMAIN sessions,
               \A t \in DOMAIN sessions' : sessions'[t] = sessions[t]
        PROVE  SessionsType'
    BY <1>2 DEF SessionsType
  <1> QED
    BY <1>1, <1>2

\* ... and when nothing happens to it.
LEMMA SameRows ==
    /\ UsersType /\ UNCHANGED users => UsersType'
    /\ SessionsType /\ UNCHANGED sessions => SessionsType'
  BY DEF UsersType, SessionsType

\* An empty database is well typed.
LEMMA InitType == Init => TypeOK
  <1> SUFFICES ASSUME Init PROVE TypeOK
    OBVIOUS
  <1>1. DOMAIN users = {} /\ DOMAIN sessions = {}
    BY DEF Init
  <1> QED
    BY <1>1, IdleType DEF Init, TypeOK, UsersType, SessionsType

\* A browser whose request becomes another request.
LEMMA DoType ==
    ASSUME TypeOK, NEW b \in Browsers, NEW r \in Requests, Do(b, r)
    PROVE  req' \in [Browsers -> Requests]
  BY DEF Do, TypeOK

\* The statements of the handlers that write nothing.
Reads(b) ==
    \/ PostSetup(b) \/ PostRegister(b) \/ CheckOpen(b) \/ LookUp(b) \/ Verify(b)
    \/ PostUsers(b) \/ PostRegistration(b)
    \/ PostDeleteUser(b) \/ FindTarget(b) \/ CountAdmins(b) \/ CutShort(b)

\* They leave every variable in its type.
LEMMA ReadsType ==
    ASSUME TypeOK, NEW b \in Browsers, Reads(b)
    PROVE  TypeOK'
  <1>1. req[b] \in Requests
    BY DEF TypeOK
  <1>2. PICK r \in Requests : Do(b, r)
    <2>1. CASE PostSetup(b) \/ PostRegister(b) \/ PostUsers(b)
      <3>1. PICK n \in Names, a \in BOOLEAN, h \in Origins :
              Do(b, [Idle EXCEPT !.pc = "create", !.name = n, !.admin = a, !.how = h])
              \/ Do(b, [Idle EXCEPT !.pc = "registering", !.name = n, !.how = h])
        BY <2>1 DEF PostSetup, PostRegister, PostUsers, Origins
      <3> QED
        BY <3>1, IdleType DEF Requests, PCs
    <2>2. CASE PostRegistration(b) \/ PostDeleteUser(b)
      BY <2>2, IdleType DEF PostRegistration, PostDeleteUser, Requests, PCs
    <2>3. CASE CheckOpen(b) \/ Verify(b) \/ CutShort(b)
      BY <1>1, <2>3, IdleType DEF CheckOpen, Verify, CutShort, Answered, Requests, PCs
    <2>4. CASE LookUp(b)
      <3>1. DOMAIN users \subseteq Ids
        BY DEF TypeOK, UsersType
      <3> QED
        BY <2>4, <3>1, IdleType DEF LookUp, Answered, Requests, PCs
    <2>5. CASE FindTarget(b)
      <3>1. req[b].id \in DOMAIN users => users[req[b].id].admin \in BOOLEAN
        BY DEF TypeOK, UsersType, UserRows
      <3> QED
        BY <1>1, <2>5, <3>1, IdleType DEF FindTarget, Answered, Requests, PCs
    <2>6. CASE CountAdmins(b)
      BY <1>1, <2>6, IdleType, CountType DEF CountAdmins, Answered, Requests, PCs
    <2> QED
      BY <2>1, <2>2, <2>3, <2>4, <2>5, <2>6 DEF Reads
  <1>3. UNCHANGED <<users, sessions, registration, cookie, stale, opened>>
    BY DEF Reads, PostSetup, PostRegister, CheckOpen, LookUp, Verify, PostUsers,
           PostRegistration, PostDeleteUser, FindTarget, CountAdmins, CutShort
  <1> QED
    BY <1>2, <1>3, DoType, SameRows DEF TypeOK

\* So does every other step.
LEMMA StepType == TypeOK /\ [Next]_vars => TypeOK'
  <1> SUFFICES ASSUME TypeOK, [Next]_vars PROVE TypeOK'
    OBVIOUS
  <1>0. UsersType /\ SessionsType
        /\ \A b \in Browsers : Answered(b) => req' \in [Browsers -> Requests]
    BY IdleType, DoType DEF Answered, TypeOK
  <1>1. ASSUME NEW b \in Browsers, Reads(b) PROVE TypeOK'
    BY <1>1, ReadsType
  <1>2. ASSUME NEW b \in Browsers, CreateUser(b) PROVE TypeOK'
    <2>1. CASE UNCHANGED users /\ Answered(b)
      BY <1>0, <1>2, <2>1, SameRows DEF CreateUser, TypeOK
    <2>2. CASE ~Taken(req[b].name) /\ \E i \in FreshIds :
                 /\ users' = With(users, i, [name |-> req[b].name, password |-> TRUE,
                                             admin |-> req[b].admin, how |-> req[b].how])
                 /\ Answered(b) \/ Do(b, [Idle EXCEPT !.pc = "session", !.id = i])
      <3> DEFINE row == [name |-> req[b].name, password |-> TRUE, admin |-> req[b].admin,
                         how |-> req[b].how]
      <3>1. row \in UserRows /\ row.name = req[b].name
        BY DEF TypeOK, Requests, UserRows
      <3>2. PICK i \in FreshIds :
              /\ users' = With(users, i, row)
              /\ Answered(b) \/ Do(b, [Idle EXCEPT !.pc = "session", !.id = i])
        BY <2>2
      <3>3. i \in Ids /\ i \notin DOMAIN users
        BY DEF FreshIds
      <3>4. [Idle EXCEPT !.pc = "session", !.id = i] \in Requests
        BY <3>3, IdleType DEF Requests, PCs
      <3>5. req' \in [Browsers -> Requests]
        BY <1>0, <3>2, <3>4, DoType
      <3> HIDE DEF row
      <3>6. /\ DOMAIN users' = DOMAIN users \cup {i} /\ users'[i] = row
            /\ \A j \in DOMAIN users \ {i} : users'[j] = users[j]
        BY <3>2 DEF With
      <3>7. \A j \in DOMAIN users : users[j].name # row.name
        BY <2>2, <3>1 DEF Taken
      <3>8. UsersType'
        BY <1>0, <3>1, <3>3, <3>6, <3>7 DEF UsersType
      <3> QED
        BY <1>0, <1>2, <3>5, <3>8, SameRows DEF CreateUser, TypeOK
    <2> QED
      BY <1>2, <2>1, <2>2 DEF CreateUser
  <1>3. ASSUME NEW b \in Browsers, StartSession(b) PROVE TypeOK'
    <2>1. CASE UNCHANGED <<sessions, cookie>>
      BY <1>0, <1>3, <2>1, SameRows DEF StartSession, TypeOK
    <2>2. CASE SessionFor(req[b].id) /\ ~UNCHANGED <<sessions, cookie>>
      <3> DEFINE row == [user |-> req[b].id, expired |-> FALSE]
      <3>1. PICK t \in FreshTokens : sessions' = With(sessions, t, row)
                                     /\ cookie' = [cookie EXCEPT ![b] = t]
        BY <1>3, <2>2 DEF StartSession
      <3>2. row \in [user : Ids, expired : BOOLEAN]
        BY <1>0, <2>2 DEF SessionFor, UsersType
      <3> HIDE DEF row
      <3>3. /\ DOMAIN sessions' = DOMAIN sessions \cup {t} /\ sessions'[t] = row
            /\ \A u \in DOMAIN sessions \ {t} : sessions'[u] = sessions[u]
        BY <3>1 DEF With
      <3>4. SessionsType'
        BY <1>0, <3>2, <3>3 DEF SessionsType, FreshTokens
      <3>5. cookie' \in [Browsers -> Tokens \cup {None}]
        BY <3>1 DEF TypeOK, FreshTokens
      <3> QED
        BY <1>0, <1>3, <3>4, <3>5, SameRows DEF StartSession, TypeOK
    <2> QED
      BY <1>3, <2>1, <2>2 DEF StartSession
  <1>4. ASSUME NEW b \in Browsers, PostLogin(b) PROVE TypeOK'
    <2>1. /\ DOMAIN sessions' \subseteq DOMAIN sessions
          /\ \A t \in DOMAIN sessions' : sessions'[t] = sessions[t]
      BY <1>4 DEF PostLogin, Without
    <2> SessionsType'
      BY <1>0, <2>1, FewerRows
    <2>2. PICK n \in Names : Do(b, [Idle EXCEPT !.pc = "lookup", !.name = n])
      BY <1>4 DEF PostLogin
    <2>3. [Idle EXCEPT !.pc = "lookup", !.name = n] \in Requests
      BY IdleType DEF Requests, PCs
    <2> QED
      BY <1>0, <1>4, <2>1, <2>2, <2>3, DoType, SameRows DEF PostLogin, TypeOK
  <1>5. ASSUME NEW b \in Browsers, PostLogout(b) PROVE TypeOK'
    <2>1. /\ DOMAIN sessions' \subseteq DOMAIN sessions
          /\ \A t \in DOMAIN sessions' : sessions'[t] = sessions[t]
      BY <1>5 DEF PostLogout, Without
    <2> SessionsType'
      BY <1>0, <2>1, FewerRows
    <2> QED
      BY <1>0, <1>5, <2>1, SameRows DEF PostLogout, TypeOK
  <1>6. ASSUME NEW b \in Browsers, ClearCookie(b) \/ SetOpenRegistration(b) PROVE TypeOK'
    BY <1>0, <1>6, SameRows DEF ClearCookie, SetOpenRegistration, TypeOK
  <1>7. ASSUME NEW b \in Browsers, DeleteUser(b) PROVE TypeOK'
    <2>1. /\ DOMAIN users' \subseteq DOMAIN users
          /\ \A i \in DOMAIN users' : users'[i] = users[i]
          /\ DOMAIN sessions' \subseteq DOMAIN sessions
          /\ \A t \in DOMAIN sessions' : sessions'[t] = sessions[t]
      BY <1>7 DEF DeleteUser, CascadeSessions, Without
    <2> UsersType' /\ SessionsType'
      BY <1>0, <2>1, FewerRows
    <2>2. stale' \in BOOLEAN
      BY <1>7 DEF DeleteUser, TypeOK
    <2> QED
      BY <1>0, <1>7, <2>1, <2>2 DEF DeleteUser, TypeOK
  <1>8. ASSUME EnsureUser PROVE TypeOK'
    <2> DEFINE row == [name |-> None, password |-> FALSE, admin |-> FALSE, how |-> "cli"]
    <2>1. PICK i \in FreshIds : users' = With(users, i, row)
      BY <1>8 DEF EnsureUser
    <2>2. row \in UserRows /\ row.name = None
      BY DEF UserRows, Origins
    <2> HIDE DEF row
    <2>3. /\ DOMAIN users' = DOMAIN users \cup {i} /\ users'[i] = row
          /\ \A j \in DOMAIN users \ {i} : users'[j] = users[j]
      BY <2>1 DEF With
    <2>4. UsersType'
      BY <1>0, <2>2, <2>3 DEF UsersType, FreshIds
    <2> QED
      BY <1>0, <1>8, <2>4, SameRows DEF EnsureUser, TypeOK
  <1>9. ASSUME NEW t \in DOMAIN sessions, Expire(t) PROVE TypeOK'
    <2>1. SessionsType'
      BY <1>0, <1>9 DEF Expire, SessionsType
    <2> QED
      BY <1>0, <1>9, <2>1, SameRows DEF Expire, TypeOK
  <1>10. CASE UNCHANGED vars
    BY <1>0, <1>10, SameRows DEF vars, TypeOK
  <1> QED
    BY <1>1, <1>2, <1>3, <1>4, <1>5, <1>6, <1>7, <1>8, <1>9, <1>10 DEF Next, Reads

\* Every reachable state is well typed, and no two people have one name, whatever the
\* interleaving of their requests.
THEOREM TypeCorrect == Spec => []TypeOK
  BY InitType, StepType, PTL DEF Spec

-----------------------------------------------------------------------------
(***************************************************************************)
(* Sessions and their people.                                              *)
(***************************************************************************)

\* Nobody is signed in at first.
LEMMA InitSessions == Init => SessionsHaveOwners
  BY DEF Init, SessionsHaveOwners

\* A session starts only for a row that is there, and goes with it.
LEMMA StepSessions == TypeOK /\ SessionsHaveOwners /\ [Next]_vars => SessionsHaveOwners'
  <1> SUFFICES ASSUME TypeOK, SessionsHaveOwners, [Next]_vars PROVE SessionsHaveOwners'
    OBVIOUS
  <1>1. CASE UNCHANGED <<users, sessions>>
    BY <1>1 DEF SessionsHaveOwners
  <1>2. ASSUME NEW b \in Browsers, CreateUser(b) \/ EnsureUser PROVE SessionsHaveOwners'
    <2>1. DOMAIN users \subseteq DOMAIN users' /\ UNCHANGED sessions
      BY <1>2 DEF CreateUser, EnsureUser, With
    <2> QED
      BY <2>1 DEF SessionsHaveOwners
  <1>3. ASSUME NEW b \in Browsers, StartSession(b) PROVE SessionsHaveOwners'
    <2>1. CASE \E t \in FreshTokens :
                 sessions' = With(sessions, t, [user |-> req[b].id, expired |-> FALSE])
               /\ SessionFor(req[b].id)
      BY <1>3, <2>1 DEF StartSession, SessionFor, With, SessionsHaveOwners
    <2>2. CASE UNCHANGED sessions
      BY <1>3, <2>2 DEF StartSession, SessionsHaveOwners
    <2> QED
      BY <1>3, <2>1, <2>2 DEF StartSession
  <1>4. ASSUME NEW b \in Browsers, PostLogin(b) \/ PostLogout(b) PROVE SessionsHaveOwners'
    <2>1. /\ DOMAIN sessions' \subseteq DOMAIN sessions
          /\ \A t \in DOMAIN sessions' : sessions'[t] = sessions[t]
          /\ UNCHANGED users
      BY <1>4 DEF PostLogin, PostLogout, Without
    <2> QED
      BY <2>1 DEF SessionsHaveOwners
  <1>5. ASSUME NEW b \in Browsers, DeleteUser(b) PROVE SessionsHaveOwners'
    <2>1. CASE /\ users' = Without(users, {req[b].id})
               /\ sessions' = CascadeSessions(sessions, req[b].id)
      BY <2>1 DEF CascadeSessions, Without, SessionsHaveOwners
    <2> QED
      BY <1>1, <1>5, <2>1 DEF DeleteUser
  <1>6. ASSUME NEW t \in DOMAIN sessions, Expire(t) PROVE SessionsHaveOwners'
    <2>1. /\ DOMAIN sessions' = DOMAIN sessions
          /\ \A u \in DOMAIN sessions : sessions'[u].user = sessions[u].user
          /\ UNCHANGED users
      BY <1>6 DEF Expire, TypeOK, SessionsType
    <2> QED
      BY <2>1 DEF SessionsHaveOwners
  <1>7. ASSUME NEW b \in Browsers, Reads(b) \/ ClearCookie(b) \/ SetOpenRegistration(b)
        PROVE  UNCHANGED <<users, sessions>>
    BY <1>7 DEF Reads, PostSetup, PostRegister, CheckOpen, LookUp, Verify, PostUsers,
                PostRegistration, PostDeleteUser, FindTarget, CountAdmins, CutShort,
                ClearCookie, SetOpenRegistration
  <1>8. CASE EnsureUser /\ Browsers = {}
    <2>1. DOMAIN users \subseteq DOMAIN users' /\ UNCHANGED sessions
      BY <1>8 DEF EnsureUser, With
    <2> QED
      BY <2>1 DEF SessionsHaveOwners
  <1> QED
    BY <1>1, <1>2, <1>3, <1>4, <1>5, <1>6, <1>7, <1>8 DEF Next, Reads, vars

\* Once a person is removed nothing opens for them any more: neither a session they had
\* nor one that a login of theirs, past the look up by then, goes on to ask for.
THEOREM SessionsBelongToPeople == Spec => []SessionsHaveOwners
  <1>1. Init => TypeOK /\ SessionsHaveOwners
    BY InitType, InitSessions
  <1>2. TypeOK /\ SessionsHaveOwners /\ [Next]_vars => (TypeOK /\ SessionsHaveOwners)'
    BY StepType, StepSessions
  <1> QED
    BY <1>1, <1>2, PTL DEF Spec

-----------------------------------------------------------------------------
(***************************************************************************)
(* What a step makes of the request it belongs to.                         *)
(***************************************************************************)

\* Only the browser b moves, and its request is at the label l afterwards.
Moves(b, l) ==
    /\ \A d \in Browsers \ {b} : req'[d] = req[d]
    /\ req'[b].pc = l

\* A handler that goes on moves only its own request.
LEMMA DoMoves ==
    ASSUME TypeOK, NEW b \in Browsers, NEW r, Do(b, r)
    PROVE  Moves(b, r.pc) /\ req'[b] = r
  BY DEF TypeOK, Do, Moves

\* ... and one that answers makes its browser idle.
LEMMA AnsweredMoves ==
    ASSUME TypeOK, NEW b \in Browsers, Answered(b)
    PROVE  Moves(b, "idle")
  <1>1. Idle.pc = "idle"
    BY DEF Idle
  <1> QED
    BY <1>1, DoMoves DEF Answered

\* Where each handler goes, and what its request carries there.
LEMMA Labels ==
    ASSUME TypeOK, NEW b \in Browsers
    PROVE  /\ PostSetup(b) => /\ Moves(b, "create")
                              /\ req'[b].how = "setup" /\ req'[b].admin
           /\ PostRegister(b) => Moves(b, "registering")
           /\ CheckOpen(b) => \/ Moves(b, "idle")
                              \/ Moves(b, "create") /\ registration = "1"
           /\ CreateUser(b) => Moves(b, "idle") \/ Moves(b, "session")
           /\ StartSession(b) \/ SetOpenRegistration(b) \/ DeleteUser(b) \/ CutShort(b)
                => Moves(b, "idle")
           /\ PostLogin(b) => Moves(b, "lookup")
           /\ LookUp(b) => Moves(b, "idle") \/ Moves(b, "verify")
           /\ Verify(b) => Moves(b, "idle") \/ Moves(b, "session")
           /\ PostUsers(b) => Moves(b, "create") /\ req'[b].how = "people"
           /\ PostRegistration(b) => Moves(b, "open") \/ Moves(b, "close")
           /\ PostDeleteUser(b) => Moves(b, "find")
           /\ FindTarget(b) =>
                \/ Moves(b, "idle")
                \/ /\ Moves(b, "count") \/ (Moves(b, "delete") /\ ~req'[b].admin)
                   /\ req'[b].id \in DOMAIN users
                   /\ req'[b].admin = users[req'[b].id].admin
           /\ CountAdmins(b) =>
                \/ Moves(b, "idle")
                \/ /\ Moves(b, "delete") /\ req'[b].counted > 1
                   /\ req'[b].id = req[b].id /\ req'[b].admin = req[b].admin
  <1>1. /\ req[b] \in Requests
        /\ \A i \in DOMAIN users : users[i].admin \in BOOLEAN
    BY DEF TypeOK, UsersType, UserRows
  <1>2. ASSUME PostSetup(b)
        PROVE  Moves(b, "create") /\ req'[b].how = "setup" /\ req'[b].admin
    BY <1>2 DEF PostSetup, Do, Moves, Idle, TypeOK
  <1>3. ASSUME PostRegister(b) PROVE Moves(b, "registering")
    BY <1>3 DEF PostRegister, Do, Moves, Idle, TypeOK
  <1>4. ASSUME CheckOpen(b)
        PROVE  Moves(b, "idle") \/ (Moves(b, "create") /\ registration = "1")
    <2>1. CASE Answered(b)
      BY <2>1, AnsweredMoves
    <2>2. CASE registration = "1" /\ Do(b, [req[b] EXCEPT !.pc = "create"])
      BY <1>1, <2>2 DEF Do, Moves, TypeOK, Requests
    <2> QED
      BY <1>4, <2>1, <2>2 DEF CheckOpen, OpenRegistration
  <1>5. ASSUME CreateUser(b) PROVE Moves(b, "idle") \/ Moves(b, "session")
    <2>1. CASE Answered(b)
      BY <2>1, AnsweredMoves
    <2>2. CASE \E i \in FreshIds : Do(b, [Idle EXCEPT !.pc = "session", !.id = i])
      BY <2>2 DEF Do, Moves, Idle, TypeOK
    <2> QED
      BY <1>5, <2>1, <2>2 DEF CreateUser
  <1>6. ASSUME StartSession(b) \/ SetOpenRegistration(b) \/ DeleteUser(b) \/ CutShort(b)
        PROVE  Moves(b, "idle")
    BY <1>6, AnsweredMoves DEF StartSession, SetOpenRegistration, DeleteUser, CutShort
  <1>7. ASSUME PostLogin(b) PROVE Moves(b, "lookup")
    BY <1>7 DEF PostLogin, Do, Moves, Idle, TypeOK
  <1>8. ASSUME LookUp(b) PROVE Moves(b, "idle") \/ Moves(b, "verify")
    <2>1. CASE Answered(b)
      BY <2>1, AnsweredMoves
    <2>2. CASE \E i \in DOMAIN users : Do(b, [Idle EXCEPT !.pc = "verify", !.id = i])
      BY <2>2 DEF Do, Moves, Idle, TypeOK
    <2> QED
      BY <1>8, <2>1, <2>2 DEF LookUp
  <1>9. ASSUME Verify(b) PROVE Moves(b, "idle") \/ Moves(b, "session")
    <2>1. CASE Answered(b)
      BY <2>1, AnsweredMoves
    <2>2. CASE Do(b, [req[b] EXCEPT !.pc = "session"])
      BY <1>1, <2>2 DEF Do, Moves, TypeOK, Requests
    <2> QED
      BY <1>9, <2>1, <2>2 DEF Verify
  <1>10. ASSUME PostUsers(b) PROVE Moves(b, "create") /\ req'[b].how = "people"
    BY <1>10 DEF PostUsers, Do, Moves, Idle, TypeOK
  <1>11. ASSUME PostRegistration(b) PROVE Moves(b, "open") \/ Moves(b, "close")
    BY <1>11 DEF PostRegistration, Do, Moves, Idle, TypeOK
  <1>12. ASSUME PostDeleteUser(b) PROVE Moves(b, "find")
    BY <1>12 DEF PostDeleteUser, Do, Moves, Idle, TypeOK
  <1>13. ASSUME FindTarget(b), ~Answered(b)
         PROVE  /\ Moves(b, "count") \/ (Moves(b, "delete") /\ ~req'[b].admin)
                /\ req'[b].id \in DOMAIN users
                /\ req'[b].admin = users[req'[b].id].admin
    <2> DEFINE admin == users[req[b].id].admin
               next  == [req[b] EXCEPT !.pc = IF admin THEN "count" ELSE "delete",
                                       !.admin = admin]
    <2>1. req[b].id \in DOMAIN users /\ Do(b, next)
      BY <1>13 DEF FindTarget
    <2>2. /\ next.pc = IF admin THEN "count" ELSE "delete"
          /\ next.admin = admin /\ next.id = req[b].id
      BY <1>1 DEF Requests
    <2>3. Moves(b, next.pc) /\ req'[b] = next
      <3> HIDE DEF next
      <3> QED
        BY <2>1, DoMoves
    <2>4. req'[b].id \in DOMAIN users /\ req'[b].admin = users[req'[b].id].admin
      <3> HIDE DEF next
      <3> QED
        BY <2>1, <2>2, <2>3
    <2>5. CASE admin
      <3>1. Moves(b, "count")
        BY <2>2, <2>3, <2>5
      <3> QED
        BY <2>4, <3>1
    <2>6. CASE ~admin
      <3>1. Moves(b, "delete") /\ ~req'[b].admin
        BY <2>2, <2>3, <2>6
      <3> QED
        BY <2>4, <3>1
    <2> QED
      BY <2>5, <2>6
  <1>14. ASSUME CountAdmins(b), ~Answered(b)
         PROVE  /\ Moves(b, "delete") /\ req'[b].counted > 1
                /\ req'[b].id = req[b].id /\ req'[b].admin = req[b].admin
    <2> DEFINE n    == Cardinality(Admins(users))
               next == [req[b] EXCEPT !.pc = "delete", !.counted = n]
    <2>1. n > 1 /\ Do(b, next)
      BY <1>14 DEF CountAdmins, Spare
    <2>2. /\ next.pc = "delete" /\ next.counted = n
          /\ next.admin = req[b].admin /\ next.id = req[b].id
      <3> HIDE DEF n
      <3> QED
        BY <1>1 DEF Requests
    <2> HIDE DEF next, n
    <2> QED
      BY <2>1, <2>2, DoMoves
  <1> QED
    BY <1>2, <1>3, <1>4, <1>5, <1>6, <1>7, <1>8, <1>9, <1>10, <1>11, <1>12, <1>13, <1>14,
       AnsweredMoves

-----------------------------------------------------------------------------
(***************************************************************************)
(* Sign up.  The accounts are only as closed as the requests that are past *)
(* the look at the setting: those count as opened too.                     *)
(***************************************************************************)

OnlyIfOpened ==
    /\ registration = "1" => opened
    /\ \A b \in Browsers : req[b].pc = "create" /\ req[b].how = "register" => opened

SignUpInv == TypeOK /\ OnlyIfOpened /\ SignUpWasOpened

\* Nobody has signed up at first.
LEMMA InitSignUp == Init => SignUpInv
  BY InitType DEF Init, Idle, SignUpInv, OnlyIfOpened, SignUpWasOpened

\* A step that makes nobody, leaves the setting, and after which the browser is not about
\* to make somebody it may not.
LEMMA QuietStep ==
    ASSUME TypeOK, OnlyIfOpened, SignUpWasOpened, NEW b \in Browsers, NEW l, Moves(b, l),
           l = "create" /\ req'[b].how = "register" => opened,
           DOMAIN users' \subseteq DOMAIN users,
           \A i \in DOMAIN users' : users'[i] = users[i],
           UNCHANGED <<registration, opened>>
    PROVE  OnlyIfOpened' /\ SignUpWasOpened'
  BY DEF Moves, OnlyIfOpened, SignUpWasOpened

\* No step makes a sign up before the setting was opened.
LEMMA StepSignUp == SignUpInv /\ [Next]_vars => SignUpInv'
  <1> SUFFICES ASSUME SignUpInv, [Next]_vars PROVE OnlyIfOpened' /\ SignUpWasOpened'
    BY StepType DEF SignUpInv
  <1>0. TypeOK /\ OnlyIfOpened /\ SignUpWasOpened
    BY DEF SignUpInv
  <1>1. ASSUME NEW b \in Browsers, Reads(b) PROVE OnlyIfOpened' /\ SignUpWasOpened'
    <2>1. UNCHANGED <<users, registration, opened>>
      BY <1>1 DEF Reads, PostSetup, PostRegister, CheckOpen, LookUp, Verify, PostUsers,
                  PostRegistration, PostDeleteUser, FindTarget, CountAdmins, CutShort
    <2>2. PICK l : Moves(b, l) /\ (l = "create" /\ req'[b].how = "register" => opened)
      BY <1>0, <1>1, Labels DEF Reads, OnlyIfOpened
    <2> QED
      BY <1>0, <2>1, <2>2, QuietStep
  <1>2. ASSUME NEW b \in Browsers, CreateUser(b) PROVE OnlyIfOpened' /\ SignUpWasOpened'
    <2>1. PICK l : Moves(b, l) /\ l # "create"
      BY <1>0, <1>2, Labels
    <2>2. CASE UNCHANGED users
      BY <1>0, <1>2, <2>1, <2>2, QuietStep DEF CreateUser
    <2>3. CASE \E i \in FreshIds :
                 users' = With(users, i, [name |-> req[b].name, password |-> TRUE,
                                          admin |-> req[b].admin, how |-> req[b].how])
      <3>1. PICK i \in FreshIds :
              /\ DOMAIN users' = DOMAIN users \cup {i} /\ users'[i].how = req[b].how
              /\ \A j \in DOMAIN users \ {i} : users'[j] = users[j]
        BY <2>3 DEF With
      <3>2. req[b].pc = "create" /\ UNCHANGED <<registration, opened>>
        BY <1>2 DEF CreateUser
      <3>3. SignUpWasOpened'
        BY <1>0, <3>1, <3>2 DEF OnlyIfOpened, SignUpWasOpened
      <3> QED
        BY <1>0, <2>1, <3>2, <3>3 DEF Moves, OnlyIfOpened
    <2> QED
      BY <1>2, <2>2, <2>3 DEF CreateUser
  <1>3. ASSUME NEW b \in Browsers, StartSession(b) \/ PostLogin(b)
        PROVE  OnlyIfOpened' /\ SignUpWasOpened'
    <2>1. PICK l : Moves(b, l) /\ l # "create"
      BY <1>0, <1>3, Labels
    <2> QED
      BY <1>0, <1>3, <2>1, QuietStep DEF StartSession, PostLogin
  <1>4. ASSUME NEW b \in Browsers, SetOpenRegistration(b)
        PROVE  OnlyIfOpened' /\ SignUpWasOpened'
    <2>1. Moves(b, "idle")
      BY <1>0, <1>4, Labels
    <2> QED
      BY <1>0, <1>4, <2>1 DEF SetOpenRegistration, Moves, OnlyIfOpened, SignUpWasOpened
  <1>5. ASSUME NEW b \in Browsers, DeleteUser(b) PROVE OnlyIfOpened' /\ SignUpWasOpened'
    <2>1. /\ DOMAIN users' \subseteq DOMAIN users
          /\ \A i \in DOMAIN users' : users'[i] = users[i]
      BY <1>5 DEF DeleteUser, Without
    <2>2. Moves(b, "idle")
      BY <1>0, <1>5, Labels
    <2> QED
      BY <1>0, <1>5, <2>1, <2>2, QuietStep DEF DeleteUser
  <1>6. ASSUME EnsureUser PROVE OnlyIfOpened' /\ SignUpWasOpened'
    <2>1. PICK i \in FreshIds :
            /\ DOMAIN users' = DOMAIN users \cup {i} /\ users'[i].how = "cli"
            /\ \A j \in DOMAIN users \ {i} : users'[j] = users[j]
      BY <1>6 DEF EnsureUser, With
    <2> QED
      BY <1>0, <1>6, <2>1 DEF EnsureUser, OnlyIfOpened, SignUpWasOpened
  <1>7. CASE UNCHANGED <<users, registration, req, opened>>
    BY <1>0, <1>7 DEF OnlyIfOpened, SignUpWasOpened
  <1>8. /\ \A b \in Browsers : PostLogout(b) \/ ClearCookie(b)
                               => UNCHANGED <<users, registration, req, opened>>
        /\ \A t \in DOMAIN sessions : Expire(t) => UNCHANGED <<users, registration, req, opened>>
    BY DEF PostLogout, ClearCookie, Expire
  <1> QED
    BY <1>1, <1>2, <1>3, <1>4, <1>5, <1>6, <1>7, <1>8 DEF Next, Reads, vars

\* Nobody ever signs up on an instance whose administrator never opened it, however their
\* request and the switch of the setting overlap.
THEOREM SignUpStaysClosed == Spec => []SignUpWasOpened
  <1>1. SignUpInv => SignUpWasOpened
    BY DEF SignUpInv
  <1> QED
    BY <1>1, InitSignUp, StepSignUp, PTL DEF Spec

-----------------------------------------------------------------------------
(***************************************************************************)
(* The last administrator.  What a removal read of its target stays true   *)
(* of it, because a row never changes and an id is not made again while a  *)
(* request remembers it.  And an instance without an administrator is one  *)
(* where nothing but setup can make anybody: there is no session that      *)
(* could open sign up or add a person.                                     *)
(***************************************************************************)

RemovesWhatItSaw ==
    \A b \in Browsers :
        req[b].pc \in {"count", "delete"} /\ req[b].id \in DOMAIN users
          => users[req[b].id].admin = req[b].admin

CountedMore ==
    \A b \in Browsers : req[b].pc = "delete" /\ req[b].admin => req[b].counted > 1

OnlySetup ==
    /\ People = {}
    /\ registration # "1"
    /\ \A b \in Browsers : req[b].pc # "open" /\ (req[b].pc = "create" => req[b].admin)

AdminInv ==
    /\ TypeOK
    /\ SessionsHaveOwners
    /\ RemovesWhatItSaw
    /\ CountedMore
    /\ stale \/ Admins(users) # {} \/ OnlySetup

\* A fresh instance has only setup.
LEMMA InitAdmin == Init => AdminInv
  <1> SUFFICES ASSUME Init PROVE AdminInv
    OBVIOUS
  <1>1. OnlySetup /\ RemovesWhatItSaw /\ CountedMore
    BY DEF Init, Idle, OnlySetup, People, RemovesWhatItSaw, CountedMore
  <1> QED
    BY <1>1, InitType, InitSessions DEF AdminInv

\* Rows a request remembers are left alone or go; nobody new has their id.
LEMMA RememberedRows ==
    ASSUME TypeOK, [Next]_vars, NEW b \in Browsers, req[b].id \in DOMAIN users'
    PROVE  req[b].id \in DOMAIN users /\ users'[req[b].id] = users[req[b].id]
  <1>1. ASSUME NEW i \in FreshIds, NEW row, users' = With(users, i, row)
        PROVE  req[b].id \in DOMAIN users /\ users'[req[b].id] = users[req[b].id]
    BY <1>1 DEF With, FreshIds
  <1>2. ASSUME NEW gone, users' = Without(users, gone)
        PROVE  req[b].id \in DOMAIN users /\ users'[req[b].id] = users[req[b].id]
    BY <1>2 DEF Without
  <1>3. \/ UNCHANGED users
        \/ \E i \in FreshIds : \E row : users' = With(users, i, row)
        \/ \E gone : users' = Without(users, gone)
    <2>1. ASSUME NEW d \in Browsers, CreateUser(d)
          PROVE  UNCHANGED users \/ \E i \in FreshIds : \E row : users' = With(users, i, row)
      BY <2>1 DEF CreateUser
    <2>2. ASSUME EnsureUser PROVE \E i \in FreshIds : \E row : users' = With(users, i, row)
      BY <2>2 DEF EnsureUser
    <2>3. ASSUME NEW d \in Browsers, DeleteUser(d)
          PROVE  UNCHANGED users \/ \E gone : users' = Without(users, gone)
      BY <2>3 DEF DeleteUser
    <2>4. ASSUME NEW d \in Browsers,
                 \/ Reads(d) \/ StartSession(d) \/ PostLogin(d) \/ PostLogout(d)
                 \/ ClearCookie(d) \/ SetOpenRegistration(d)
          PROVE  UNCHANGED users
      BY <2>4 DEF Reads, PostSetup, PostRegister, CheckOpen, LookUp, Verify, PostUsers,
                  PostRegistration, PostDeleteUser, FindTarget, CountAdmins, CutShort,
                  StartSession, PostLogin, PostLogout, ClearCookie, SetOpenRegistration
    <2>5. ASSUME NEW t \in DOMAIN sessions, Expire(t) PROVE UNCHANGED users
      BY <2>5 DEF Expire
    <2> QED
      BY <2>1, <2>2, <2>3, <2>4, <2>5 DEF Next, Reads, vars
  <1>4. UNCHANGED users => DOMAIN users' = DOMAIN users /\ users'[req[b].id] = users[req[b].id]
    OBVIOUS
  <1> QED
    BY <1>1, <1>2, <1>3, <1>4

\* What a removal remembers of its target and of the count survives every step.
LEMMA StepRequests ==
    ASSUME TypeOK, RemovesWhatItSaw, CountedMore, [Next]_vars
    PROVE  RemovesWhatItSaw' /\ CountedMore'
  <1>1. CASE UNCHANGED req
    BY <1>1, RememberedRows DEF RemovesWhatItSaw, CountedMore
  <1>2. ASSUME NEW b \in Browsers, NEW l, Moves(b, l), l \notin {"count", "delete"}
        PROVE  RemovesWhatItSaw' /\ CountedMore'
    BY <1>2, RememberedRows DEF Moves, RemovesWhatItSaw, CountedMore
  <1>3. ASSUME NEW b \in Browsers, FindTarget(b) PROVE RemovesWhatItSaw' /\ CountedMore'
    <2>1. UNCHANGED users
      BY <1>3 DEF FindTarget
    <2>2. CASE Moves(b, "idle")
      BY <1>2, <2>2
    <2>3. CASE /\ Moves(b, "count") \/ (Moves(b, "delete") /\ ~req'[b].admin)
               /\ req'[b].id \in DOMAIN users
               /\ req'[b].admin = users[req'[b].id].admin
      BY <2>1, <2>3 DEF Moves, RemovesWhatItSaw, CountedMore
    <2> QED
      BY <1>3, <2>2, <2>3, Labels
  <1>4. ASSUME NEW b \in Browsers, CountAdmins(b) PROVE RemovesWhatItSaw' /\ CountedMore'
    <2>1. UNCHANGED users /\ req[b].pc = "count"
      BY <1>4 DEF CountAdmins
    <2>2. CASE Moves(b, "idle")
      BY <1>2, <2>2
    <2>3. CASE /\ Moves(b, "delete") /\ req'[b].counted > 1
               /\ req'[b].id = req[b].id /\ req'[b].admin = req[b].admin
      BY <2>1, <2>3 DEF Moves, RemovesWhatItSaw, CountedMore
    <2> QED
      BY <1>4, <2>2, <2>3, Labels
  <1>5. ASSUME NEW b \in Browsers,
               \/ PostSetup(b) \/ PostRegister(b) \/ CheckOpen(b) \/ CreateUser(b)
               \/ StartSession(b) \/ PostLogin(b) \/ LookUp(b) \/ Verify(b) \/ PostUsers(b)
               \/ PostRegistration(b) \/ SetOpenRegistration(b) \/ PostDeleteUser(b)
               \/ DeleteUser(b) \/ CutShort(b)
        PROVE  RemovesWhatItSaw' /\ CountedMore'
    <2>1. PICK l : Moves(b, l) /\ l \notin {"count", "delete"}
      BY <1>5, Labels
    <2> QED
      BY <1>2, <2>1
  <1>6. /\ \A b \in Browsers : PostLogout(b) \/ ClearCookie(b) => UNCHANGED req
        /\ \A t \in DOMAIN sessions : Expire(t) => UNCHANGED req
        /\ EnsureUser => UNCHANGED req
    BY DEF PostLogout, ClearCookie, Expire, EnsureUser
  <1> QED
    BY <1>1, <1>3, <1>4, <1>5, <1>6 DEF Next, vars

\* A browser that acts as an administrator is one.
LEMMA ActingAdmin ==
    ASSUME SessionsHaveOwners, NEW b \in Browsers, ActsAsAdmin(b)
    PROVE  Admins(users) # {}
  BY DEF ActsAsAdmin, Valid, SessionsHaveOwners, Admins

\* Of several administrators one is left when one goes.
LEMMA OneGoes ==
    ASSUME TypeOK, Cardinality(Admins(users)) > 1, NEW id, users' = Without(users, {id})
    PROVE  Admins(users') # {}
  <1>1. PICK i \in Admins(users) : i # id
    <2> SUFFICES ASSUME Admins(users) \subseteq {id} PROVE FALSE
      OBVIOUS
    <2>1. IsFiniteSet({id}) /\ Cardinality({id}) = 1
      BY FS_Singleton
    <2>2. Cardinality(Admins(users)) <= 1
      BY <2>1, FS_Subset
    <2> QED
      BY <2>2, CountType
  <1>2. i \in DOMAIN users' /\ users'[i] = users[i]
    BY <1>1 DEF Admins, Without
  <1> QED
    BY <1>1, <1>2 DEF Admins

\* No step on a count that is still true takes the last administrator.
LEMMA StepAdmin == AdminInv /\ [Next]_vars => AdminInv'
  <1> DEFINE Governed == stale \/ Admins(users) # {} \/ OnlySetup
  <1> SUFFICES ASSUME AdminInv, [Next]_vars PROVE Governed'
    BY StepType, StepSessions, StepRequests DEF AdminInv
  <1>0. TypeOK /\ SessionsHaveOwners /\ RemovesWhatItSaw /\ CountedMore /\ Governed
    BY DEF AdminInv
  \* Whoever is an administrator and is not removed still is one.
  <1>1. CASE UNCHANGED <<users, stale>> /\ (stale \/ Admins(users) # {})
    BY <1>1 DEF Admins
  <1>2. CASE UNCHANGED <<users, registration, req>> /\ UNCHANGED stale
    BY <1>0, <1>2 DEF Admins, OnlySetup, People
  <1>3. ASSUME NEW b \in Browsers, NEW l, Moves(b, l), UNCHANGED <<users, registration, stale>>,
               l # "open", l = "create" => req'[b].admin
        PROVE  Governed'
    BY <1>0, <1>3 DEF Moves, Admins, OnlySetup, People
  <1>4. ASSUME NEW b \in Browsers, PostUsers(b) \/ PostRegistration(b) \/ PostDeleteUser(b)
        PROVE  Governed'
    <2>1. Admins(users) # {}
      BY <1>0, <1>4, ActingAdmin DEF PostUsers, PostRegistration, PostDeleteUser
    <2> QED
      BY <1>1, <1>4, <2>1 DEF PostUsers, PostRegistration, PostDeleteUser
  <1>5. ASSUME NEW b \in Browsers,
               \/ PostSetup(b) \/ PostRegister(b) \/ StartSession(b) \/ PostLogin(b)
               \/ LookUp(b) \/ Verify(b) \/ FindTarget(b) \/ CountAdmins(b) \/ CutShort(b)
        PROVE  Governed'
    <2>1. PICK l : Moves(b, l) /\ l # "open" /\ (l = "create" => req'[b].admin)
      BY <1>0, <1>5, Labels
    <2>2. UNCHANGED <<users, registration, stale>>
      BY <1>5 DEF PostSetup, PostRegister, StartSession, PostLogin, LookUp, Verify, FindTarget,
                  CountAdmins, CutShort
    <2> QED
      BY <1>3, <2>1, <2>2
  <1>6. ASSUME NEW b \in Browsers, CheckOpen(b) PROVE Governed'
    <2>1. UNCHANGED <<users, registration, stale>>
      BY <1>6 DEF CheckOpen
    <2>2. CASE Moves(b, "idle")
      BY <1>3, <2>1, <2>2
    <2>3. CASE registration = "1"
      BY <1>0, <1>1, <2>1, <2>3 DEF OnlySetup
    <2> QED
      BY <1>0, <1>6, <2>2, <2>3, Labels
  <1>7. ASSUME NEW b \in Browsers, CreateUser(b) PROVE Governed'
    <2>1. req[b].pc = "create" /\ UNCHANGED <<registration, stale>>
      BY <1>7 DEF CreateUser
    <2>2. PICK l : Moves(b, l) /\ l \notin {"open", "create"}
      BY <1>0, <1>7, Labels
    <2>3. CASE UNCHANGED users
      BY <1>3, <2>1, <2>2, <2>3
    <2>4. CASE \E i \in FreshIds :
                 users' = With(users, i, [name |-> req[b].name, password |-> TRUE,
                                          admin |-> req[b].admin, how |-> req[b].how])
      <3>1. PICK i \in FreshIds :
              /\ DOMAIN users' = DOMAIN users \cup {i} /\ users'[i].admin = req[b].admin
              /\ \A j \in DOMAIN users \ {i} : users'[j] = users[j]
        BY <2>4 DEF With
      <3>2. i \notin DOMAIN users
        BY DEF FreshIds
      <3>3. CASE stale
        BY <2>1, <3>3
      <3>4. CASE Admins(users) # {}
        BY <3>1, <3>2, <3>4 DEF Admins
      <3>5. CASE OnlySetup
        BY <2>1, <3>1, <3>5 DEF OnlySetup, Admins
      <3> QED
        BY <1>0, <3>3, <3>4, <3>5
    <2> QED
      BY <1>7, <2>3, <2>4 DEF CreateUser
  <1>8. ASSUME NEW b \in Browsers, SetOpenRegistration(b) PROVE Governed'
    <2>1. UNCHANGED <<users, stale>> /\ Moves(b, "idle")
      BY <1>0, <1>8, Labels DEF SetOpenRegistration
    <2>2. CASE OnlySetup
      <3>1. registration' = "0"
        BY <1>8, <2>2 DEF SetOpenRegistration, OnlySetup
      <3> QED
        BY <2>1, <2>2, <3>1 DEF Moves, OnlySetup, People
    <2> QED
      BY <1>0, <1>1, <2>1, <2>2
  <1>9. ASSUME NEW b \in Browsers, DeleteUser(b) PROVE Governed'
    <2> DEFINE id == req[b].id
    <2>1. req[b].pc = "delete" /\ UNCHANGED registration /\ Moves(b, "idle")
      BY <1>0, <1>9, Labels DEF DeleteUser
    <2>2. CASE UNCHANGED <<users, stale>>
      BY <1>3, <2>1, <2>2
    <2>3. CASE /\ id \in DOMAIN users /\ users' = Without(users, {id})
               /\ stale' = (stale \/ (req[b].admin /\ req[b].counted # Cardinality(Admins(users))))
      <3>1. users[id].admin = req[b].admin
        BY <1>0, <2>1, <2>3 DEF RemovesWhatItSaw
      <3>2. /\ DOMAIN users' = DOMAIN users \ {id}
            /\ \A i \in DOMAIN users' : users'[i] = users[i]
        BY <2>3 DEF Without
      <3>3. CASE req[b].admin
        <4>1. CASE req[b].counted # Cardinality(Admins(users))
          BY <2>3, <3>3, <4>1
        <4>2. CASE req[b].counted = Cardinality(Admins(users))
          <5>1. Admins(users') # {}
            BY <1>0, <2>1, <2>3, <3>3, <4>2, OneGoes DEF CountedMore
          <5>2. Admins(users)' # {}
            BY <5>1 DEF Admins
          <5> QED
            BY <5>2
        <4> QED
          BY <4>1, <4>2
      <3>4. CASE ~req[b].admin /\ Admins(users) # {}
        BY <3>1, <3>2, <3>4 DEF Admins
      <3>5. CASE stale
        BY <2>3, <3>5
      <3>6. CASE OnlySetup
        BY <2>1, <3>2, <3>6 DEF Moves, OnlySetup, People
      <3> QED
        BY <1>0, <3>3, <3>4, <3>5, <3>6
    <2> QED
      BY <1>9, <2>2, <2>3 DEF DeleteUser
  <1>10. ASSUME EnsureUser PROVE Governed'
    <2>1. PICK i \in FreshIds :
            /\ DOMAIN users' = DOMAIN users \cup {i} /\ ~users'[i].password
            /\ \A j \in DOMAIN users \ {i} : users'[j] = users[j]
      BY <1>10 DEF EnsureUser, With
    <2>2. i \notin DOMAIN users /\ UNCHANGED <<registration, req, stale>>
      BY <1>10 DEF EnsureUser, FreshIds
    <2> QED
      BY <1>0, <2>1, <2>2 DEF Admins, OnlySetup, People
  <1>11. /\ \A b \in Browsers : PostLogout(b) \/ ClearCookie(b)
                                => UNCHANGED <<users, registration, req, stale>>
         /\ \A t \in DOMAIN sessions : Expire(t) => UNCHANGED <<users, registration, req, stale>>
    BY DEF PostLogout, ClearCookie, Expire
  <1> QED
    BY <1>2, <1>4, <1>5, <1>6, <1>7, <1>8, <1>9, <1>10, <1>11 DEF Next, vars

\* An instance with people on it keeps somebody who can administer it, however setups, sign
\* ups, logins and removals overlap, unless an administrator is removed on a count that is
\* no longer true: that one race is the only way.
THEOREM AdministratorStays == Spec => []AdministratorRemains
  <1>1. AdminInv => AdministratorRemains
    BY DEF AdminInv, OnlySetup, AdministratorRemains
  <1> QED
    BY <1>1, InitAdmin, StepAdmin, PTL DEF Spec

=============================================================================
