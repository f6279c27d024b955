------------------------ MODULE DashboardAuthProofs ------------------------
(***************************************************************************)
(* Proofs about DashboardAuth, for all users, pairs, requests and bounds:  *)
(* type correctness, that the row of the user decides, that no token       *)
(* outlives its user, and, for users whose session requests do not         *)
(* overlap, that there is one refresh token and that a logout leaves none. *)
(***************************************************************************)
EXTENDS DashboardAuth, TLAPS

-----------------------------------------------------------------------------
(***************************************************************************)
(* Types: inductive with the owners of what has been issued or asked.      *)
(***************************************************************************)
Signed(c) == /\ c.pc # "idle" => c.who \in Users
             /\ \A r \in c.kills : row[r] # "unissued"

Types ==
  /\ TypeOK
  /\ \A r \in Rows : row[r] # "unissued" => owner[r[1]] \in Users
  /\ \A q \in Requests : Signed(req[q])

LEMMA IdleTyped == Idle \in Request /\ Signed(Idle)
  BY DEF Idle, Request, Labels, AllOps, AdminOps, Issuers, Changes, Nothing,
         Roles, Signed

\* A request of the right type keeps the state so, if it alone changes.
LEMMA BecomeTyped ==
  ASSUME Types, NEW q \in Requests, NEW next \in Request, Signed(next),
         Become(q, next)
  PROVE  Types'
  BY DEF Types, TypeOK, Become, dbVars, Signed

LEMMA RefuseTyped ==
  ASSUME Types, NEW q \in Requests, Refuse(q)
  PROVE  Types'
  BY IdleTyped, BecomeTyped DEF Refuse

LEMMA GoToTyped ==
  ASSUME Types, NEW q \in Requests, NEW label \in Labels, GoTo(q, label),
         req[q].pc # "idle"
  PROVE  Types'
<1> DEFINE next == [req[q] EXCEPT !.pc = label]
<1>1. next \in Request /\ Signed(next)
      BY DEF Types, TypeOK, Request, Signed
<1>2. Become(q, next)  BY DEF GoTo
<1> HIDE DEF next
<1> QED  BY <1>1, <1>2, BecomeTyped

LEMMA PickTyped ==
  ASSUME Types, NEW q \in Requests, NEW u, PickChange(q, u),
         req[q].pc # "idle"
  PROVE  Types'
<1>1. PICK c \in Changes :
             Become(q, [req[q] EXCEPT !.pc = "changing", !.want = c])
      BY DEF PickChange
<1> DEFINE next == [req[q] EXCEPT !.pc = "changing", !.want = c]
<1>2. next \in Request /\ Signed(next)
      BY DEF Types, TypeOK, Request, Signed, Labels
<1>3. Become(q, next)  BY <1>1
<1> HIDE DEF next
<1> QED  BY <1>2, <1>3, BecomeTyped

LEMMA ProceedTyped ==
  ASSUME Types, NEW q \in Requests, Proceed(q), req[q].pc # "idle"
  PROVE  Types'
<1>1. CASE PickChange(q, req[q].who)  BY <1>1, PickTyped
<1>2. CASE \E l \in Labels : GoTo(q, l)  BY <1>2, GoToTyped
<1> QED  BY <1>1, <1>2 DEF Proceed, Labels

LEMMA AskTyped ==
  ASSUME Types, NEW q \in Requests, NEW o, NEW u \in Users,
         NEW v \in Users \cup {NoUser}, NEW rs \in SUBSET Rows,
         NEW label \in Labels, Ask(q, o, u, v, rs, label)
  PROVE  Types'
<1> DEFINE next == [Idle EXCEPT !.pc = label, !.op = o, !.who = u, !.about = v,
                                !.by = rs, !.barred = ~Entitled(o, u)]
<1>1. o \in AllOps  BY OpsAssumption DEF Ask
<1>2. next \in Request /\ Signed(next)
      BY <1>1 DEF Idle, Request, Labels, Changes, Nothing, Roles, Signed,
                  Entitled, EntitledBy
<1>3. req' = [req EXCEPT ![q] = next]  BY DEF Ask
<1> HIDE DEF next
<1>4. req' \in [Requests -> Request] /\ \A p \in Requests : Signed(req'[p])
      BY <1>2, <1>3 DEF Types, TypeOK
<1>5. asked' \in 0 .. MaxAsked  BY BoundAssumption DEF Ask, Types, TypeOK
<1>6. crossed' \subseteq Users  BY DEF Ask, Types, TypeOK
<1> QED  BY <1>4, <1>5, <1>6 DEF Ask, Types, TypeOK, dbVars, Signed

LEMMA BeginTyped ==
  ASSUME Types, NEW q \in Requests, Begin(q)
  PROVE  Types'
<1> USE DEF Labels
<1>1. CASE \E u \in Users : Register(q, u) \/ Login(q, u)
      BY <1>1, AskTyped DEF Register, Login
<1>2. ASSUME NEW s \in Sessions,
             Refresh(q, s) \/ Logout(q, s) \/ Call(q, s)
               \/ \E o \in Ops, v \in Users : Administer(q, s, o, v)
      PROVE  Types'
  <2>1. <<s, "access">> \in Rows /\ <<s, "refresh">> \in Rows  BY DEF Rows
  <2>2. owner[s] \in Users
        BY <1>2, <2>1 DEF Refresh, Logout, Call, Administer, Usable, Types
  <2>3. {<<s, "refresh">>} \in SUBSET Rows /\ {} \in SUBSET Rows  BY <2>1
  <2>4. CASE Refresh(q, s)  BY <2>2, <2>3, <2>4, AskTyped DEF Refresh
  <2>5. CASE Logout(q, s)  BY <2>2, <2>3, <2>5, AskTyped DEF Logout
  <2>6. CASE Call(q, s)  BY <2>2, <2>3, <2>6, AskTyped DEF Call
  <2>7. ASSUME NEW o \in Ops, NEW v \in Users, Administer(q, s, o, v)
        PROVE  Types'
        BY <2>2, <2>3, <2>7, AskTyped DEF Administer
  <2> QED  BY <1>2, <2>4, <2>5, <2>6, <2>7
<1> QED  BY <1>1, <1>2 DEF Begin

\* The records that the statements leave behind.
LEMMA FoundTyped ==
  ASSUME Types, NEW q \in Requests, req[q].pc # "idle",
         NEW label \in Labels, NEW rs \in SUBSET Rows,
         \A r \in rs : row[r] # "unissued"
  PROVE  /\ [req[q] EXCEPT !.pc = label, !.found = rs] \in Request
         /\ Signed([req[q] EXCEPT !.pc = label, !.found = rs])
         /\ [req[q] EXCEPT !.pc = label, !.kills = rs] \in Request
         /\ Signed([req[q] EXCEPT !.pc = label, !.kills = rs])
  BY DEF Types, TypeOK, Request, Signed

LEMMA StatementTyped ==
  ASSUME Types, NEW q \in Requests, Step(q), ~Commit(q)
  PROVE  Types'
<1>1. CASE ReadUser(q)
      BY <1>1, ProceedTyped, RefuseTyped DEF ReadUser
<1>2. CASE ReadTarget(q)
      BY <1>2, GoToTyped, RefuseTyped, PickTyped DEF ReadTarget, Labels
<1>3. CASE CheckEmail(q)
  <2>1. CASE Refuse(q)  BY <2>1, RefuseTyped
  <2>2. ASSUME NEW r \in Roles,
               Become(q, [req[q] EXCEPT !.pc = "inserting",
                                        !.want = [Nothing EXCEPT !.role = r]])
        PROVE  Types'
    <3> DEFINE next == [req[q] EXCEPT !.pc = "inserting",
                                      !.want = [Nothing EXCEPT !.role = r]]
    <3>1. next \in Request /\ Signed(next)
          BY <1>3 DEF CheckEmail, Types, TypeOK, Request, Signed, Labels,
                      Changes, Nothing
    <3>2. Become(q, next)  BY <2>2
    <3> HIDE DEF next
    <3> QED  BY <3>1, <3>2, BecomeTyped
  <2> QED  BY <1>3, <2>1, <2>2 DEF CheckEmail
<1>4. CASE InsertUser(q)
  <2> DEFINE label == IF req[q].op = "register" THEN "issuing" ELSE "written"
  <2>1. label \in Labels  BY DEF Labels
  <2>2. Refuse(q) \/ GoTo(q, label)  BY <1>4 DEF InsertUser
  <2>3. req[q].pc # "idle"  BY <1>4 DEF InsertUser
  <2> HIDE DEF label
  <2> QED  BY <2>1, <2>2, <2>3, GoToTyped, RefuseTyped
<1>5. CASE FindTokens(q)
  <2>1. {r \in OwnRows(req[q].who) : row[r] = "valid"} \in SUBSET Rows
        BY DEF OwnRows
  <2> QED  BY <1>5, <2>1, FoundTyped, BecomeTyped DEF FindTokens, Labels
<1>6. CASE RevokeAll(q)
  <2>1. {r \in req[q].found : row[r] = "valid"} \in SUBSET Rows
        BY DEF Types, TypeOK, Request
  <2>2. (IF req[q].op = "login" THEN "issuing" ELSE "written") \in Labels
        BY DEF Labels
  <2> QED  BY <1>6, <2>1, <2>2, FoundTyped, BecomeTyped DEF RevokeAll
<1>7. CASE RotateOwn(q)
  <2>1. /\ req[q].by \cap OwnRows(req[q].who) \in SUBSET Rows
        /\ \A r \in OwnRows(req[q].who) : row[r] # "unissued"
        BY DEF OwnRows
  <2> QED  BY <1>7, <2>1, FoundTyped, BecomeTyped DEF RotateOwn, Labels
<1>8. CASE Issue(q)
      BY <1>8, GoToTyped, RefuseTyped DEF Issue, Labels
<1>9. CASE ChangeUser(q)
      BY <1>9, GoToTyped, RefuseTyped DEF ChangeUser, Labels
<1>10. CASE DeleteUser(q)
       BY <1>10, GoToTyped DEF DeleteUser, Labels
<1> QED  BY <1>1, <1>2, <1>3, <1>4, <1>5, <1>6, <1>7, <1>8, <1>9, <1>10
         DEF Step

LEMMA CommitTyped ==
  ASSUME Types, NEW q \in Requests, Commit(q)
  PROVE  Types'
<1> DEFINE c == req[q]
<1>1. c \in Request /\ c.pc = "written" /\ c.who \in Users
      BY DEF Types, TypeOK, Commit, Signed
<1>2. account' \in [Users -> Accounts] /\ role' \in [Users -> Roles]
  <2>1. CASE c.about = NoUser  BY <2>1 DEF Commit, Types, TypeOK
  <2>2. CASE c.about # NoUser
    <3>1. c.about \in Users  BY <1>1, <2>2 DEF Request
    <3>2. AccountAfter(c) \in Accounts
          BY <1>1, <3>1 DEF AccountAfter, Accounts, Types, TypeOK, Request, Changes
    <3>3. RoleAfter(c) \in Roles
          BY <1>1, <3>1 DEF RoleAfter, Roles, Types, TypeOK, Request, Changes
    <3> QED  BY <2>2, <3>2, <3>3 DEF Commit, Types, TypeOK
  <2> QED  BY <2>1, <2>2
<1>3. PICK new \in NewPair(c) :
        /\ row' = [r \in Rows |-> RowAfter(c, new, r)]
        /\ owner' = [s \in Sessions |-> IF s \in new THEN c.who ELSE owner[s]]
      BY DEF Commit
<1>4. row' \in [Rows -> {"unissued", "valid", "revoked", "gone"}]
      BY <1>3 DEF RowAfter, Types, TypeOK
<1>5. owner' \in [Sessions -> Users \cup {NoUser}]
      BY <1>1, <1>3 DEF Types, TypeOK
<1>6. ASSUME NEW r \in Rows, row'[r] # "unissued"  PROVE owner'[r[1]] \in Users
  <2>1. r[1] \in Sessions  BY DEF Rows
  <2>2. CASE r[1] \in new  BY <1>1, <1>3, <2>1, <2>2
  <2>3. CASE r[1] \notin new
    <3>1. owner'[r[1]] = owner[r[1]]  BY <1>3, <2>1, <2>3
    <3>2. row[r] # "unissued" \/ r \in c.kills
      BY <1>3, <1>6, <2>3 DEF RowAfter, OwnRows
    <3>3. row[r] # "unissued"  BY <3>2 DEF Types, Signed
    <3> QED  BY <3>1, <3>3 DEF Types
  <2> QED  BY <2>2, <2>3
<1>7. ASSUME NEW p \in Requests
      PROVE  req'[p] \in Request /\ Signed(req[p])'
  <2>1. Signed(req[p]) /\ req[p] \in Request  BY DEF Types, TypeOK
  <2>2. \A r \in Rows : row[r] # "unissued" => row'[r] # "unissued"
        BY <1>3 DEF RowAfter
  <2>3. CASE p = q  BY <2>3, IdleTyped DEF Commit, Types, TypeOK, Signed, Idle
  <2>4. CASE p # q
    <3>1. \E b \in BOOLEAN : req'[p] = [req[p] EXCEPT !.barred = b]
      <4> DEFINE b == /\ req[p].barred
                     /\ ~EntitledBy(req[p].op, account'[req[p].who],
                                    role'[req[p].who])
      <4>1. req'[p] = [req[p] EXCEPT !.barred = b]  BY <2>4 DEF Commit
      <4>2. b \in BOOLEAN  OBVIOUS
      <4> QED  BY <4>1, <4>2
    <3> QED  BY <2>1, <2>2, <3>1 DEF Signed, Request
  <2> QED  BY <2>1, <2>3, <2>4
<1>8. req' \in [Requests -> Request]  BY <1>7 DEF Commit
<1> QED  BY <1>2, <1>4, <1>5, <1>6, <1>7, <1>8 DEF Commit, Types, TypeOK

LEMMA InitTyped == Init => Types
<1> SUFFICES ASSUME Init PROVE Types  OBVIOUS
<1>1. PICK a \in SeedUsers, others \in SUBSET (Users \ SeedUsers) :
        /\ account = [u \in Users |-> IF u \in others \cup {a} THEN "active"
                                                              ELSE "none"]
        /\ role = [u \in Users |-> IF u = a THEN "admin" ELSE "analyst"]
        /\ owner \in [Sessions -> others \cup {a, NoUser}]
      BY DEF Init
<1>2. owner \in [Sessions -> Users \cup {NoUser}]  BY <1>1, SeedAssumption
<1>3. \A r \in Rows : row[r] # "unissued" => owner[r[1]] \in Users
      BY <1>2 DEF Init, Rows
<1>4. \A q \in Requests : req[q] = Idle  BY DEF Init
<1>5. req \in [Requests -> Request]  BY IdleTyped DEF Init
<1>6. account \in [Users -> Accounts] /\ role \in [Users -> Roles]
      BY <1>1 DEF Accounts, Roles
<1>7. asked \in 0 .. MaxAsked  BY BoundAssumption DEF Init
<1> QED  BY <1>2, <1>3, <1>4, <1>5, <1>6, <1>7, IdleTyped
         DEF Init, Types, TypeOK, Signed

LEMMA NextTyped == Types /\ [Next]_vars => Types'
<1> SUFFICES ASSUME Types, [Next]_vars PROVE Types'  OBVIOUS
<1>1. ASSUME NEW q \in Requests, Begin(q) PROVE Types'  BY <1>1, BeginTyped
<1>2. ASSUME NEW q \in Requests, Step(q) PROVE Types'
      BY <1>2, StatementTyped, CommitTyped
<1>3. ASSUME NEW q \in Requests, Abort(q) PROVE Types'
      BY <1>3, RefuseTyped DEF Abort
<1>4. ASSUME NEW r \in Rows, Expire(r) PROVE Types'
      BY <1>4 DEF Expire, Types, TypeOK, Signed
<1>5. CASE Cleanup  BY <1>5 DEF Cleanup, Types, TypeOK, Signed, Request
<1>6. CASE Stop
      BY <1>6, IdleTyped DEF Stop, dbVars, Types, TypeOK, Signed, Idle
<1>7. CASE SeedAdmin
      BY <1>7, SeedAssumption
      DEF SeedAdmin, Types, TypeOK, Signed, Accounts, Roles
<1>8. CASE UNCHANGED vars  BY <1>8 DEF vars, dbVars, Types, TypeOK, Signed
<1> QED  BY <1>1, <1>2, <1>3, <1>4, <1>5, <1>6, <1>7, <1>8 DEF Next

\* Every variable has its type, and with it: what has been issued belongs to a
\* user, and so does every request.
THEOREM TypeCorrect == Spec => []TypeOK
<1>1. Types => TypeOK  BY DEF Types
<1> QED  BY InitTyped, NextTyped, <1>1, PTL DEF Spec

-----------------------------------------------------------------------------
(***************************************************************************)
(* The row of the user decides.                                            *)
(***************************************************************************)

\* Who has not been entitled since its request began is not entitled now.
Stopped(c) == c.barred => c.pc = "verified" /\ ~Entitled(c.op, c.who)

\* There is no request while the application is down.
Quiet == phase # "up" => \A q \in Requests : req[q] = Idle

Powers == Quiet /\ \A q \in Requests : Stopped(req[q])

LEMMA IdleStopped == Stopped(Idle)
  BY DEF Stopped, Idle

LEMMA BecomeStopped ==
  ASSUME Types, Powers, NEW q \in Requests, NEW next, Stopped(next),
         req[q].pc # "idle", Become(q, next)
  PROVE  Powers'
<1>1. phase = "up"  BY DEF Powers, Quiet, Idle
<1>2. ASSUME NEW p \in Requests PROVE Stopped(req[p])'
  <2>1. account' = account /\ role' = role /\ req' = [req EXCEPT ![q] = next]
        BY DEF Become, dbVars
  <2>2. req'[p] = IF p = q THEN next ELSE req[p]  BY <2>1 DEF Types, TypeOK
  <2>3. Stopped(req[p])  BY DEF Powers
  <2> QED  BY <2>1, <2>2, <2>3 DEF Stopped, Entitled
<1> QED  BY <1>1, <1>2 DEF Become, Powers, Quiet

\* A request that is not barred is not once it goes on.
LEMMA GoOnStopped ==
  ASSUME Types, Powers, NEW q \in Requests, Step(q), ~Commit(q)
  PROVE  Powers'
<1>1. req[q].pc # "idle"
      BY DEF Step, ReadUser, ReadTarget, CheckEmail, InsertUser, FindTokens,
             RevokeAll, RotateOwn, Issue, ChangeUser, DeleteUser
<1>2. ~req[q].barred \/ Refuse(q)
      BY DEF Step, ReadUser, ReadTarget, CheckEmail, InsertUser, FindTokens,
             RevokeAll, RotateOwn, Issue, ChangeUser, DeleteUser, Powers, Stopped
<1>3. CASE Refuse(q)  BY <1>1, <1>3, IdleStopped, BecomeStopped DEF Refuse
<1>4. CASE ~req[q].barred
  <2>1. ASSUME NEW l PROVE Stopped([req[q] EXCEPT !.pc = l])
        BY <1>4 DEF Stopped, Types, TypeOK, Request
  <2>2. ASSUME NEW l, GoTo(q, l) PROVE Powers'
        BY <1>1, <2>1, <2>2, BecomeStopped DEF GoTo
  <2>3. ASSUME NEW l, NEW w
        PROVE  /\ Stopped([req[q] EXCEPT !.pc = l, !.want = w])
               /\ Stopped([req[q] EXCEPT !.pc = l, !.found = w])
               /\ Stopped([req[q] EXCEPT !.pc = l, !.kills = w])
        BY <1>4 DEF Stopped, Types, TypeOK, Request
  <2>4. ASSUME NEW u, PickChange(q, u) PROVE Powers'
        BY <1>1, <2>3, <2>4, BecomeStopped DEF PickChange
  <2>5. CASE ReadUser(q)  BY <1>3, <2>2, <2>4, <2>5 DEF ReadUser, Proceed
  <2>6. CASE ReadTarget(q)  BY <1>3, <2>2, <2>4, <2>6 DEF ReadTarget
  <2>7. CASE CheckEmail(q)
        BY <1>1, <1>3, <2>3, <2>7, BecomeStopped DEF CheckEmail
  <2>8. CASE InsertUser(q)
    <3> DEFINE label == IF req[q].op = "register" THEN "issuing" ELSE "written"
    <3>1. Refuse(q) \/ GoTo(q, label)  BY <2>8 DEF InsertUser
    <3> HIDE DEF label
    <3> QED  BY <1>3, <2>2, <3>1
  <2>9. CASE FindTokens(q)
        BY <1>1, <2>3, <2>9, BecomeStopped DEF FindTokens
  <2>10. CASE RevokeAll(q)
         BY <1>1, <2>3, <2>10, BecomeStopped DEF RevokeAll
  <2>11. CASE RotateOwn(q)
         BY <1>1, <2>3, <2>11, BecomeStopped DEF RotateOwn
  <2>12. CASE Issue(q)  BY <1>3, <2>2, <2>12 DEF Issue
  <2>13. CASE ChangeUser(q)  BY <1>3, <2>2, <2>13 DEF ChangeUser
  <2>14. CASE DeleteUser(q)  BY <2>2, <2>14 DEF DeleteUser
  <2> QED  BY <2>5, <2>6, <2>7, <2>8, <2>9, <2>10, <2>11, <2>12, <2>13, <2>14
           DEF Step
<1> QED  BY <1>2, <1>3, <1>4

LEMMA AskStopped ==
  ASSUME Types, Powers, NEW q \in Requests, NEW o, NEW u, NEW v, NEW rs,
         NEW label, Ask(q, o, u, v, rs, label),
         label = "verified" \/ Entitled(o, u)
  PROVE  Powers'
<1> DEFINE next == [Idle EXCEPT !.pc = label, !.op = o, !.who = u, !.about = v,
                                !.by = rs, !.barred = ~Entitled(o, u)]
<1>1. Stopped(next)  BY DEF Stopped, Idle
<1>2. req' = [req EXCEPT ![q] = next] /\ phase' = "up"
      /\ account' = account /\ role' = role
      BY DEF Ask, dbVars
<1> HIDE DEF next
<1>3. ASSUME NEW p \in Requests PROVE Stopped(req[p])'
  <2>1. req'[p] = IF p = q THEN next ELSE req[p]  BY <1>2 DEF Types, TypeOK
  <2>2. Stopped(req[p])  BY DEF Powers
  <2> QED  BY <1>1, <1>2, <2>1, <2>2 DEF Stopped, Entitled
<1> QED  BY <1>2, <1>3 DEF Powers, Quiet

LEMMA BeginStopped ==
  ASSUME Types, Powers, NEW q \in Requests, Begin(q)
  PROVE  Powers'
<1>1. \A u : Entitled("register", u) /\ Entitled("logout", u)
      BY DEF Entitled, EntitledBy, AdminOps
<1>2. \A u : account[u] = "active" => Entitled("login", u)
      BY DEF Entitled, EntitledBy, AdminOps
<1>3. ASSUME NEW u \in Users, Register(q, u) PROVE Powers'
      BY <1>1, <1>3, AskStopped DEF Register
<1>4. ASSUME NEW u \in Users, Login(q, u) PROVE Powers'
      BY <1>2, <1>4, AskStopped DEF Login
<1>5. ASSUME NEW s \in Sessions, Refresh(q, s) PROVE Powers'
      BY <1>5, AskStopped DEF Refresh
<1>6. ASSUME NEW s \in Sessions, Logout(q, s) PROVE Powers'
      BY <1>1, <1>6, AskStopped DEF Logout
<1>7. ASSUME NEW s \in Sessions, Call(q, s) PROVE Powers'
      BY <1>7, AskStopped DEF Call
<1>8. ASSUME NEW s \in Sessions, NEW o, NEW v, Administer(q, s, o, v)
      PROVE  Powers'
      BY <1>8, AskStopped DEF Administer
<1> QED  BY <1>3, <1>4, <1>5, <1>6, <1>7, <1>8 DEF Begin

LEMMA CommitStopped ==
  ASSUME Types, Powers, NEW q \in Requests, Commit(q)
  PROVE  Powers'
<1>1. phase = "up"  BY DEF Commit, Powers, Quiet, Idle
<1>2. ASSUME NEW p \in Requests PROVE Stopped(req[p])'
  <2>1. CASE p = q
    <3>1. req'[p] = Idle  BY <2>1 DEF Commit
    <3> QED  BY <3>1 DEF Stopped, Idle
  <2>2. CASE p # q
    <3> DEFINE b == /\ req[p].barred
                    /\ ~EntitledBy(req[p].op, account'[req[p].who],
                                   role'[req[p].who])
    <3>1. req'[p] = [req[p] EXCEPT !.barred = b]  BY <2>2 DEF Commit
    <3>2. req[p] \in Request /\ Stopped(req[p])  BY DEF Types, TypeOK, Powers
    <3>3. /\ req'[p].barred = b /\ req'[p].pc = req[p].pc
          /\ req'[p].op = req[p].op /\ req'[p].who = req[p].who
          BY <3>1, <3>2 DEF Request
    <3> QED  BY <3>2, <3>3 DEF Stopped, Entitled
  <2> QED  BY <2>1, <2>2
<1> QED  BY <1>1, <1>2 DEF Commit, Powers, Quiet

LEMMA NextStopped == Types /\ Powers /\ [Next]_vars => Powers'
<1> SUFFICES ASSUME Types, Powers, [Next]_vars PROVE Powers'  OBVIOUS
<1>1. ASSUME NEW q \in Requests, Begin(q) PROVE Powers'  BY <1>1, BeginStopped
<1>2. ASSUME NEW q \in Requests, Step(q) PROVE Powers'
      BY <1>2, GoOnStopped, CommitStopped
<1>3. ASSUME NEW q \in Requests, Abort(q) PROVE Powers'
      BY <1>3, IdleStopped, BecomeStopped DEF Abort, Refuse
<1>4. ASSUME NEW r \in Rows, Expire(r) PROVE Powers'
      BY <1>4 DEF Expire, Powers, Quiet, Stopped, Entitled
<1>5. CASE Cleanup  BY <1>5 DEF Cleanup, Powers, Quiet, Stopped, Entitled
<1>6. CASE Stop  BY <1>6 DEF Stop, Powers, Quiet, Stopped, Idle
<1>7. CASE SeedAdmin
  <2>1. req' = req /\ \A p \in Requests : req[p] = Idle
        BY <1>7 DEF SeedAdmin, Powers, Quiet
  <2>2. \A p \in Requests : req'[p] = Idle  BY <2>1
  <2>3. ~Idle.barred  BY DEF Idle
  <2> QED  BY <2>2, <2>3 DEF Powers, Quiet, Stopped
<1>8. CASE UNCHANGED vars
      BY <1>8 DEF vars, dbVars, Powers, Quiet, Stopped, Entitled
<1> QED  BY <1>1, <1>2, <1>3, <1>4, <1>5, <1>6, <1>7, <1>8 DEF Next

\* However requests overlap, a user without the account or the role that an
\* operation asks for gets nothing through, whatever its tokens say.
THEOREM RowsDecide == Spec => []PowersAreCurrent
<1>1. Init => Powers
  <2> SUFFICES ASSUME Init PROVE Powers  OBVIOUS
  <2>1. \A q \in Requests : req[q] = Idle  BY DEF Init
  <2>2. phase = "up"  BY DEF Init
  <2> QED  BY <2>1, <2>2, IdleStopped DEF Powers, Quiet
<1>2. Powers => PowersAreCurrent  BY DEF Powers, Stopped, PowersAreCurrent
<1> QED  BY InitTyped, NextTyped, NextStopped, <1>1, <1>2, PTL DEF Spec

-----------------------------------------------------------------------------
(***************************************************************************)
(* Tokens and their users.                                                 *)
(***************************************************************************)

\* What the operations are about, and where they get to.
Shape(c) ==
  /\ c.op \in {"login", "refresh", "logout", "call"} => c.about = NoUser
  /\ c.op = "register" => c.about = c.who
  /\ c.pc = "issuing" => c.op \in Issuers
  /\ c.pc \in {"matching", "revoking"} => c.op \in {"login", "logout"}
  /\ c.pc \in {"inserting", "creating"} => c.op \in {"register", "create"}
  /\ c.pc = "rotating" => c.op = "refresh"

\* Who is about to get a pair is there, and so are the rows to revoke.
Backed(c) ==
  /\ (c.op \in {"login", "refresh"} /\ c.pc = "written") => There(c.who)
  /\ \A r \in c.kills : row[r] \in {"valid", "revoked"}

\* The locks: whom c deletes, and whom it keeps from being deleted.
Deletes(c, u) == c.op = "delete" /\ c.pc = "written" /\ c.about = u
Uses(c, u)    == \/ c.op \in Issuers /\ c.pc = "written" /\ c.who = u
                 \/ \E r \in c.kills : owner[r[1]] = u

Apart(c, d) == \A u \in Users : ~(Deletes(c, u) /\ Uses(d, u))

Living ==
  /\ TokensHaveUsers
  /\ \A q \in Requests : Shape(req[q]) /\ Backed(req[q])
  /\ \A p, q \in Requests : Apart(req[p], req[q])

LEMMA IdleLiving == /\ Shape(Idle) /\ Backed(Idle)
                    /\ \A u : ~Deletes(Idle, u) /\ ~Uses(Idle, u)
  BY DEF Idle, Shape, Backed, Deletes, Uses, Issuers

LEMMA BecomeLiving ==
  ASSUME Types, Living, NEW q \in Requests, NEW next,
         Shape(next), Backed(next), Apart(next, next),
         \A p \in Requests \ {q} : Apart(next, req[p]) /\ Apart(req[p], next),
         req' = [req EXCEPT ![q] = next], account' = account, row' = row,
         owner' = owner
  PROVE  Living'
<1>1. \A p \in Requests : req'[p] = IF p = q THEN next ELSE req[p]
      BY DEF Types, TypeOK
<1>2. TokensHaveUsers'  BY DEF Living, TokensHaveUsers, There
<1>3. ASSUME NEW p \in Requests PROVE Shape(req[p])' /\ Backed(req[p])'
  <2>1. Shape(req[p]) /\ Backed(req[p])  BY DEF Living
  <2> QED  BY <1>1, <2>1 DEF Shape, Backed, There
<1>4. ASSUME NEW p \in Requests, NEW o \in Requests PROVE Apart(req[p], req[o])'
  <2>1. Apart(req[p], req[o])  BY DEF Living
  <2> QED  BY <1>1, <2>1 DEF Apart, Deletes, Uses
<1> QED  BY <1>2, <1>3, <1>4 DEF Living

LEMMA RefuseLiving ==
  ASSUME Types, Living, NEW q \in Requests, Refuse(q)
  PROVE  Living'
  BY IdleLiving, BecomeLiving DEF Refuse, Become, dbVars, Apart

\* Without a lock of its own, a request only has to keep its shape.
LEMMA MoveLiving ==
  ASSUME Types, Living, NEW q \in Requests, NEW next \in Request,
         Become(q, next), Shape(next), next.kills = req[q].kills,
         next.pc # "written" \/ next.op \notin Issuers \cup {"delete"}
  PROVE  Living'
<1>1. Shape(req[q]) /\ Backed(req[q])  BY DEF Living
<1>2. Backed(next)  BY <1>1 DEF Backed, Issuers
<1>3. \A u : Uses(next, u) => Uses(req[q], u)  BY DEF Uses
<1>4. \A u : ~Deletes(next, u)  BY DEF Deletes
<1>5. \A p \in Requests : Apart(req[p], req[q])  BY DEF Living
<1>6. \A p \in Requests : Apart(next, req[p]) /\ Apart(req[p], next)
      BY <1>3, <1>4, <1>5 DEF Apart
<1>7. Apart(next, next)  BY <1>4 DEF Apart
<1> QED  BY <1>2, <1>6, <1>7, BecomeLiving DEF Become, dbVars

LEMMA GoToLiving ==
  ASSUME Types, Living, NEW q \in Requests, NEW label \in Labels,
         GoTo(q, label), Shape([req[q] EXCEPT !.pc = label]),
         label # "written" \/ req[q].op \notin Issuers \cup {"delete"}
  PROVE  Living'
<1> DEFINE next == [req[q] EXCEPT !.pc = label]
<1>1. /\ next \in Request /\ next.kills = req[q].kills
      /\ next.pc = label /\ next.op = req[q].op
      BY DEF Types, TypeOK, Request
<1>2. Become(q, next) /\ Shape(next)  BY DEF GoTo
<1> HIDE DEF next
<1> QED  BY <1>1, <1>2, MoveLiving

LEMMA PickLiving ==
  ASSUME Types, Living, NEW q \in Requests, NEW u, PickChange(q, u)
  PROVE  Living'
<1>1. PICK c \in Changes :
             Become(q, [req[q] EXCEPT !.pc = "changing", !.want = c])
      BY DEF PickChange
<1> DEFINE next == [req[q] EXCEPT !.pc = "changing", !.want = c]
<1>2. /\ next \in Request /\ next.kills = req[q].kills
      /\ next.pc = "changing"
      BY DEF Types, TypeOK, Request, Labels
<1>3. Shape(req[q])  BY DEF Living
<1>4. Shape(next)  BY <1>3 DEF Shape, Types, TypeOK, Request
<1>5. Become(q, next)  BY <1>1
<1> HIDE DEF next
<1> QED  BY <1>2, <1>4, <1>5, MoveLiving

LEMMA ProceedLiving ==
  ASSUME Types, Living, NEW q \in Requests, Proceed(q)
  PROVE  Living'
<1>1. Shape(req[q]) /\ req[q] \in Request  BY DEF Living, Types, TypeOK
<1>2. CASE PickChange(q, req[q].who)  BY <1>2, PickLiving
<1>3. CASE req[q].op = "call" /\ GoTo(q, "written")
  <2>1. Shape([req[q] EXCEPT !.pc = "written"])  BY <1>1 DEF Shape, Request
  <2>2. req[q].op \notin Issuers \cup {"delete"}  BY <1>3 DEF Issuers
  <2> QED  BY <1>3, <2>1, <2>2, GoToLiving DEF Labels
<1>4. CASE req[q].op = "refresh" /\ GoTo(q, "rotating")
  <2>1. Shape([req[q] EXCEPT !.pc = "rotating"])
        BY <1>1, <1>4 DEF Shape, Request
  <2> QED  BY <1>4, <2>1, GoToLiving DEF Labels
<1>5. CASE req[q].op = "create" /\ GoTo(q, "creating")
  <2>1. Shape([req[q] EXCEPT !.pc = "creating"])
        BY <1>1, <1>5 DEF Shape, Request
  <2> QED  BY <1>5, <2>1, GoToLiving DEF Labels
<1>6. ASSUME NEW l \in {"targeting", "changing"}, GoTo(q, l) PROVE Living'
  <2>1. Shape([req[q] EXCEPT !.pc = l])  BY <1>1 DEF Shape, Request
  <2> QED  BY <1>6, <2>1, GoToLiving DEF Labels
<1> QED  BY <1>2, <1>3, <1>4, <1>5, <1>6 DEF Proceed

\* The UPDATEs wait for those who delete the owners of what they revoke.
LEMMA RevokeLiving ==
  ASSUME Types, Living, NEW q \in Requests, NEW label \in Labels,
         NEW rs \in SUBSET Rows,
         \A r \in rs : row[r] \in {"valid", "revoked"} /\ ~RowLocked(r),
         label # "written" \/ req[q].op \notin Issuers \cup {"delete"},
         Shape([req[q] EXCEPT !.pc = label]),
         Become(q, [req[q] EXCEPT !.pc = label, !.kills = rs])
  PROVE  Living'
<1> DEFINE next == [req[q] EXCEPT !.pc = label, !.kills = rs]
<1>1. /\ next \in Request /\ next.kills = rs /\ next.pc = label
      /\ next.op = req[q].op
      BY DEF Types, TypeOK, Request
<1>2. Shape(next)  BY DEF Shape, Types, TypeOK, Request
<1>3. Become(q, next)  OBVIOUS
<1> HIDE DEF next
<1>4. Backed(next)  BY <1>1 DEF Backed, Issuers
<1>5. \A u \in Users : ~Deletes(next, u)  BY <1>1 DEF Deletes
<1>6. ASSUME NEW u \in Users, Uses(next, u), NEW p \in Requests
      PROVE  ~Deletes(req[p], u)
  <2>1. PICK r \in rs : owner[r[1]] = u  BY <1>1, <1>6 DEF Uses
  <2>2. ~Deleted(u)  BY <2>1, NoUserAssumption DEF RowLocked
  <2> QED  BY <2>2 DEF Deleted, Deletes
<1>7. Apart(next, next)  BY <1>5 DEF Apart
<1>8. \A p \in Requests : Apart(next, req[p]) /\ Apart(req[p], next)
      BY <1>5, <1>6 DEF Apart
<1> QED  BY <1>2, <1>3, <1>4, <1>7, <1>8, BecomeLiving DEF Become, dbVars

\* The INSERT of a pair waits for those who delete its user.
LEMMA IssueLiving ==
  ASSUME Types, Living, NEW q \in Requests, Issue(q)
  PROVE  Living'
<1>1. CASE Refuse(q)  BY <1>1, RefuseLiving
<1>2. CASE GoTo(q, "written") /\ (req[q].op = "register" \/ There(req[q].who))
  <2> DEFINE next == [req[q] EXCEPT !.pc = "written"]
  <2>1. /\ next.kills = req[q].kills /\ next.pc = "written"
        /\ next.op = req[q].op /\ next.who = req[q].who
        /\ next.about = req[q].about
        BY DEF Types, TypeOK, Request
  <2>2. Become(q, next)  BY <1>2 DEF GoTo
  <2> HIDE DEF next
  <2>3. Shape(req[q]) /\ Backed(req[q]) /\ req[q].op \in Issuers
        BY DEF Living, Shape, Issue
  <2>4. Shape(next) /\ Backed(next)  BY <1>2, <2>1, <2>3 DEF Shape, Backed
  <2>5. \A u : ~Deletes(next, u)  BY <2>1, <2>3 DEF Deletes, Issuers
  <2>6. ASSUME NEW u \in Users, Uses(next, u), NEW p \in Requests
        PROVE  ~Deletes(req[p], u)
    <3>1. CASE req[q].who = u  BY <3>1 DEF Issue, Deleted, Deletes
    <3>2. CASE Uses(req[q], u)
      <4>1. Apart(req[p], req[q])  BY DEF Living
      <4> QED  BY <3>2, <4>1 DEF Apart
    <3> QED  BY <2>1, <2>6, <3>1, <3>2 DEF Uses
  <2>7. Apart(next, next)  BY <2>5 DEF Apart
  <2>8. \A p \in Requests : Apart(next, req[p]) /\ Apart(req[p], next)
        BY <2>5, <2>6 DEF Apart
  <2> QED  BY <2>2, <2>4, <2>7, <2>8, BecomeLiving DEF Become, dbVars
<1> QED  BY <1>1, <1>2 DEF Issue

\* The DELETE of a user waits for those who add to its tokens or revoke them.
LEMMA DeleteLiving ==
  ASSUME Types, Living, NEW q \in Requests, DeleteUser(q)
  PROVE  Living'
<1> DEFINE next == [req[q] EXCEPT !.pc = "written"]
<1>1. /\ next.kills = req[q].kills /\ next.pc = "written"
      /\ next.op = "delete" /\ next.who = req[q].who
      /\ next.about = req[q].about
      BY DEF Types, TypeOK, Request, DeleteUser
<1>2. Become(q, next)  BY DEF DeleteUser, GoTo
<1> HIDE DEF next
<1>3. Shape(req[q]) /\ Backed(req[q]) /\ req[q].op = "delete"
      BY DEF Living, DeleteUser
<1>4. Shape(next) /\ Backed(next)  BY <1>1, <1>3 DEF Shape, Backed
<1>5. ASSUME NEW p \in Requests, Uses(req[p], req[q].about),
             req[q].about \in Users
      PROVE  FALSE
  <2>1. CASE \E r \in req[p].kills : owner[r[1]] = req[q].about
    <3>1. PICK r \in req[p].kills : owner[r[1]] = req[q].about  BY <2>1
    <3>2. r \in Rows  BY DEF Types, TypeOK, Request
    <3>3. row[r] \in {"valid", "revoked"}  BY DEF Living, Backed
    <3>4. r \in OwnRows(req[q].about)  BY <3>1, <3>2, <3>3 DEF OwnRows
    <3>5. RowLocked(r)  BY DEF RowLocked
    <3> QED  BY <3>4, <3>5 DEF DeleteUser
  <2>2. CASE /\ req[p].op \in Issuers /\ req[p].pc = "written"
             /\ req[p].who = req[q].about
        BY <2>2 DEF DeleteUser, PairAdded
  <2> QED  BY <1>5, <2>1, <2>2 DEF Uses
<1>6. \A u : Uses(next, u) => Uses(req[q], u)
      BY <1>1 DEF Uses, Issuers
<1>7. \A u : Deletes(next, u) => u = req[q].about  BY <1>1 DEF Deletes
<1>8. \A p \in Requests : Apart(req[p], req[q])  BY DEF Living
<1>9. \A p \in Requests : Apart(next, req[p]) /\ Apart(req[p], next)
      BY <1>5, <1>6, <1>7, <1>8 DEF Apart
<1>10. Apart(next, next)  BY <1>5, <1>6, <1>7 DEF Apart
<1> QED  BY <1>2, <1>4, <1>9, <1>10, BecomeLiving DEF Become, dbVars

LEMMA StatementLiving ==
  ASSUME Types, Living, NEW q \in Requests, Step(q), ~Commit(q)
  PROVE  Living'
<1>1. Shape(req[q]) /\ req[q] \in Request  BY DEF Living, Types, TypeOK
<1>2. CASE Refuse(q)  BY <1>2, RefuseLiving
<1>3. CASE ReadUser(q)  BY <1>2, <1>3, ProceedLiving DEF ReadUser
<1>4. CASE ReadTarget(q)
  <2>1. CASE GoTo(q, "changing")
    <3>1. Shape([req[q] EXCEPT !.pc = "changing"])  BY <1>1 DEF Shape, Request
    <3> QED  BY <2>1, <3>1, GoToLiving DEF Labels
  <2> QED  BY <1>2, <1>4, <2>1, PickLiving DEF ReadTarget
<1>5. CASE CheckEmail(q)
  <2>1. ASSUME NEW r \in Roles,
               Become(q, [req[q] EXCEPT !.pc = "inserting",
                                        !.want = [Nothing EXCEPT !.role = r]])
        PROVE  Living'
    <3> DEFINE next == [req[q] EXCEPT !.pc = "inserting",
                                      !.want = [Nothing EXCEPT !.role = r]]
    <3>1. /\ next \in Request /\ next.kills = req[q].kills
          /\ next.pc = "inserting"
          BY DEF Types, TypeOK, Request, Labels, Changes, Nothing
    <3>2. Shape(next)  BY <1>1, <1>5 DEF Shape, Request, CheckEmail
    <3>3. Become(q, next)  BY <2>1
    <3> HIDE DEF next
    <3> QED  BY <3>1, <3>2, <3>3, MoveLiving
  <2> QED  BY <1>2, <1>5, <2>1 DEF CheckEmail
<1>6. CASE InsertUser(q)
  <2>1. CASE req[q].op = "register" /\ GoTo(q, "issuing")
    <3>1. Shape([req[q] EXCEPT !.pc = "issuing"])
          BY <1>1, <2>1 DEF Shape, Request, Issuers
    <3> QED  BY <2>1, <3>1, GoToLiving DEF Labels
  <2>2. CASE req[q].op # "register" /\ GoTo(q, "written")
    <3>1. Shape([req[q] EXCEPT !.pc = "written"])  BY <1>1 DEF Shape, Request
    <3>2. req[q].op = "create"  BY <1>1, <1>6, <2>2 DEF Shape, InsertUser
    <3> QED  BY <2>2, <3>1, <3>2, GoToLiving DEF Labels, Issuers
  <2>3. CASE req[q].op = "register"
        BY <1>2, <1>6, <2>1, <2>3 DEF InsertUser
  <2>4. CASE req[q].op # "register"
        BY <1>2, <1>6, <2>2, <2>4 DEF InsertUser
  <2> QED  BY <2>3, <2>4
<1>7. CASE FindTokens(q)
  <2> DEFINE rs   == {r \in OwnRows(req[q].who) : row[r] = "valid"}
             next == [req[q] EXCEPT !.pc = "revoking", !.found = rs]
  <2>1. rs \in SUBSET Rows  BY DEF OwnRows
  <2>2. Become(q, next)  BY <1>7 DEF FindTokens
  <2> HIDE DEF rs
  <2>3. /\ next \in Request /\ next.kills = req[q].kills
        /\ next.pc = "revoking"
        BY <1>1, <2>1 DEF Request, Labels
  <2>4. Shape(next)  BY <1>1, <1>7 DEF Shape, Request, FindTokens
  <2> HIDE DEF next
  <2> QED  BY <2>2, <2>3, <2>4, MoveLiving
<1>8. CASE RevokeAll(q)
  <2> DEFINE rs    == {r \in req[q].found : row[r] = "valid"}
             label == IF req[q].op = "login" THEN "issuing" ELSE "written"
  <2>1. rs \in SUBSET Rows  BY <1>1 DEF Request
  <2>2. \A r \in rs : row[r] \in {"valid", "revoked"} /\ ~RowLocked(r)
        BY <1>8 DEF RevokeAll
  <2>3. label \in Labels  BY DEF Labels
  <2>4. req[q].op \in {"login", "logout"}  BY <1>1, <1>8 DEF Shape, RevokeAll
  <2>5. label # "written" \/ req[q].op \notin Issuers \cup {"delete"}
        BY <2>4 DEF Issuers
  <2>6. Shape([req[q] EXCEPT !.pc = label])
        BY <1>1, <2>4 DEF Shape, Request, Issuers
  <2>7. Become(q, [req[q] EXCEPT !.pc = label, !.kills = rs])
        BY <1>8 DEF RevokeAll
  <2> HIDE DEF rs, label
  <2> QED  BY <2>1, <2>2, <2>3, <2>5, <2>6, <2>7, RevokeLiving
<1>9. CASE RotateOwn(q)
  <2> DEFINE rs == req[q].by \cap OwnRows(req[q].who)
  <2>1. rs \in SUBSET Rows  BY DEF OwnRows
  <2>2. \A r \in rs : row[r] \in {"valid", "revoked"} /\ ~RowLocked(r)
        BY <1>9 DEF RotateOwn, OwnRows
  <2>3. req[q].op = "refresh"  BY <1>1, <1>9 DEF Shape, RotateOwn
  <2>4. Shape([req[q] EXCEPT !.pc = "issuing"])
        BY <1>1, <2>3 DEF Shape, Request, Issuers
  <2>5. Become(q, [req[q] EXCEPT !.pc = "issuing", !.kills = rs])
        BY <1>9 DEF RotateOwn
  <2> HIDE DEF rs
  <2> QED  BY <2>1, <2>2, <2>4, <2>5, RevokeLiving DEF Labels
<1>10. CASE Issue(q)  BY <1>10, IssueLiving
<1>11. CASE ChangeUser(q)
  <2>1. CASE GoTo(q, "written")
    <3>1. Shape([req[q] EXCEPT !.pc = "written"])  BY <1>1 DEF Shape, Request
    <3>2. req[q].op \notin Issuers \cup {"delete"}
          BY <1>11 DEF ChangeUser, Issuers
    <3> QED  BY <2>1, <3>1, <3>2, GoToLiving DEF Labels
  <2> QED  BY <1>2, <1>11, <2>1 DEF ChangeUser
<1>12. CASE DeleteUser(q)  BY <1>12, DeleteLiving
<1> QED  BY <1>3, <1>4, <1>5, <1>6, <1>7, <1>8, <1>9, <1>10, <1>11, <1>12
         DEF Step

LEMMA AskLiving ==
  ASSUME Types, Living, NEW q \in Requests, NEW o, NEW u, NEW v, NEW rs,
         NEW label, Ask(q, o, u, v, rs, label),
         o \in {"login", "refresh", "logout", "call"} => v = NoUser,
         o = "register" => v = u,
         \/ label = "verified"
         \/ label = "matching" /\ o \in {"login", "logout"}
         \/ label = "inserting" /\ o = "register"
  PROVE  Living'
<1> DEFINE next == [Idle EXCEPT !.pc = label, !.op = o, !.who = u, !.about = v,
                                !.by = rs, !.barred = ~Entitled(o, u)]
<1>1. /\ next.pc = label /\ next.op = o /\ next.who = u /\ next.about = v
      /\ next.kills = {}
      BY DEF Idle
<1>2. req' = [req EXCEPT ![q] = next]  BY DEF Ask
<1> HIDE DEF next
<1>3. Shape(next) /\ Backed(next)  BY <1>1 DEF Shape, Backed
<1>4. \A w : ~Deletes(next, w) /\ ~Uses(next, w)  BY <1>1 DEF Deletes, Uses
<1>5. /\ Apart(next, next)
      /\ \A p \in Requests : Apart(next, req[p]) /\ Apart(req[p], next)
      BY <1>4 DEF Apart
<1> QED  BY <1>2, <1>3, <1>5, BecomeLiving DEF Ask, dbVars

LEMMA BeginLiving ==
  ASSUME Types, Living, NEW q \in Requests, Begin(q)
  PROVE  Living'
<1>1. ASSUME NEW u \in Users, Register(q, u) PROVE Living'
      BY <1>1, AskLiving DEF Register
<1>2. ASSUME NEW u \in Users, Login(q, u) PROVE Living'
      BY <1>2, AskLiving DEF Login
<1>3. ASSUME NEW s \in Sessions, Refresh(q, s) PROVE Living'
      BY <1>3, AskLiving DEF Refresh
<1>4. ASSUME NEW s \in Sessions, Logout(q, s) PROVE Living'
      BY <1>4, AskLiving DEF Logout
<1>5. ASSUME NEW s \in Sessions, Call(q, s) PROVE Living'
      BY <1>5, AskLiving DEF Call
<1>6. ASSUME NEW s \in Sessions, NEW o, NEW v, Administer(q, s, o, v)
      PROVE  Living'
      BY <1>6, AskLiving DEF Administer, AdminOps
<1> QED  BY <1>1, <1>2, <1>3, <1>4, <1>5, <1>6 DEF Begin

LEMMA CommitLiving ==
  ASSUME Types, Living, NEW q \in Requests, Commit(q)
  PROVE  Living'
<1> DEFINE c == req[q]
           Lives(u) == account'[u] \in {"active", "inactive"}
<1>1. /\ c \in Request /\ c.pc = "written" /\ c.who \in Users
      /\ Shape(c) /\ Backed(c)
      BY DEF Types, TypeOK, Commit, Signed, Living
<1>2. PICK new \in NewPair(c) :
        /\ row' = [r \in Rows |-> RowAfter(c, new, r)]
        /\ owner' = [s \in Sessions |-> IF s \in new THEN c.who ELSE owner[s]]
      BY DEF Commit
<1>3. /\ \A s \in new : s \in Sessions /\ owner[s] = NoUser /\ c.op \in Issuers
      BY <1>2 DEF NewPair
\* Only a deletion takes a user away.
<1>4. ASSUME NEW u \in Users, There(u), ~Deletes(c, u) PROVE Lives(u)
  <2>1. CASE c.about # u  BY <1>4, <2>1 DEF Commit, There, Types, TypeOK
  <2>2. CASE c.about = u
    <3>1. account'[u] = AccountAfter(c)
          BY <2>2, NoUserAssumption DEF Commit, Types, TypeOK
    <3>2. c.op # "delete"  BY <1>1, <1>4, <2>2 DEF Deletes
    <3>3. AccountAfter(c) \in {"active", "inactive"}
          BY <1>1, <1>4, <2>2, <3>2
          DEF AccountAfter, There, Request, Changes
    <3> QED  BY <3>1, <3>3
  <2> QED  BY <2>1, <2>2
\* A request that issues a pair has a user.
<1>5. ASSUME c.op \in Issuers PROVE Lives(c.who)
  <2>1. CASE c.op = "register"
    <3>1. c.about = c.who  BY <1>1, <2>1 DEF Shape
    <3>2. account'[c.who] = AccountAfter(c)
          BY <1>1, <3>1, NoUserAssumption DEF Commit, Types, TypeOK
    <3>3. AccountAfter(c) = "active"  BY <2>1 DEF AccountAfter
    <3> QED  BY <3>2, <3>3
  <2>2. CASE c.op \in {"login", "refresh"}
        BY <1>1, <1>4, <2>2 DEF Backed, Deletes
  <2> QED  BY <1>5, <2>1, <2>2 DEF Issuers
<1>6. ASSUME NEW r \in Rows, row[r] \in {"valid", "revoked"}
      PROVE  /\ owner[r[1]] \in Users /\ There(owner[r[1]])
             /\ r[1] \in Sessions \ new
             /\ owner'[r[1]] = owner[r[1]]
             /\ ~Deletes(c, owner[r[1]]) =>
                  row'[r] \in {"valid", "revoked"} /\ Lives(owner[r[1]])
  <2>1. /\ owner[r[1]] \in Users /\ There(owner[r[1]])
        BY <1>6 DEF Types, Living, TokensHaveUsers
  <2>2. r[1] \in Sessions \ new  BY <1>3, <2>1, NoUserAssumption DEF Rows
  <2>3. owner'[r[1]] = owner[r[1]]  BY <1>2, <2>2
  <2>4. row'[r] = RowAfter(c, new, r)  BY <1>2
  <2>5. ~Deletes(c, owner[r[1]]) => row'[r] \in {"valid", "revoked"}
        BY <1>1, <1>6, <2>2, <2>4 DEF RowAfter, Deletes, OwnRows
  <2> QED  BY <1>4, <2>1, <2>2, <2>3, <2>5
<1>7. TokensHaveUsers'
  <2> SUFFICES ASSUME NEW r \in Rows, row'[r] \in {"valid", "revoked"}
               PROVE  owner'[r[1]] # NoUser /\ There(owner[r[1]])'
      BY DEF TokensHaveUsers
  <2>1. row'[r] = RowAfter(c, new, r)  BY <1>2
  <2>2. CASE r[1] \in new
    <3>1. owner'[r[1]] = c.who  BY <1>2, <1>3, <2>2
    <3> QED  BY <1>1, <1>3, <1>5, <2>2, <3>1, NoUserAssumption DEF There
  <2>3. CASE r[1] \notin new
    <3>1. row[r] \in {"valid", "revoked"}
          BY <1>1, <2>1, <2>3 DEF RowAfter, Backed
    <3>2. ~Deletes(c, owner[r[1]])
          BY <3>1, <2>1, <2>3 DEF RowAfter, Deletes, OwnRows
    <3> QED  BY <1>6, <3>1, <3>2, NoUserAssumption DEF There
  <2> QED  BY <2>2, <2>3
\* What the others keep is as it was, but for the history.
<1>8. ASSUME NEW p \in Requests, p # q
      PROVE  /\ req'[p].pc = req[p].pc /\ req'[p].op = req[p].op
             /\ req'[p].who = req[p].who /\ req'[p].about = req[p].about
             /\ req'[p].kills = req[p].kills
  <2> DEFINE b == /\ req[p].barred
                  /\ ~EntitledBy(req[p].op, account'[req[p].who],
                                 role'[req[p].who])
  <2>1. req'[p] = [req[p] EXCEPT !.barred = b]  BY <1>8 DEF Commit
  <2>2. req[p] \in Request  BY DEF Types, TypeOK
  <2> HIDE DEF b
  <2> QED  BY <2>1, <2>2 DEF Request
<1>9. req'[q] = Idle  BY DEF Commit
<1>10. ASSUME NEW p \in Requests PROVE Shape(req[p])' /\ Backed(req[p])'
  <2>1. CASE p = q  BY <1>9, <2>1 DEF Idle, Shape, Backed
  <2>2. CASE p # q
    <3>1. /\ Shape(req[p]) /\ Backed(req[p]) /\ Apart(c, req[p])
          /\ Signed(req[p]) /\ req[p] \in Request
          BY DEF Living, Types, TypeOK
    <3>2. Shape(req[p])'  BY <1>8, <2>2, <3>1 DEF Shape
    <3>3. (req[p].op \in {"login", "refresh"} /\ req[p].pc = "written")
             => Lives(req[p].who)
          BY <1>4, <3>1 DEF Backed, Apart, Uses, Issuers, Signed
    <3>4. ASSUME NEW r \in req[p].kills PROVE row'[r] \in {"valid", "revoked"}
          BY <1>6, <3>1 DEF Backed, Apart, Uses, Request
    <3> QED  BY <1>8, <2>2, <3>2, <3>3, <3>4 DEF Backed, There
  <2> QED  BY <2>1, <2>2
<1>11. ASSUME NEW p \in Requests, NEW o \in Requests
       PROVE  Apart(req[p], req[o])'
  <2>1. CASE p = q \/ o = q
        BY <1>9, <2>1 DEF Apart, Deletes, Uses, Idle, Issuers
  <2>2. CASE p # q /\ o # q
    <3>1. Apart(req[p], req[o]) /\ Backed(req[o]) /\ req[o] \in Request
          BY DEF Living, Types, TypeOK
    <3>2. \A r \in req[o].kills : owner'[r[1]] = owner[r[1]]
          BY <1>6, <3>1 DEF Backed, Request
    <3> QED  BY <1>8, <2>2, <3>1, <3>2 DEF Apart, Deletes, Uses
  <2> QED  BY <2>1, <2>2
<1> QED  BY <1>7, <1>10, <1>11 DEF Living

LEMMA NextLiving == Types /\ Living /\ [Next]_vars => Living'
<1> SUFFICES ASSUME Types, Living, [Next]_vars PROVE Living'  OBVIOUS
<1> USE DEF Living, TokensHaveUsers, Backed, There, Apart, Deletes, Uses
<1>1. ASSUME NEW q \in Requests, Begin(q) PROVE Living'  BY <1>1, BeginLiving
<1>2. ASSUME NEW q \in Requests, Step(q) PROVE Living'
      BY <1>2, StatementLiving, CommitLiving
<1>3. ASSUME NEW q \in Requests, Abort(q) PROVE Living'
      BY <1>3, RefuseLiving DEF Abort
<1>4. ASSUME NEW r \in Rows, Expire(r) PROVE Living'
      BY <1>4 DEF Expire, Shape
<1>5. CASE Cleanup
  <2>1. /\ req' = req /\ owner' = owner /\ account' = account
        /\ \A r \in Rows : row'[r] \in {row[r], "gone"}
        BY <1>5 DEF Cleanup
  <2>2. ASSUME NEW q \in Requests, NEW r \in req[q].kills
        PROVE  row'[r] = row[r]
    <3>1. r \in Rows /\ RowLocked(r)  BY DEF RowLocked, Types, TypeOK, Request
    <3> QED  BY <1>5, <3>1 DEF Cleanup
  <2> QED  BY <2>1, <2>2 DEF Shape
<1>6. CASE Stop
  <2>1. \A q \in Requests : req'[q] = Idle  BY <1>6 DEF Stop
  <2>2. TokensHaveUsers'  BY <1>6 DEF Stop, dbVars
  <2>3. ASSUME NEW q \in Requests PROVE Shape(req[q])' /\ Backed(req[q])'
        BY <2>1 DEF Idle, Shape
  <2>4. \A p, q \in Requests : Apart(req[p], req[q])'  BY <2>1 DEF Idle
  <2> QED  BY <2>2, <2>3, <2>4
<1>7. CASE SeedAdmin
  <2>1. req' = req /\ owner' = owner /\ row' = row
        BY <1>7 DEF SeedAdmin
  <2>2. \A u : There(u) => There(u)'
    <3> SUFFICES ASSUME NEW u, There(u) PROVE There(u)'  OBVIOUS
    <3>1. CASE account' = account  BY <3>1
    <3>2. CASE \E v \in SeedUsers : /\ account[v] = "none"
                                    /\ account' = [account EXCEPT ![v] = "active"]
          BY <3>2, SeedAssumption DEF Types, TypeOK
    <3> QED  BY <1>7, <3>1, <3>2 DEF SeedAdmin
  <2> QED  BY <2>1, <2>2 DEF Shape
<1>8. CASE UNCHANGED vars  BY <1>8 DEF vars, dbVars, Shape
<1> QED  BY <1>1, <1>2, <1>3, <1>4, <1>5, <1>6, <1>7, <1>8 DEF Next

LEMMA InitLiving == Init => Living
<1> SUFFICES ASSUME Init PROVE Living  OBVIOUS
<1>1. PICK a \in SeedUsers, others \in SUBSET (Users \ SeedUsers) :
        /\ account = [u \in Users |-> IF u \in others \cup {a} THEN "active"
                                                              ELSE "none"]
        /\ owner \in [Sessions -> others \cup {a, NoUser}]
      BY DEF Init
<1>2. ASSUME NEW r \in Rows, row[r] \in {"valid", "revoked"}
      PROVE  owner[r[1]] # NoUser /\ There(owner[r[1]])
  <2>1. r[1] \in Sessions  BY DEF Rows
  <2>2. owner[r[1]] # NoUser  BY <1>2 DEF Init
  <2>3. owner[r[1]] \in others \cup {a}  BY <1>1, <2>1, <2>2
  <2>4. owner[r[1]] \in Users  BY <1>1, <2>3, SeedAssumption
  <2> QED  BY <1>1, <2>2, <2>3, <2>4 DEF There
<1>3. \A q \in Requests : req[q] = Idle  BY DEF Init
<1> QED  BY <1>2, <1>3, IdleLiving DEF Living, TokensHaveUsers, Apart

\* However requests overlap, expire and fail, a token that is in the table
\* belongs to a user that is: no pair outlives a deletion.
THEOREM TokensFollowUsers == Spec => []TokensHaveUsers
<1>1. Living => TokensHaveUsers  BY DEF Living
<1> QED  BY InitTyped, NextTyped, InitLiving, NextLiving, <1>1, PTL DEF Spec

-----------------------------------------------------------------------------
(***************************************************************************)
(* Sessions: as long as a user's session requests do not overlap, each of  *)
(* them knows all tokens of its user that can be used.                     *)
(***************************************************************************)
Live(u) == {r \in Rows : owner[r[1]] = u /\ Usable(r)}
Renewable(u) == {r \in Live(u) : r[2] = "refresh"}

UnderWay(c) == c.pc # "idle" /\ c.op \in Sessional

\* A registration finds no token; a refresh trades the one refresh token there
\* is; a login and a logout find them all, and then have them all revoked.
Knows(c) ==
  /\ c.op = "register" => Live(c.who) = {}
  /\ c.op = "refresh" => Renewable(c.who) \subseteq c.by
  /\ (c.op = "refresh" /\ c.pc \in {"issuing", "written"})
       => Renewable(c.who) \subseteq c.kills
  /\ (c.op \in {"login", "logout"} /\ c.pc = "revoking")
       => Live(c.who) \subseteq c.found
  /\ (c.op \in {"login", "logout"} /\ c.pc \in {"issuing", "written"})
       => Live(c.who) \subseteq c.kills

Informed(c) == (UnderWay(c) /\ c.who \notin crossed) => Knows(c)

Meets(c, d) == UnderWay(c) /\ UnderWay(d) /\ c.who = d.who

OneAtATime == \A p, q \in Requests :
                (p # q /\ Meets(req[p], req[q])) => req[p].who \in crossed

Single ==
  /\ OneRefreshToken
  /\ OneAtATime
  /\ \A q \in Requests : Informed(req[q])

LEMMA IdleInformed == ~UnderWay(Idle)
  BY DEF Idle, UnderWay

\* Nobody but a user has tokens that can be used.
LEMMA LiveOwned ==
  ASSUME Types, NEW r \in Rows, Usable(r)
  PROVE  owner[r[1]] \in Users
  BY DEF Types, Usable

\* A step without a new pair only takes tokens away.
LEMMA ShrinkSingle ==
  ASSUME Types, Single, crossed' = crossed,
         \A s \in Sessions : owner'[s] = owner[s],
         \A r \in Rows : Usable(r)' => Usable(r),
         \A p \in Requests : Informed(req[p])' \/ req'[p] = req[p],
         \A p \in Requests : UnderWay(req[p])' =>
                               UnderWay(req[p]) /\ req'[p].who = req[p].who
  PROVE  Single'
<1>1. \A u : Live(u)' \subseteq Live(u)  BY DEF Live, Rows
<1>2. \A u : Renewable(u)' \subseteq Renewable(u)  BY <1>1 DEF Renewable
<1>3. OneRefreshToken'
  <2>1. \A s \in Sessions : <<s, "refresh">> \in Rows  BY DEF Rows
  <2> QED  BY <2>1 DEF Single, OneRefreshToken
<1>4. OneAtATime'  BY DEF Single, OneAtATime, Meets
<1>5. ASSUME NEW p \in Requests PROVE Informed(req[p])'
  <2>1. CASE req'[p] = req[p]
    <3>1. Informed(req[p])  BY DEF Single
    <3> QED  BY <1>1, <1>2, <2>1, <3>1 DEF Informed, Knows, UnderWay
  <2> QED  BY <2>1
<1> QED  BY <1>3, <1>4, <1>5 DEF Single

\* A statement of a request under way.
LEMMA BecomeSingle ==
  ASSUME Types, Single, NEW q \in Requests, NEW next, Become(q, next),
         UnderWay(next) => /\ req[q].pc # "idle" /\ next.op = req[q].op
                           /\ next.who = req[q].who,
         (UnderWay(next) /\ next.who \notin crossed) => Knows(next)
  PROVE  Single'
<1>1. \A p \in Requests : req'[p] = IF p = q THEN next ELSE req[p]
      BY DEF Become, Types, TypeOK
<1>2. /\ crossed' = crossed /\ owner' = owner /\ row' = row
      /\ expired' = expired
      BY DEF Become, dbVars
<1>3. \A r \in Rows : Usable(r)' => Usable(r)  BY <1>2 DEF Usable
<1>4. \A u : Live(u)' = Live(u) /\ Renewable(u)' = Renewable(u)
      BY <1>2 DEF Live, Renewable, Usable
<1>5. \A p \in Requests : Informed(req[p])' \/ req'[p] = req[p]
      BY <1>1, <1>2, <1>4 DEF Informed, Knows, UnderWay
<1>6. \A p \in Requests : UnderWay(req[p])' =>
                            UnderWay(req[p]) /\ req'[p].who = req[p].who
      BY <1>1 DEF UnderWay
<1> QED  BY <1>2, <1>3, <1>5, <1>6, ShrinkSingle

LEMMA RefuseSingle ==
  ASSUME Types, Single, NEW q \in Requests, Refuse(q)
  PROVE  Single'
  BY IdleInformed, BecomeSingle DEF Refuse

\* The statements that do not touch a token.
LEMMA GoToSingle ==
  ASSUME Types, Single, NEW q \in Requests, NEW label, GoTo(q, label),
         req[q].pc # "idle",
         \/ req[q].op \notin Sessional
         \/ req[q].op = "register"
         \/ req[q].op = "refresh" /\ label = "rotating"
         \/ req[q].pc = "issuing" /\ label = "written"
  PROVE  Single'
<1> DEFINE next == [req[q] EXCEPT !.pc = label]
<1>1. /\ next.pc = label /\ next.op = req[q].op /\ next.who = req[q].who
      /\ next.by = req[q].by /\ next.kills = req[q].kills
      BY DEF Types, TypeOK, Request
<1>2. Become(q, next)  BY DEF GoTo
<1> HIDE DEF next
<1>3. UnderWay(next) => UnderWay(req[q])  BY <1>1 DEF UnderWay
<1>4. Informed(req[q])  BY DEF Single
<1>5. (UnderWay(next) /\ next.who \notin crossed) => Knows(next)
      BY <1>1, <1>3, <1>4 DEF Informed, Knows, UnderWay, Sessional, Issuers
<1> QED  BY <1>1, <1>2, <1>5, BecomeSingle

LEMMA AdminSingle ==
  ASSUME Types, Single, NEW q \in Requests, req[q].op \notin Sessional,
         NEW label, NEW w, req[q].pc # "idle",
         Become(q, [req[q] EXCEPT !.pc = label, !.want = w])
  PROVE  Single'
<1> DEFINE next == [req[q] EXCEPT !.pc = label, !.want = w]
<1>1. next.op = req[q].op /\ next.who = req[q].who
      BY DEF Types, TypeOK, Request
<1>2. Become(q, next)  OBVIOUS
<1> HIDE DEF next
<1>3. ~UnderWay(next)  BY <1>1 DEF UnderWay
<1> QED  BY <1>2, <1>3, BecomeSingle

LEMMA StatementSingle ==
  ASSUME Types, Living, Single, NEW q \in Requests, Step(q), ~Commit(q)
  PROVE  Single'
<1>1. Shape(req[q]) /\ req[q] \in Request  BY DEF Living, Types, TypeOK
<1>2. Informed(req[q])  BY DEF Single
<1>3. CASE Refuse(q)  BY <1>3, RefuseSingle
<1>4. ASSUME NEW u, PickChange(q, u), req[q].op \notin Sessional,
             req[q].pc # "idle"
      PROVE  Single'
      BY <1>4, AdminSingle DEF PickChange
<1>5. CASE ReadUser(q)
  <2>1. req[q].pc # "idle"  BY <1>5 DEF ReadUser
  <2>2. CASE \/ req[q].op = "call" /\ GoTo(q, "written")
             \/ req[q].op = "refresh" /\ GoTo(q, "rotating")
             \/ req[q].op = "create" /\ GoTo(q, "creating")
        BY <2>1, <2>2, GoToSingle DEF Sessional, Issuers
  <2>3. CASE req[q].op \in {"update", "delete"} /\ GoTo(q, "targeting")
        BY <2>1, <2>3, GoToSingle DEF Sessional, Issuers
  <2>4. CASE req[q].op = "delete" /\ GoTo(q, "changing")
        BY <2>1, <2>4, GoToSingle DEF Sessional, Issuers
  <2>5. CASE req[q].op = "update" /\ PickChange(q, req[q].who)
        BY <1>4, <2>1, <2>5 DEF Sessional, Issuers
  <2> QED  BY <1>3, <1>5, <2>2, <2>3, <2>4, <2>5 DEF ReadUser, Proceed
<1>6. CASE ReadTarget(q)
  <2>1. req[q].pc # "idle"  BY <1>6 DEF ReadTarget
  <2>2. CASE req[q].op = "delete" /\ GoTo(q, "changing")
        BY <2>1, <2>2, GoToSingle DEF Sessional, Issuers
  <2>3. CASE req[q].op = "update" /\ PickChange(q, req[q].about)
        BY <1>4, <2>1, <2>3 DEF Sessional, Issuers
  <2> QED  BY <1>3, <1>6, <2>2, <2>3 DEF ReadTarget
<1>7. CASE CheckEmail(q)
  <2>1. req[q].pc # "idle" /\ req[q].op \in {"register", "create"}
        BY <1>1, <1>7 DEF CheckEmail, Shape
  <2>2. CASE req[q].op = "create"
        BY <1>3, <1>7, <2>1, <2>2, AdminSingle
        DEF CheckEmail, Sessional, Issuers
  <2>3. ASSUME req[q].op = "register", NEW w,
               Become(q, [req[q] EXCEPT !.pc = "inserting", !.want = w])
        PROVE  Single'
    <3> DEFINE next == [req[q] EXCEPT !.pc = "inserting", !.want = w]
    <3>1. /\ next.op = "register" /\ next.who = req[q].who
          /\ next.pc = "inserting"
          BY <1>1, <2>3 DEF Request
    <3>2. Become(q, next)  BY <2>3
    <3> HIDE DEF next
    <3>3. UnderWay(req[q])  BY <2>1, <2>3 DEF UnderWay, Sessional, Issuers
    <3>4. next.who \notin crossed => Knows(next)
          BY <1>2, <2>3, <3>1, <3>3 DEF Informed, Knows
    <3> QED  BY <2>1, <2>3, <3>1, <3>2, <3>4, BecomeSingle
  <2> QED  BY <1>3, <1>7, <2>1, <2>2, <2>3 DEF CheckEmail
<1>8. CASE InsertUser(q)
  <2> DEFINE label == IF req[q].op = "register" THEN "issuing" ELSE "written"
  <2>1. Refuse(q) \/ GoTo(q, label)  BY <1>8 DEF InsertUser
  <2>2. req[q].pc # "idle" /\ req[q].op \in {"register", "create"}
        BY <1>1, <1>8 DEF InsertUser, Shape
  <2> HIDE DEF label
  <2> QED  BY <1>3, <2>1, <2>2, GoToSingle DEF Sessional, Issuers
\* The UPDATE of a login or a logout finds all of them.
<1>9. CASE FindTokens(q)
  <2> DEFINE rs   == {r \in OwnRows(req[q].who) : row[r] = "valid"}
             next == [req[q] EXCEPT !.pc = "revoking", !.found = rs]
  <2>1. Live(req[q].who) \subseteq rs  BY DEF Live, Usable, OwnRows
  <2>2. Become(q, next)  BY <1>9 DEF FindTokens
  <2> HIDE DEF rs
  <2>3. /\ next.pc = "revoking" /\ next.found = rs
        /\ next.op = req[q].op /\ next.who = req[q].who
        BY <1>1 DEF Request
  <2> HIDE DEF next
  <2>4. req[q].pc # "idle" /\ req[q].op \in {"login", "logout"}
        BY <1>1, <1>9 DEF Shape, FindTokens
  <2>5. Knows(next)  BY <2>1, <2>3, <2>4 DEF Knows
  <2> QED  BY <2>2, <2>3, <2>4, <2>5, BecomeSingle
\* Those of them that have been revoked meanwhile cannot be used.
<1>10. CASE RevokeAll(q)
  <2> DEFINE rs    == {r \in req[q].found : row[r] = "valid"}
             label == IF req[q].op = "login" THEN "issuing" ELSE "written"
             next  == [req[q] EXCEPT !.pc = label, !.kills = rs]
  <2>1. req[q].op \in {"login", "logout"} /\ req[q].pc = "revoking"
        BY <1>1, <1>10 DEF Shape, RevokeAll
  <2>2. UnderWay(req[q])  BY <2>1 DEF UnderWay, Sessional, Issuers
  <2>3. req[q].who \notin crossed => Live(req[q].who) \subseteq rs
        BY <1>2, <2>1, <2>2 DEF Informed, Knows, Live, Usable
  <2>4. Become(q, next)  BY <1>10 DEF RevokeAll
  <2>5. label \in {"issuing", "written"}  OBVIOUS
  <2> HIDE DEF rs, label
  <2>6. /\ next.pc = label /\ next.kills = rs
        /\ next.op = req[q].op /\ next.who = req[q].who
        BY <1>1 DEF Request
  <2> HIDE DEF next
  <2>7. next.who \notin crossed => Knows(next)
        BY <2>1, <2>3, <2>5, <2>6 DEF Knows
  <2> QED  BY <2>1, <2>4, <2>6, <2>7, BecomeSingle
\* The token a refresh trades is the only one, if it can still be used.
<1>11. CASE RotateOwn(q)
  <2> DEFINE rs   == req[q].by \cap OwnRows(req[q].who)
             next == [req[q] EXCEPT !.pc = "issuing", !.kills = rs]
  <2>1. req[q].op = "refresh" /\ req[q].pc # "idle"
        BY <1>1, <1>11 DEF Shape, RotateOwn
  <2>2. UnderWay(req[q])  BY <2>1 DEF UnderWay, Sessional, Issuers
  <2>3. req[q].who \notin crossed => /\ Renewable(req[q].who) \subseteq req[q].by
                                     /\ Renewable(req[q].who) \subseteq rs
        BY <1>2, <2>1, <2>2
        DEF Informed, Knows, Renewable, Live, Usable, OwnRows
  <2>4. Become(q, next)  BY <1>11 DEF RotateOwn
  <2> HIDE DEF rs
  <2>5. /\ next.pc = "issuing" /\ next.kills = rs /\ next.by = req[q].by
        /\ next.op = req[q].op /\ next.who = req[q].who
        BY <1>1 DEF Request
  <2> HIDE DEF next
  <2>6. next.who \notin crossed => Knows(next)
        BY <2>1, <2>3, <2>5 DEF Knows
  <2> QED  BY <2>1, <2>4, <2>5, <2>6, BecomeSingle
<1>12. CASE Issue(q)
  <2>1. req[q].pc = "issuing" /\ (Refuse(q) \/ GoTo(q, "written"))
        BY <1>12 DEF Issue
  <2> QED  BY <1>3, <2>1, GoToSingle
<1>13. CASE ChangeUser(q)
  <2>1. /\ req[q].op \notin Sessional /\ req[q].pc # "idle"
        /\ Refuse(q) \/ GoTo(q, "written")
        BY <1>13 DEF ChangeUser, Sessional, Issuers
  <2> QED  BY <1>3, <2>1, GoToSingle
<1>14. CASE DeleteUser(q)
  <2>1. /\ req[q].op \notin Sessional /\ req[q].pc # "idle"
        /\ GoTo(q, "written")
        BY <1>14 DEF DeleteUser, Sessional, Issuers
  <2> QED  BY <2>1, GoToSingle
<1> QED  BY <1>5, <1>6, <1>7, <1>8, <1>9, <1>10, <1>11, <1>12, <1>13, <1>14
         DEF Step

\* A request that begins while another of its user is under way crosses it.
LEMMA AskSingle ==
  ASSUME Types, Single, NEW q \in Requests, NEW o, NEW u \in Users, NEW v,
         NEW rs, NEW label, Ask(q, o, u, v, rs, label),
         o \in {"login", "logout"} => label = "matching",
         o = "register" => Live(u) = {},
         o = "refresh" => /\ label = "verified"
                          /\ u \notin crossed => Renewable(u) \subseteq rs
  PROVE  Single'
<1> DEFINE next == [Idle EXCEPT !.pc = label, !.op = o, !.who = u, !.about = v,
                                !.by = rs, !.barred = ~Entitled(o, u)]
<1>1. /\ next.pc = label /\ next.op = o /\ next.who = u /\ next.by = rs
      BY DEF Idle
<1>2. req' = [req EXCEPT ![q] = next]  BY DEF Ask
<1> HIDE DEF next
<1>3. \A p \in Requests : req'[p] = IF p = q THEN next ELSE req[p]
      BY <1>2 DEF Types, TypeOK
<1>4. owner' = owner /\ row' = row /\ expired' = expired
      BY DEF Ask, dbVars
<1>5. \A w : Live(w)' = Live(w) /\ Renewable(w)' = Renewable(w)
      BY <1>4 DEF Live, Renewable, Usable
<1>6. crossed \subseteq crossed'  BY DEF Ask
<1>7. OneRefreshToken'
      BY <1>4, <1>6 DEF Single, OneRefreshToken, Usable
<1>8. OneAtATime'
  <2>1. ASSUME NEW p \in Requests \ {q}, Meets(req[p], next)
        PROVE  u \in crossed'
        BY <1>1, <2>1 DEF Ask, Meets, UnderWay
  <2>2. \A p \in Requests \ {q} : Meets(next, req[p]) => Meets(req[p], next)
        BY DEF Meets
  <2>3. ASSUME NEW p \in Requests, NEW d \in Requests, p # d,
               Meets(req'[p], req'[d])
        PROVE  req'[p].who \in crossed'
    <3>1. CASE p = q \/ d = q
          BY <1>1, <1>3, <2>1, <2>2, <2>3, <3>1 DEF Meets
    <3>2. CASE p # q /\ d # q
          BY <1>3, <1>6, <2>3, <3>2 DEF Single, OneAtATime
    <3> QED  BY <3>1, <3>2
  <2> QED  BY <2>3 DEF OneAtATime, Meets, UnderWay
<1>9. ASSUME NEW p \in Requests PROVE Informed(req[p])'
  <2>1. CASE p = q
    <3>1. u \notin crossed' => u \notin crossed  BY <1>6
    <3>2. UnderWay(next) /\ u \notin crossed => Knows(next)
          BY <1>1 DEF Knows, UnderWay, Sessional, Issuers
    <3> QED  BY <1>1, <1>3, <1>5, <2>1, <3>1, <3>2
             DEF Informed, Knows, UnderWay
  <2>2. CASE p # q
    <3>1. Informed(req[p])  BY DEF Single
    <3> QED  BY <1>3, <1>5, <1>6, <2>2, <3>1 DEF Informed, Knows, UnderWay
  <2> QED  BY <2>1, <2>2
<1> QED  BY <1>7, <1>8, <1>9 DEF Single

LEMMA BeginSingle ==
  ASSUME Types, Living, Single, NEW q \in Requests, Begin(q)
  PROVE  Single'
<1>1. ASSUME NEW u \in Users, Register(q, u) PROVE Single'
  <2>1. ~There(u)  BY <1>1 DEF Register, There
  <2>2. Live(u) = {}
        BY <2>1 DEF Live, Usable, Living, TokensHaveUsers
  <2> QED  BY <1>1, <2>2, AskSingle DEF Register
<1>2. ASSUME NEW u \in Users, Login(q, u) PROVE Single'
      BY <1>2, AskSingle DEF Login
<1>3. ASSUME NEW s \in Sessions,
             Refresh(q, s) \/ Logout(q, s) \/ Call(q, s)
               \/ \E o \in Ops, v \in Users : Administer(q, s, o, v)
      PROVE  Single'
  <2>1. <<s, "access">> \in Rows /\ <<s, "refresh">> \in Rows  BY DEF Rows
  <2>2. owner[s] \in Users
        BY <1>3, <2>1 DEF Refresh, Logout, Call, Administer, Usable, Types
  <2>3. CASE Refresh(q, s)
    <3>1. Usable(<<s, "refresh">>)  BY <2>3 DEF Refresh
    <3>2. ASSUME owner[s] \notin crossed, NEW r \in Renewable(owner[s])
          PROVE  r = <<s, "refresh">>
      <4>1. r \in Rows /\ Usable(r) /\ owner[r[1]] = owner[s]
            /\ r[2] = "refresh"
            BY <3>2 DEF Renewable, Live
      <4>2. r = <<r[1], "refresh">> /\ r[1] \in Sessions  BY <4>1 DEF Rows
      <4>3. r[1] = s
            BY <3>1, <3>2, <4>1, <4>2 DEF Single, OneRefreshToken
      <4> QED  BY <4>2, <4>3
    <3>3. owner[s] \notin crossed =>
            Renewable(owner[s]) \subseteq {<<s, "refresh">>}
          BY <3>2
    <3>4. Ask(q, "refresh", owner[s], NoUser, {<<s, "refresh">>}, "verified")
          BY <2>3 DEF Refresh
    <3> QED  BY <2>2, <3>3, <3>4, AskSingle
  <2>4. CASE Logout(q, s)  BY <2>2, <2>4, AskSingle DEF Logout
  <2>5. CASE Call(q, s)  BY <2>2, <2>5, AskSingle DEF Call
  <2>6. ASSUME NEW o \in Ops, NEW v \in Users, Administer(q, s, o, v)
        PROVE  Single'
        BY <2>2, <2>6, AskSingle DEF Administer, AdminOps
  <2> QED  BY <1>3, <2>3, <2>4, <2>5, <2>6
<1> QED  BY <1>1, <1>2, <1>3 DEF Begin

\* A commit adds the one pair its request has made room for.
LEMMA CommitSingle ==
  ASSUME Types, Single, NEW q \in Requests, Commit(q)
  PROVE  Single'
<1> DEFINE c == req[q]
<1>1. c \in Request /\ c.pc = "written" /\ c.who \in Users /\ Informed(c)
      BY DEF Types, TypeOK, Commit, Signed, Single
<1>2. PICK new \in NewPair(c) :
        /\ row' = [r \in Rows |-> RowAfter(c, new, r)]
        /\ owner' = [s \in Sessions |-> IF s \in new THEN c.who ELSE owner[s]]
      BY DEF Commit
<1>3. /\ crossed' = crossed /\ expired' = expired
      BY DEF Commit
<1>4. /\ \A s \in new : s \in Sessions /\ c.op \in Issuers
      /\ \A s, t \in new : s = t
      BY <1>2 DEF NewPair
<1>5. ASSUME NEW r \in Rows, Usable(r)', r[1] \notin new
      PROVE  Usable(r) /\ r \notin c.kills /\ owner'[r[1]] = owner[r[1]]
  <2>1. row'[r] = RowAfter(c, new, r)  BY <1>2
  <2>2. r[1] \in Sessions  BY DEF Rows
  <2> QED  BY <1>2, <1>3, <1>5, <2>1, <2>2 DEF Usable, RowAfter
<1>6. ASSUME NEW u, u # c.who \/ c.op \notin Issuers
      PROVE  Live(u)' \subseteq Live(u) /\ Renewable(u)' \subseteq Renewable(u)
  <2>1. ASSUME NEW r \in Rows, Usable(r)', owner'[r[1]] = u
        PROVE  Usable(r) /\ owner[r[1]] = u
    <3>1. r[1] \notin new  BY <1>2, <1>4, <1>6, <2>1
    <3> QED  BY <1>5, <2>1, <3>1
  <2>2. Live(u)' \subseteq Live(u)  BY <2>1 DEF Live
  <2> QED  BY <2>2 DEF Renewable
\* All that its user had before has been revoked.
<1>7. ASSUME c.op \in Issuers, c.who \notin crossed,
             NEW r \in Renewable(c.who)
      PROVE  r \in c.kills
  <2>1. Knows(c)
        BY <1>1, <1>7 DEF Informed, UnderWay, Sessional
  <2>2. r \in Live(c.who)  BY <1>7 DEF Renewable
  <2> QED  BY <1>1, <1>7, <2>1, <2>2 DEF Knows, Issuers
<1>8. ASSUME NEW s \in new, NEW t \in Sessions \ new,
             Usable(<<t, "refresh">>)', owner'[s] = owner'[t],
             owner'[s] \notin crossed
      PROVE  FALSE
  <2> DEFINE r == <<t, "refresh">>
  <2>1. r \in Rows /\ r[1] = t /\ r[2] = "refresh"  BY DEF Rows
  <2>2. owner'[s] = c.who  BY <1>2, <1>4
  <2>3. Usable(r) /\ r \notin c.kills /\ owner[t] = c.who
        BY <1>5, <1>8, <2>1, <2>2
  <2>4. r \in Renewable(c.who)  BY <2>1, <2>3 DEF Renewable, Live
  <2> QED  BY <1>4, <1>7, <1>8, <2>2, <2>3, <2>4
<1>9. OneRefreshToken'
  <2> SUFFICES ASSUME NEW s \in Sessions, NEW t \in Sessions,
                      Usable(<<s, "refresh">>)', Usable(<<t, "refresh">>)',
                      owner'[s] = owner'[t], owner'[s] \notin crossed
               PROVE  s = t
      BY <1>3 DEF OneRefreshToken
  <2>1. CASE s \in new /\ t \in new  BY <1>4, <2>1
  <2>2. CASE s \in new /\ t \notin new  BY <1>8, <2>2
  <2>3. CASE s \notin new /\ t \in new  BY <1>8, <2>3
  <2>4. CASE s \notin new /\ t \notin new
    <3>1. /\ <<s, "refresh">> \in Rows /\ <<s, "refresh">>[1] = s
          /\ <<t, "refresh">> \in Rows /\ <<t, "refresh">>[1] = t
          BY DEF Rows
    <3>2. /\ Usable(<<s, "refresh">>) /\ owner'[s] = owner[s]
          /\ Usable(<<t, "refresh">>) /\ owner'[t] = owner[t]
          BY <1>5, <2>4, <3>1
    <3> QED  BY <3>2 DEF Single, OneRefreshToken
  <2> QED  BY <2>1, <2>2, <2>3, <2>4
<1>10. ASSUME NEW p \in Requests, p # q
       PROVE  /\ req'[p].pc = req[p].pc /\ req'[p].op = req[p].op
              /\ req'[p].who = req[p].who /\ req'[p].by = req[p].by
              /\ req'[p].found = req[p].found /\ req'[p].kills = req[p].kills
  <2> DEFINE b == /\ req[p].barred
                  /\ ~EntitledBy(req[p].op, account'[req[p].who],
                                 role'[req[p].who])
  <2>1. req'[p] = [req[p] EXCEPT !.barred = b]  BY <1>10 DEF Commit
  <2>2. req[p] \in Request  BY DEF Types, TypeOK
  <2> HIDE DEF b
  <2> QED  BY <2>1, <2>2 DEF Request
<1>11. req'[q] = Idle  BY DEF Commit
<1>12. \A p \in Requests : UnderWay(req'[p]) =>
           p # q /\ UnderWay(req[p]) /\ req'[p].who = req[p].who
       BY <1>10, <1>11, IdleInformed DEF UnderWay
<1>13. OneAtATime'
       BY <1>3, <1>12 DEF Single, OneAtATime, Meets, UnderWay
<1>14. ASSUME NEW p \in Requests PROVE Informed(req[p])'
  <2> SUFFICES ASSUME UnderWay(req'[p]), req'[p].who \notin crossed
               PROVE  Knows(req[p])'
      BY <1>3 DEF Informed, UnderWay
  <2>1. p # q /\ UnderWay(req[p]) /\ req'[p].who = req[p].who  BY <1>12
  <2>2. Knows(req[p])  BY <2>1 DEF Single, Informed
  <2>3. req[p].who # c.who \/ c.op \notin Issuers
    <3>1. SUFFICES ASSUME req[p].who = c.who, c.op \in Issuers PROVE FALSE
          OBVIOUS
    <3>2. UnderWay(c)  BY <1>1, <3>1 DEF UnderWay, Sessional
    <3> QED  BY <2>1, <3>1, <3>2 DEF Single, OneAtATime, Meets
  <2>4. /\ Live(req[p].who)' \subseteq Live(req[p].who)
        /\ Renewable(req[p].who)' \subseteq Renewable(req[p].who)
    <3>1. PICK u : u = req[p].who  OBVIOUS
    <3>2. Live(u)' \subseteq Live(u) /\ Renewable(u)' \subseteq Renewable(u)
          BY <1>6, <2>3, <3>1
    <3>3. u = req'[p].who  BY <2>1, <3>1
    <3> QED  BY <3>1, <3>2, <3>3 DEF Live, Renewable
  <2> QED  BY <1>10, <2>1, <2>2, <2>4 DEF Knows
<1> QED  BY <1>9, <1>13, <1>14 DEF Single

LEMMA NextSingle == Types /\ Living /\ Single /\ [Next]_vars => Single'
<1> SUFFICES ASSUME Types, Living, Single, [Next]_vars PROVE Single'  OBVIOUS
<1>1. ASSUME NEW q \in Requests, Begin(q) PROVE Single'  BY <1>1, BeginSingle
<1>2. ASSUME NEW q \in Requests, Step(q) PROVE Single'
      BY <1>2, StatementSingle, CommitSingle
<1>3. ASSUME NEW q \in Requests, Abort(q) PROVE Single'
      BY <1>3, RefuseSingle DEF Abort
<1>4. ASSUME NEW r \in Rows, Expire(r) PROVE Single'
      BY <1>4, ShrinkSingle DEF Expire, Usable, UnderWay
<1>5. CASE Cleanup
  <2>1. \A r \in Rows : row'[r] \in {row[r], "gone"}  BY <1>5 DEF Cleanup
  <2> QED  BY <1>5, <2>1, ShrinkSingle DEF Cleanup, Usable, UnderWay
<1>6. CASE Stop
  <2>1. \A p \in Requests : req'[p] = Idle  BY <1>6 DEF Stop
  <2>2. \A p \in Requests : ~UnderWay(req'[p])  BY <2>1, IdleInformed
  <2> QED  BY <1>6, <2>2, ShrinkSingle
           DEF Stop, dbVars, Usable, UnderWay, Informed
<1>7. CASE SeedAdmin
      BY <1>7, ShrinkSingle DEF SeedAdmin, Usable, UnderWay
<1>8. CASE UNCHANGED vars
      BY <1>8, ShrinkSingle DEF vars, dbVars, Usable, UnderWay
<1> QED  BY <1>1, <1>2, <1>3, <1>4, <1>5, <1>6, <1>7, <1>8 DEF Next

LEMMA InitSingle == Init => Single
<1> SUFFICES ASSUME Init PROVE Single  OBVIOUS
<1>1. \A q \in Requests : ~UnderWay(req[q])  BY IdleInformed DEF Init
<1>2. OneRefreshToken
  <2> SUFFICES ASSUME NEW s \in Sessions, NEW t \in Sessions,
                      Usable(<<s, "refresh">>), owner[s] = owner[t]
               PROVE  s = t
      BY DEF OneRefreshToken
  <2>1. <<s, "refresh">> \in Rows /\ <<s, "refresh">>[1] = s  BY DEF Rows
  <2>2. owner[s] # NoUser  BY <2>1 DEF Init, Usable
  <2> QED  BY <2>2 DEF Init
<1> QED  BY <1>1, <1>2 DEF Single, OneAtATime, Meets, Informed

\* A user whose session requests never overlapped has one refresh token at
\* most, whatever other requests, expirations, failures and restarts come
\* between.
THEOREM RefreshTokensAreSingle == Spec => []OneRefreshToken
<1>1. Single => OneRefreshToken  BY DEF Single
<1> QED  BY InitTyped, NextTyped, InitLiving, NextLiving, InitSingle,
            NextSingle, <1>1, PTL DEF Spec

\* Under the same condition the commit of a logout leaves its user no token
\* that can be used, also none that was issued after the one it was asked with.
THEOREM LogoutsAreComplete == Spec => LogoutEndsSessions
<1>1. Types /\ Single =>
        \A q \in Requests :
          (/\ req[q].op = "logout" /\ req[q].who \notin crossed
           /\ Commit(q)) =>
            \A r \in Rows : owner[r[1]] = req[q].who => ~Usable(r)'
  <2> SUFFICES ASSUME Types, Single, NEW q \in Requests,
                      req[q].op = "logout", req[q].who \notin crossed,
                      Commit(q), NEW r \in Rows,
                      owner[r[1]] = req[q].who, Usable(r)'
               PROVE  FALSE
      OBVIOUS
  <2>1. UnderWay(req[q]) /\ req[q].pc = "written"
        BY DEF Commit, UnderWay, Sessional
  <2>2. Live(req[q].who) \subseteq req[q].kills
    <3>1. Knows(req[q])  BY <2>1 DEF Single, Informed
    <3> QED  BY <2>1, <3>1 DEF Knows
  <2>3. NewPair(req[q]) = {{}}  BY DEF NewPair, Issuers
  <2>4. row'[r] = RowAfter(req[q], {}, r) /\ expired' = expired
        BY <2>3 DEF Commit
  <2>5. Usable(r) /\ r \notin req[q].kills
        BY <2>4 DEF RowAfter, Usable
  <2> QED  BY <2>2, <2>5 DEF Live
<1> QED  BY InitTyped, NextTyped, NextLiving, InitLiving, InitSingle,
            NextSingle, <1>1, PTL DEF Spec, LogoutEndsSessions
=============================================================================
