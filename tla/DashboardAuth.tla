--------------------------- MODULE DashboardAuth ---------------------------
(***************************************************************************)
(* Users of the dashboard and their token pairs: registration, login,      *)
(* refresh and logout, the check of a token, the administration of users,  *)
(* the cleanup, and the start that seeds an admin.                         *)
(*                                                                         *)
(* A request is one transaction at READ COMMITTED, as in ExtensionAuth:    *)
(* its steps are the statements that others can come between.  A user is   *)
(* an id, used once; SeedUsers are the ids that carry the email of the     *)
(* configured admin.                                                       *)
(***************************************************************************)
EXTENDS Integers, FiniteSets

CONSTANTS
  Users,      \* the ids users can get
  SeedUsers,  \* those with the configured admin's email
  NoUser,     \* the owner of a pair that has not been issued
  Sessions,   \* the token pairs that can be issued
  Requests,   \* the requests that can be under way at a time
  Ops,        \* what is asked
  MaxAsked    \* bound: how many requests there are

AdminOps == {"create", "update", "delete"}
Issuers  == {"register", "login", "refresh"}
AllOps   == AdminOps \cup Issuers \cup {"logout", "call"}

ASSUME SeedAssumption   == SeedUsers \subseteq Users
ASSUME NoUserAssumption == NoUser \notin Users
ASSUME OpsAssumption    == Ops \subseteq AllOps
ASSUME BoundAssumption  == MaxAsked \in Nat

Roles    == {"admin", "analyst"}
Accounts == {"none", "active", "inactive", "deleted"}
Rows     == Sessions \X {"access", "refresh"}     \* the table of tokens

\* The columns an update sends; "asRead" if not sent or sent as it was.
Changes == [role : Roles \cup {"asRead"},
            account : {"active", "inactive", "asRead"}]
Nothing == [role |-> "asRead", account |-> "asRead"]

VARIABLES
  phase,    \* of the application
  account,  \* the committed row of each user: whether it is there, active
  role,     \* and its role
  row,      \* the committed row of each token
  owner,    \* the user of each pair
  expired,  \* the tokens whose time is over
  req,      \* the requests under way
  asked,    \* how many there have been
  crossed   \* history: the users whose session requests have overlapped

dbVars == <<account, role, row, owner, expired>>
vars   == <<phase, dbVars, req, asked, crossed>>

Labels == {"idle", "verified", "creating", "targeting", "changing", "inserting",
           "matching", "revoking", "rotating", "issuing", "written"}

\* What a request keeps: how far it is, what it asks, the user it acts for and
\* the one it changes, the refresh token it trades, the change it makes, the tokens
\* its UPDATE has found and those it has revoked but not yet committed; and
\* whether its user has not been entitled ever since it began (history).
Request ==
  [pc : Labels, op : AllOps,
   who : Users \cup {NoUser}, about : Users \cup {NoUser},
   by : SUBSET Rows, want : Changes, found : SUBSET Rows, kills : SUBSET Rows,
   barred : BOOLEAN]

Idle == [pc |-> "idle", op |-> "call", who |-> NoUser, about |-> NoUser,
         by |-> {}, want |-> Nothing, found |-> {}, kills |-> {},
         barred |-> FALSE]

TypeOK ==
  /\ phase \in {"up", "starting", "crashed"}
  /\ account \in [Users -> Accounts]
  /\ role \in [Users -> Roles]
  /\ row \in [Rows -> {"unissued", "valid", "revoked", "gone"}]
  /\ owner \in [Sessions -> Users \cup {NoUser}]
  /\ expired \subseteq Rows
  /\ req \in [Requests -> Request]
  /\ asked \in 0 .. MaxAsked
  /\ crossed \subseteq Users

\* The application has been started once, some analysts may be registered,
\* and everybody may have logged in once.
Init ==
  /\ phase = "up"
  /\ \E a \in SeedUsers, others \in SUBSET (Users \ SeedUsers) :
       /\ account = [u \in Users |-> IF u \in others \cup {a} THEN "active"
                                                             ELSE "none"]
       /\ role = [u \in Users |-> IF u = a THEN "admin" ELSE "analyst"]
       /\ owner \in [Sessions -> others \cup {a, NoUser}]
  /\ \A s, t \in Sessions : (s # t /\ owner[s] = owner[t]) => owner[s] = NoUser
  /\ row = [r \in Rows |-> IF owner[r[1]] = NoUser THEN "unissued" ELSE "valid"]
  /\ expired = {}
  /\ req = [q \in Requests |-> Idle]
  /\ asked = 0
  /\ crossed = {}

There(u)  == account[u] \in {"active", "inactive"}
Usable(r) == row[r] = "valid" /\ r \notin expired       \* is_valid
OwnRows(u) == {r \in Rows : owner[r[1]] = u /\ row[r] \in {"valid", "revoked"}}

\* The unique index on the email.
SameEmail(u) == IF u \in SeedUsers THEN SeedUsers ELSE {u}
EmailFree(u) == \A v \in SameEmail(u) : ~There(v)

\* What a transaction that has not committed keeps others from.
Inserted(u)  == \E p \in Requests : /\ req[p].op \in {"register", "create"}
                                    /\ req[p].pc \in {"issuing", "written"}
                                    /\ req[p].about = u
Deleted(u)   == \E p \in Requests : /\ req[p].op = "delete"
                                    /\ req[p].pc = "written"
                                    /\ req[p].about = u
Updated(u)   == \E p \in Requests : /\ req[p].op = "update"
                                    /\ req[p].pc = "written"
                                    /\ req[p].about = u
PairAdded(u) == \E p \in Requests : /\ req[p].op \in Issuers
                                    /\ req[p].pc = "written"
                                    /\ req[p].who = u
RowLocked(r) == \/ \E p \in Requests : r \in req[p].kills
                \/ owner[r[1]] # NoUser /\ Deleted(owner[r[1]])

\* Whom the checks are to let through, by the account and the role.
EntitledBy(o, status, r) ==
  CASE o \in {"register", "logout"} -> TRUE
    [] o \in AdminOps -> status = "active" /\ r = "admin"
    [] OTHER -> status = "active"

Entitled(o, u) == EntitledBy(o, account[u], role[u])

-----------------------------------------------------------------------------
(***************************************************************************)
(* The first read of a request; one that ends there is left out.           *)
(***************************************************************************)
Sessional == Issuers \cup {"logout"}

Ask(q, o, u, v, rs, label) ==
  /\ phase = "up" /\ o \in Ops /\ req[q].pc = "idle"
  /\ asked < MaxAsked /\ asked' = asked + 1
  /\ req' = [req EXCEPT ![q] =
       [Idle EXCEPT !.pc = label, !.op = o, !.who = u, !.about = v, !.by = rs,
                    !.barred = ~Entitled(o, u)]]
  /\ crossed' = IF /\ o \in Sessional
                   /\ \E p \in Requests : /\ req[p].pc # "idle"
                                          /\ req[p].op \in Sessional
                                          /\ req[p].who = u
                THEN crossed \cup {u} ELSE crossed
  /\ UNCHANGED <<phase, dbVars>>

\* email_exists and username_exists.
Register(q, u) ==
  /\ account[u] = "none" /\ EmailFree(u)
  /\ Ask(q, "register", u, u, {}, "inserting")

\* The password is right.
Login(q, u) ==
  /\ account[u] = "active"
  /\ Ask(q, "login", u, NoUser, {}, "matching")

\* verify_token: its signature, its time and its row.
Refresh(q, s) ==
  LET r == <<s, "refresh">>
  IN  Usable(r) /\ Ask(q, "refresh", owner[s], NoUser, {r}, "verified")

\* decode_token only: the row is not looked at.
Logout(q, s) ==
  LET r == <<s, "access">>
  IN  /\ row[r] # "unissued" /\ r \notin expired
      /\ Ask(q, "logout", owner[s], NoUser, {}, "matching")

Call(q, s) ==
  Usable(<<s, "access">>) /\ Ask(q, "call", owner[s], NoUser, {}, "verified")

\* An operation of an admin on the user v.
Administer(q, s, o, v) ==
  /\ o \in AdminOps /\ Usable(<<s, "access">>)
  /\ o = "create" => account[v] = "none"
  /\ Ask(q, o, owner[s], v, {}, "verified")

-----------------------------------------------------------------------------
(***************************************************************************)
(* The statements that follow.                                             *)
(***************************************************************************)
Become(q, next) == /\ req' = [req EXCEPT ![q] = next]
                   /\ UNCHANGED <<phase, dbVars, asked, crossed>>
GoTo(q, label)  == Become(q, [req[q] EXCEPT !.pc = label])
Refuse(q)       == Become(q, Idle)

\* The update q goes on to write the columns of u that differ.
PickChange(q, u) ==
  \E c \in Changes \ {Nothing} :
    /\ c.role # role[u] /\ c.account # account[u]
    /\ Become(q, [req[q] EXCEPT !.pc = "changing", !.want = c])

\* What follows the checks.  A request's own user is not read again.
Proceed(q) ==
  LET o == req[q].op   u == req[q].who   v == req[q].about
  IN  \/ o = "call" /\ GoTo(q, "written")
      \/ o = "refresh" /\ GoTo(q, "rotating")
      \/ o = "create" /\ GoTo(q, "creating")
      \/ o \in {"update", "delete"} /\ v # u /\ GoTo(q, "targeting")
      \/ o = "delete" /\ v = u /\ GoTo(q, "changing")
      \/ o = "update" /\ v = u /\ PickChange(q, u)

\* Mutant: an access token vouches for its user.
ReadUserUnchecked(q) ==
  /\ req[q].pc = "verified"
  /\ IF There(req[q].who) THEN Proceed(q) ELSE Refuse(q)

\* get_current_user, require_role and refresh: the user is there and active,
\* and an admin if need be.
ReadUser(q) ==
  /\ req[q].pc = "verified"
  /\ IF Entitled(req[q].op, req[q].who) THEN Proceed(q) ELSE Refuse(q)

\* get_user of the target.
ReadTarget(q) ==
  /\ req[q].pc = "targeting"
  /\ \/ ~There(req[q].about) /\ Refuse(q)
     \/ There(req[q].about) /\ req[q].op = "delete" /\ GoTo(q, "changing")
     \/ There(req[q].about) /\ req[q].op = "update"
          /\ PickChange(q, req[q].about)

\* create_user looks for the email, and chooses the role.
CheckEmail(q) ==
  /\ req[q].pc = "creating"
  /\ IF EmailFree(req[q].about)
     THEN \E r \in Roles :
            Become(q, [req[q] EXCEPT !.pc = "inserting",
                                     !.want = [Nothing EXCEPT !.role = r]])
     ELSE Refuse(q)

\* The INSERT of a user waits for whoever inserts or deletes the email.
InsertUser(q) ==
  LET u == req[q].about
  IN  /\ req[q].pc = "inserting"
      /\ \A v \in SameEmail(u) : ~Inserted(v) /\ ~Deleted(v)
      /\ IF EmailFree(u) /\ account[u] = "none"
         THEN GoTo(q, IF req[q].op = "register" THEN "issuing" ELSE "written")
         ELSE Refuse(q)

\* Mutant: only the tokens one of which has been shown.
FindAccessTokens(q) ==
  /\ req[q].pc = "matching"
  /\ Become(q, [req[q] EXCEPT !.pc = "revoking",
       !.found = {r \in OwnRows(req[q].who) :
                    row[r] = "valid" /\ r[2] = "access"}])

\* Mutant: the pairs are collected in place of the tokens.
FindPairs(q) ==
  /\ req[q].pc = "matching"
  /\ Become(q, [req[q] EXCEPT !.pc = "revoking",
       !.found = {r[1] : r \in {t \in OwnRows(req[q].who) : row[t] = "valid"}}])

\* revoke_all_user_tokens, of login and logout.
FindTokens(q) ==
  /\ req[q].pc = "matching"
  /\ Become(q, [req[q] EXCEPT !.pc = "revoking",
       !.found = {r \in OwnRows(req[q].who) : row[r] = "valid"}])

RevokeAll(q) ==
  /\ req[q].pc = "revoking"
  /\ \A r \in req[q].found : ~RowLocked(r)
  /\ Become(q, [req[q] EXCEPT
       !.pc = IF req[q].op = "login" THEN "issuing" ELSE "written",
       !.kills = {r \in req[q].found : row[r] = "valid"}])

\* Mutant: the token is decoded and left as it is.
RotateNothing(q) == req[q].pc = "rotating" /\ GoTo(q, "issuing")

\* revoke_token, of refresh.
RotateOwn(q) ==
  /\ req[q].pc = "rotating"
  /\ \A r \in req[q].by : ~RowLocked(r)
  /\ Become(q, [req[q] EXCEPT !.pc = "issuing",
                              !.kills = req[q].by \cap OwnRows(req[q].who)])

\* Mutant: no foreign key.
IssueUnchecked(q) == req[q].pc = "issuing" /\ GoTo(q, "written")

\* The INSERT of the pair: the foreign key waits for a DELETE of the user.
Issue(q) ==
  /\ req[q].pc = "issuing"
  /\ ~Deleted(req[q].who)
  /\ IF req[q].op = "register" \/ There(req[q].who) THEN GoTo(q, "written")
                                                    ELSE Refuse(q)

\* The UPDATE of a user that has gone raises.
ChangeUser(q) ==
  LET u == req[q].about
  IN  /\ req[q].pc = "changing" /\ req[q].op = "update"
      /\ ~Deleted(u) /\ ~Updated(u)
      /\ IF There(u) THEN GoTo(q, "written") ELSE Refuse(q)

\* The DELETE takes the user's tokens along.
DeleteUser(q) ==
  LET u == req[q].about
  IN  /\ req[q].pc = "changing" /\ req[q].op = "delete"
      /\ ~Deleted(u) /\ ~Updated(u) /\ ~PairAdded(u)
      /\ \A r \in OwnRows(u) : ~RowLocked(r)
      /\ GoTo(q, "written")

-----------------------------------------------------------------------------
(***************************************************************************)
(* The end of a transaction.                                               *)
(***************************************************************************)

\* The columns of the user that a request changes, once it commits.
AccountAfter(c) ==
  CASE c.op \in {"register", "create"} -> "active"
    [] c.op = "delete"                 -> "deleted"
    [] OTHER -> IF c.want.account = "asRead" THEN account[c.about]
                                             ELSE c.want.account

RoleAfter(c) ==
  CASE c.op = "register" -> "analyst"
    [] OTHER -> IF c.want.role = "asRead" THEN role[c.about] ELSE c.want.role

\* The pair it adds.
NewPair(c) == IF c.op \in Issuers
              THEN {{s} : s \in {t \in Sessions : owner[t] = NoUser}}
              ELSE {{}}

RowAfter(c, new, r) ==
  IF r[1] \in new THEN "valid"
  ELSE IF c.op = "delete" /\ r \in OwnRows(c.about) THEN "gone"
  ELSE IF r \in c.kills THEN "revoked"
  ELSE row[r]

Commit(q) ==
  LET c == req[q]
  IN  /\ c.pc = "written"
      /\ IF c.about = NoUser THEN UNCHANGED <<account, role>>
         ELSE /\ account' = [account EXCEPT ![c.about] = AccountAfter(c)]
              /\ role' = [role EXCEPT ![c.about] = RoleAfter(c)]
      /\ \E new \in NewPair(c) :
           /\ row' = [r \in Rows |-> RowAfter(c, new, r)]
           /\ owner' = [s \in Sessions |-> IF s \in new THEN c.who ELSE owner[s]]
      /\ req' = [p \in Requests |->
           IF p = q THEN Idle
           ELSE [req[p] EXCEPT !.barred =
                  /\ @
                  /\ ~EntitledBy(req[p].op, account'[req[p].who],
                                 role'[req[p].who])]]
      /\ UNCHANGED <<phase, expired, asked, crossed>>

\* A statement or the commit fails.
Abort(q) == req[q].pc # "idle" /\ Refuse(q)

\* Time passes; an access token ends before the refresh token of its pair.
Expire(r) ==
  /\ row[r] \in {"valid", "revoked"} /\ r \notin expired
  /\ r[2] = "refresh" => <<r[1], "access">> \in expired
  /\ expired' = expired \cup {r}
  /\ UNCHANGED <<phase, account, role, row, owner, req, asked, crossed>>

\* The background loop deletes expired rows.
Cleanup ==
  LET old == {r \in expired : row[r] \in {"valid", "revoked"}}
  IN  /\ phase = "up" /\ old # {} /\ \A r \in old : ~RowLocked(r)
      /\ row' = [r \in Rows |-> IF r \in old THEN "gone" ELSE row[r]]
      /\ UNCHANGED <<phase, account, role, owner, expired, req, asked, crossed>>

-----------------------------------------------------------------------------
(***************************************************************************)
(* Restart.                                                                *)
(***************************************************************************)

\* Requests that are not answered yet are lost.
Stop ==
  /\ phase = "up" /\ phase' = "starting"
  /\ req' = [q \in Requests |-> Idle]
  /\ UNCHANGED <<dbVars, asked, crossed>>

\* seed_admin: if nobody has the role, the configured admin is inserted; the
\* start fails if somebody has that email.
HasAdmin == \E u \in Users : There(u) /\ role[u] = "admin"

SeedAdmin ==
  /\ phase = "starting"
  /\ \/ HasAdmin /\ phase' = "up" /\ UNCHANGED <<account, role>>
     \/ \E u \in SeedUsers :
          /\ ~HasAdmin /\ ~EmailFree(u)
          /\ phase' = "crashed" /\ UNCHANGED <<account, role>>
     \/ \E u \in SeedUsers :
          /\ ~HasAdmin /\ EmailFree(u) /\ account[u] = "none"
          /\ phase' = "up"
          /\ account' = [account EXCEPT ![u] = "active"]
          /\ role' = [role EXCEPT ![u] = "admin"]
  /\ UNCHANGED <<row, owner, expired, req, asked, crossed>>

-----------------------------------------------------------------------------
Begin(q) ==
  \/ \E u \in Users : Register(q, u) \/ Login(q, u)
  \/ \E s \in Sessions : \/ Refresh(q, s)
                         \/ Logout(q, s)
                         \/ Call(q, s)
                         \/ \E o \in Ops, v \in Users : Administer(q, s, o, v)

Step(q) ==
  \/ ReadUser(q)
  \/ ReadTarget(q)
  \/ CheckEmail(q)
  \/ InsertUser(q)
  \/ FindTokens(q)
  \/ RevokeAll(q)
  \/ RotateOwn(q)
  \/ Issue(q)
  \/ ChangeUser(q)
  \/ DeleteUser(q)
  \/ Commit(q)

Next ==
  \/ \E q \in Requests : Begin(q) \/ Step(q) \/ Abort(q)
  \/ \E r \in Rows : Expire(r)
  \/ Cleanup
  \/ Stop
  \/ SeedAdmin

Spec == Init /\ [][Next]_vars

-----------------------------------------------------------------------------
(***************************************************************************)
(* Properties.                                                             *)
(***************************************************************************)

\* Deactivating, demoting and deleting leave tokens alone, so the row of the
\* user has to decide (dependencies.py get_current_user, require_role): who is
\* not entitled from the start of a request to its end gets no answer, no
\* token and no change through, whatever overlaps.
PowersAreCurrent ==
  \A q \in Requests : req[q].barred => req[q].pc \in {"idle", "verified"}

\* A user has one refresh token at most that can be used, unless requests
\* about its sessions have overlapped (login revokes all, refresh its own).
OneRefreshToken ==
  \A s, t \in Sessions :
    (/\ Usable(<<s, "refresh">>) /\ Usable(<<t, "refresh">>)
     /\ owner[s] = owner[t] /\ owner[s] \notin crossed) => s = t

\* A logout leaves its user no token that can be used, under that condition,
\* whatever token of the user it was asked with.
LogoutEndsSessions ==
  [][\A q \in Requests :
       (/\ req[q].op = "logout" /\ req[q].who \notin crossed
        /\ Commit(q)) =>
         \A r \in Rows : owner[r[1]] = req[q].who => ~Usable(r)']_vars

\* No token outlives its user, although pairs are issued while users are
\* being deleted: the foreign key and its cascade.
TokensHaveUsers ==
  \A r \in Rows : row[r] \in {"valid", "revoked"} =>
                    owner[r[1]] # NoUser /\ There(owner[r[1]])

\* .env.example: the admin is "auto-seeded on startup if no admin exists".  A
\* start does not fail for lack of an admin.
StartSucceeds == phase # "crashed"
=============================================================================
