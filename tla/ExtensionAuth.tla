--------------------------- MODULE ExtensionAuth ---------------------------
(***************************************************************************)
(* Installs of the browser extension and their tokens: registration,       *)
(* renewal and logout by the extension, blacklisting and revocation by     *)
(* admins, the check of a token on each call, and the cleanup.             *)
(*                                                                         *)
(* Each request runs in one transaction (get_db) at READ COMMITTED: its    *)
(* reads see what has been committed, its UPDATEs take row locks until it  *)
(* ends, and what it writes is seen by others once it commits.  An install *)
(* is named by its Google account (google_sub is unique).  The ORM writes  *)
(* only the columns whose value differs from the one the request read.     *)
(* An UPDATE by a condition finds its rows when it starts; once it has the *)
(* locks it takes those that still match, and none that came meanwhile.    *)
(***************************************************************************)
EXTENDS Integers, FiniteSets

CONSTANTS
  Accounts,   \* the Google accounts that the allow-list lets in
  Domain,     \* the accounts of the domain that admins may blacklist
  NoAccount,  \* the owner of a token that has not been issued
  Tokens,     \* the tokens that can be drawn
  Requests,   \* the requests made, each at most once
  Ops,        \* what is asked
  Exclusive   \* requests about one install do not overlap

AllOps == {"register", "renew", "logout", "call",
           "blacklist", "unblacklist", "revoke", "blacklistDomain"}

ASSUME DomainAssumption  == Domain \subseteq Accounts
ASSUME AccountAssumption == NoAccount \notin Accounts
ASSUME ChoiceAssumption  == Ops \subseteq AllOps /\ Exclusive \in BOOLEAN

VARIABLES
  install,  \* the committed status of each account's install
  state,    \* the committed row of each token
  owner,    \* the install of each token
  expired,  \* the tokens whose time is over
  op,       \* what each request asks
  scope,    \* the installs it is about
  bearer,   \* the token it carries
  seen,     \* the status it has read
  ids,      \* the installs whose tokens it revokes
  found,    \* the rows its UPDATE has found
  locks,    \* the install rows it has updated
  kills,    \* the token rows it has revoked, not yet committed
  pc,       \* how far it is
  barred    \* history: its install has been blacklisted ever since it began

dbVars  == <<install, state, owner, expired>>
askVars == <<op, scope, bearer>>
vars == <<dbVars, askVars, seen, ids, found, locks, kills, pc, barred>>

Statuses    == {"none", "active", "blacklisted"}
TokenStates == {"unissued", "valid", "revoked", "deleted"}
Running     == {"inserting", "searching", "updating", "updated", "revoking",
                "authenticated", "rotating", "written"}
Ended       == {"done", "admitted", "refused"}

TypeOK ==
  /\ install \in [Accounts -> Statuses]
  /\ state \in [Tokens -> TokenStates]
  /\ owner \in [Tokens -> Accounts \cup {NoAccount}]
  /\ expired \subseteq Tokens
  /\ op \in [Requests -> AllOps]
  /\ scope \in [Requests -> SUBSET Accounts]
  /\ bearer \in [Requests -> SUBSET Tokens]
  /\ seen \in [Requests -> Statuses]
  /\ ids \in [Requests -> SUBSET Accounts]
  /\ found \in [Requests -> SUBSET (Accounts \cup Tokens)]
  /\ locks \in [Requests -> SUBSET Accounts]
  /\ kills \in [Requests -> SUBSET Tokens]
  /\ pc \in [Requests -> {"idle"} \cup Running \cup Ended]
  /\ barred \in [Requests -> BOOLEAN]

\* Installs may be there; their tokens have all been deleted as expired.
Init ==
  /\ install \in [Accounts -> Statuses]
  /\ state = [t \in Tokens |-> "unissued"]
  /\ owner = [t \in Tokens |-> NoAccount]
  /\ expired = {}
  /\ op = [q \in Requests |-> "call"]
  /\ scope = [q \in Requests |-> {}]
  /\ bearer = [q \in Requests |-> {}]
  /\ seen = [q \in Requests |-> "none"]
  /\ ids = [q \in Requests |-> {}]
  /\ found = [q \in Requests |-> {}]
  /\ locks = [q \in Requests |-> {}]
  /\ kills = [q \in Requests |-> {}]
  /\ pc = [q \in Requests |-> "idle"]
  /\ barred = [q \in Requests |-> FALSE]

Busy(q)  == pc[q] \in Running
Valid(t) == state[t] = "valid" /\ t \notin expired      \* is_valid
Exists(t) == state[t] \in {"valid", "revoked"}
Unrevoked(as) == {t \in Tokens : state[t] = "valid" /\ owner[t] \in as}

\* An UPDATE of the row waits for the transaction that has updated it.
InstallLocked(a) == \E q \in Requests : a \in locks[q]
TokenLocked(t)   == \E q \in Requests : t \in kills[q]

-----------------------------------------------------------------------------
(***************************************************************************)
(* The first read of a request.  One that ends there with an error, or     *)
(* with nothing to do, changes nothing and is left out.                    *)
(***************************************************************************)
GoTo(q, label) == pc' = [pc EXCEPT ![q] = label]

Ask(q, o, as, ts, label) ==
  /\ o \in Ops /\ pc[q] = "idle"
  /\ Exclusive => \A p \in Requests : Busy(p) => scope[p] \cap as = {}
  /\ op' = [op EXCEPT ![q] = o]
  /\ scope' = [scope EXCEPT ![q] = as]
  /\ bearer' = [bearer EXCEPT ![q] = ts]
  /\ barred' = [barred EXCEPT ![q] = \E a \in as : install[a] = "blacklisted"]
  /\ GoTo(q, label)
  /\ UNCHANGED <<dbVars, found, locks, kills>>

\* The read of the install by register and by the admins' operations, which
\* revoke the tokens of the installs ts.
ReadInstall(q, a) ==
  /\ seen' = [seen EXCEPT ![q] = install[a]]
  /\ ids' = [ids EXCEPT ![q] = {a}]

\* Mutant: the status is not looked at.
RegisterUnchecked(q, a) ==
  /\ Ask(q, "register", {a}, {},
         IF install[a] = "none" THEN "inserting" ELSE "updating")
  /\ ReadInstall(q, a)

\* register, once Google has vouched for the account and the allow-list too.
Register(q, a) ==
  /\ Ask(q, "register", {a}, {},
         CASE install[a] = "none"        -> "inserting"
           [] install[a] = "active"      -> "updating"
           [] install[a] = "blacklisted" -> "refused")
  /\ ReadInstall(q, a)

Blacklist(q, a) ==
  /\ install[a] # "none"
  /\ Ask(q, "blacklist", {a}, {}, "updating")
  /\ ReadInstall(q, a)

\* No column differs if the install is active: there is no UPDATE.
Unblacklist(q, a) ==
  /\ install[a] # "none"
  /\ Ask(q, "unblacklist", {a}, {},
         IF install[a] = "blacklisted" THEN "updating" ELSE "written")
  /\ ReadInstall(q, a)

RevokeTokens(q, a) ==
  /\ install[a] # "none"
  /\ Ask(q, "revoke", {a}, {}, "updated")
  /\ ReadInstall(q, a)

ActiveInDomain == {a \in Domain : install[a] = "active"}

\* matching_domain_ids.
BlacklistDomain(q) ==
  /\ ActiveInDomain # {}
  /\ Ask(q, "blacklistDomain", Domain, {}, "searching")
  /\ ids' = [ids EXCEPT ![q] = ActiveInDomain]
  /\ UNCHANGED seen

\* require_install: the token row.  Calls and renew.
Authenticate(q, o, t) ==
  /\ o \in {"call", "renew"}
  /\ Valid(t)
  /\ Ask(q, o, {owner[t]}, {t}, "authenticated")
  /\ UNCHANGED <<seen, ids>>

\* require_install_for_logout: any token row will do.
Logout(q, t) ==
  /\ Exists(t)
  /\ Ask(q, "logout", {owner[t]}, {t}, "rotating")
  /\ UNCHANGED <<seen, ids>>

-----------------------------------------------------------------------------
(***************************************************************************)
(* The statements that follow.                                             *)
(***************************************************************************)

\* Mutant: the status is not looked at.
AdmitUnchecked(q) ==
  /\ pc[q] = "authenticated"
  /\ GoTo(q, IF op[q] = "call" THEN "admitted" ELSE "rotating")
  /\ UNCHANGED <<dbVars, askVars, seen, ids, found, locks, kills, barred>>

\* require_install: the install row.
Admit(q) ==
  /\ pc[q] = "authenticated"
  /\ GoTo(q, IF \E a \in scope[q] : install[a] = "blacklisted" THEN "refused"
             ELSE IF op[q] = "call" THEN "admitted" ELSE "rotating")
  /\ UNCHANGED <<dbVars, askVars, seen, ids, found, locks, kills, barred>>

\* An insert of the same account that has not been committed.
Inserted(p, a) == /\ op[p] = "register" /\ seen[p] = "none"
                  /\ pc[p] = "written" /\ a \in scope[p]

\* The INSERT of register waits for another one of the same account, and
\* violates the unique index if there is an install by then.
InsertInstall(q) ==
  /\ pc[q] = "inserting"
  /\ \A p \in Requests, a \in scope[q] : ~Inserted(p, a)
  /\ GoTo(q, IF \A a \in scope[q] : install[a] = "none" THEN "written"
                                                        ELSE "refused")
  /\ UNCHANGED <<dbVars, askVars, seen, ids, found, locks, kills, barred>>

\* blacklist_domain looks for active installs again.
FindInstalls(q) ==
  /\ pc[q] = "searching"
  /\ found' = [found EXCEPT ![q] = ActiveInDomain]
  /\ GoTo(q, "updating")
  /\ UNCHANGED <<dbVars, askVars, seen, ids, locks, kills, barred>>

\* The UPDATE of installs: register, blacklist and unblacklist go by id.
\* register writes nothing if email, version and environment are the same.
UpdateInstalls(q) ==
  /\ pc[q] = "updating"
  /\ \E rows \in CASE op[q] = "blacklistDomain" -> {found[q] \cap ActiveInDomain}
                   [] op[q] = "register" -> {scope[q], {}}
                   [] OTHER -> {scope[q]} :
       /\ \A a \in rows : ~InstallLocked(a)
       /\ locks' = [locks EXCEPT ![q] = rows]
  /\ GoTo(q, IF op[q] = "unblacklist" THEN "written" ELSE "updated")
  /\ UNCHANGED <<dbVars, askVars, seen, ids, found, kills, barred>>

\* revoke_all_for_install(s): the tokens that are there and not revoked.
FindTokens(q) ==
  /\ pc[q] = "updated"
  /\ found' = [found EXCEPT ![q] = Unrevoked(ids[q])]
  /\ GoTo(q, "revoking")
  /\ UNCHANGED <<dbVars, askVars, seen, ids, locks, kills, barred>>

\* Mutant: the ids of the installs are taken for those of the tokens.
RevokeAllById(q) ==
  /\ pc[q] = "revoking"
  /\ kills' = [kills EXCEPT ![q] = ids[q]]
  /\ GoTo(q, "written")
  /\ UNCHANGED <<dbVars, askVars, seen, ids, found, locks, barred>>

RevokeAll(q) ==
  /\ pc[q] = "revoking"
  /\ \A t \in found[q] : ~TokenLocked(t)
  /\ kills' = [kills EXCEPT ![q] = found[q] \cap Unrevoked(ids[q])]
  /\ GoTo(q, "written")
  /\ UNCHANGED <<dbVars, askVars, seen, ids, found, locks, barred>>

\* Mutant: the old token stays.
RevokeOwnMissing(q) ==
  /\ pc[q] = "rotating"
  /\ GoTo(q, "written")
  /\ UNCHANGED <<dbVars, askVars, seen, ids, found, locks, kills, barred>>

\* revoke_by_hash, of renew and logout: whether it is revoked or not.
RevokeOwn(q) ==
  /\ pc[q] = "rotating"
  /\ \A t \in bearer[q] : ~TokenLocked(t)
  /\ kills' = [kills EXCEPT ![q] = {t \in bearer[q] : Exists(t)}]
  /\ GoTo(q, "written")
  /\ UNCHANGED <<dbVars, askVars, seen, ids, found, locks, barred>>

-----------------------------------------------------------------------------
(***************************************************************************)
(* The end of a transaction.                                               *)
(***************************************************************************)

\* The status an install has once q commits.
StatusAfter(q, a) ==
  CASE op[q] = "register" /\ seen[q] = "none" /\ a \in scope[q] -> "active"
    [] op[q] = "blacklistDomain" /\ a \in locks[q] -> "blacklisted"
    [] op[q] = "blacklist" /\ a \in locks[q] /\ seen[q] = "active" ->
         "blacklisted"
    [] op[q] = "unblacklist" /\ a \in locks[q] -> "active"
    [] OTHER -> install[a]

\* register and renew issue a token, a new one.
Issued(q) == IF op[q] \in {"register", "renew"}
             THEN {{t} : t \in {u \in Tokens : state[u] = "unissued"}}
             ELSE {{}}

Commit(q) ==
  /\ pc[q] = "written"
  /\ install' = [a \in Accounts |-> StatusAfter(q, a)]
  /\ \E new \in Issued(q) :
       /\ state' = [t \in Tokens |-> IF t \in new THEN "valid"
                                     ELSE IF t \in kills[q] THEN "revoked"
                                     ELSE state[t]]
       /\ \E a \in scope[q] :
            owner' = [t \in Tokens |-> IF t \in new THEN a ELSE owner[t]]
  /\ barred' = [p \in Requests |->
                  barred[p] /\ \E a \in scope[p] : install'[a] = "blacklisted"]
  /\ locks' = [locks EXCEPT ![q] = {}]
  /\ kills' = [kills EXCEPT ![q] = {}]
  /\ GoTo(q, "done")
  /\ UNCHANGED <<expired, askVars, seen, ids, found>>

\* Mutant: the session is neither rolled back nor closed.
AbortOpen(q) ==
  /\ Busy(q)
  /\ GoTo(q, "refused")
  /\ UNCHANGED <<dbVars, askVars, seen, ids, found, locks, kills, barred>>

\* A statement or the commit fails.
Abort(q) ==
  /\ Busy(q)
  /\ locks' = [locks EXCEPT ![q] = {}]
  /\ kills' = [kills EXCEPT ![q] = {}]
  /\ GoTo(q, "refused")
  /\ UNCHANGED <<dbVars, askVars, seen, ids, found, barred>>

\* Time passes.
Expire(t) ==
  /\ state[t] # "unissued"
  /\ expired' = expired \cup {t}
  /\ UNCHANGED <<install, state, owner, askVars, seen, ids, found, locks, kills, pc,
                 barred>>

\* The background loop deletes expired rows.
Cleanup ==
  LET old == {t \in expired : Exists(t)}
  IN  /\ old # {} /\ \A t \in old : ~TokenLocked(t)
      /\ state' = [t \in Tokens |-> IF t \in old THEN "deleted" ELSE state[t]]
      /\ UNCHANGED <<install, owner, expired, askVars, seen, ids, found, locks, kills,
                     pc, barred>>

-----------------------------------------------------------------------------
Begin(q) ==
  \/ \E a \in Accounts : \/ Register(q, a)
                         \/ Blacklist(q, a)
                         \/ Unblacklist(q, a)
                         \/ RevokeTokens(q, a)
  \/ BlacklistDomain(q)
  \/ \E t \in Tokens : \/ \E o \in Ops : Authenticate(q, o, t)
                       \/ Logout(q, t)

Step(q) ==
  \/ Admit(q)
  \/ InsertInstall(q)
  \/ FindInstalls(q)
  \/ UpdateInstalls(q)
  \/ FindTokens(q)
  \/ RevokeAll(q)
  \/ RevokeOwn(q)
  \/ Commit(q)

Next ==
  \/ \E q \in Requests : Begin(q) \/ Step(q) \/ Abort(q)
  \/ \E t \in Tokens : Expire(t)
  \/ Cleanup

Spec == Init /\ [][Next]_vars

\* The event loop runs every ready handler, and a statement gets its lock
\* once the holder has ended.  Nobody has to ask, fail or clean up.
FairSpec == Spec /\ \A q \in Requests : WF_vars(Step(q))

-----------------------------------------------------------------------------
(***************************************************************************)
(* Properties.                                                             *)
(***************************************************************************)

\* "Every blacklist operation revokes the install's tokens": no token of a
\* blacklisted install can be used, not even after unblacklist.
BlacklistedHasNoToken ==
  \A t \in Tokens : Valid(t) => install[owner[t]] # "blacklisted"

\* Registering again and renewing replace the token: an install has one.
OneTokenPerInstall ==
  \A s, t \in Tokens : (Valid(s) /\ Valid(t) /\ owner[s] = owner[t]) => s = t

\* An install that is blacklisted from the start of a request to its end gets
\* neither an answer nor a token, whatever tokens it has kept by overlaps.
AccessIsCut ==
  \A q \in Requests :
    (/\ op[q] \in {"register", "renew", "call"}
     /\ pc[q] \in {"done", "admitted", "rotating", "written"}) => ~barred[q]

\* Every request ends: the order of the locks (installs, then tokens) keeps
\* registrations and blacklistings from waiting on each other.
RequestsEnd == \A q \in Requests : Busy(q) ~> ~Busy(q)
=============================================================================
