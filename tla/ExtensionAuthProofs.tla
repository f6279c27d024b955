------------------------ MODULE ExtensionAuthProofs ------------------------
(***************************************************************************)
(* Proofs about ExtensionAuth, for every set of accounts, tokens and       *)
(* requests and every mix of operations.                                   *)
(***************************************************************************)
EXTENDS ExtensionAuth, TLAPS

-----------------------------------------------------------------------------
(***************************************************************************)
(* Parts of the inductive invariants.                                      *)
(***************************************************************************)

\* A token that has been issued belongs to an account, and only those are
\* revoked.
TokensAreOwned ==
  /\ \A t \in Tokens : state[t] # "unissued" => owner[t] \in Accounts
  /\ \A q \in Requests : \A t \in kills[q] : state[t] # "unissued"

\* The install of that account is there.
OwnersExist ==
  \A t \in Tokens : state[t] # "unissued" => install[owner[t]] # "none"

\* Which operations get to each place.
Phase(q) ==
  /\ pc[q] = "inserting" => op[q] = "register" /\ seen[q] = "none"
  /\ pc[q] = "searching" => op[q] = "blacklistDomain"
  /\ pc[q] = "updating" =>
       op[q] \in {"register", "blacklist", "unblacklist", "blacklistDomain"}
  /\ pc[q] \in {"updated", "revoking"} =>
       op[q] \in {"register", "blacklist", "revoke", "blacklistDomain"}
  /\ pc[q] = "authenticated" => op[q] \in {"call", "renew"}
  /\ pc[q] = "rotating" => op[q] \in {"renew", "logout"}

\* Requests at work are about different installs.
RequestsApart ==
  \A p, q \in Requests :
    (Busy(p) /\ Busy(q) /\ p # q) => scope[p] \cap scope[q] = {}

\* What a request has read of its installs is still so.
Know(q) ==
  /\ op[q] \in {"register", "blacklist", "unblacklist", "revoke"} =>
       ids[q] = scope[q] /\ \A a \in scope[q] : install[a] = seen[q]
  /\ op[q] = "register" => seen[q] # "blacklisted"
  /\ op[q] = "blacklistDomain" => scope[q] = Domain /\ ids[q] = ActiveInDomain
  /\ op[q] = "renew" => \A a \in scope[q] : install[a] # "none"
  /\ (op[q] = "renew" /\ pc[q] \in {"rotating", "written"}) =>
       \A a \in scope[q] : install[a] # "blacklisted"

\* A request has updated its own installs only.
Hold(q) ==
  /\ locks[q] \subseteq scope[q]
  /\ op[q] = "blacklistDomain" => locks[q] \subseteq ids[q]
  /\ pc[q] = "authenticated" => locks[q] = {}

\* No usable token of its installs escapes a request that must revoke them.
Cover(q) ==
  \A t \in Tokens : Valid(t) =>
    /\ (op[q] = "renew" /\ owner[t] \in scope[q]) => t \in bearer[q]
    /\ (op[q] = "renew" /\ pc[q] = "written" /\ owner[t] \in scope[q]) =>
         t \in kills[q]
    /\ (pc[q] = "revoking" /\ owner[t] \in ids[q]) => t \in found[q]
    /\ (/\ op[q] \in {"register", "blacklist", "blacklistDomain"}
        /\ pc[q] = "written" /\ owner[t] \in ids[q]) => t \in kills[q]

Agree(q) == IF Busy(q) THEN Phase(q) /\ Know(q) /\ Hold(q) /\ Cover(q)
                       ELSE locks[q] = {}

\* The inductive invariant behind the two token invariants.
TokensInv ==
  /\ OwnersExist
  /\ RequestsApart
  /\ \A q \in Requests : Agree(q)
  /\ BlacklistedHasNoToken
  /\ OneTokenPerInstall

\* A request whose installs have been blacklisted all along stays where the
\* status is looked at.
BarredStayOut ==
  \A q \in Requests : barred[q] =>
    /\ \E a \in scope[q] : install[a] = "blacklisted"
    /\ op[q] = "register" => pc[q] = "refused"
    /\ op[q] \in {"call", "renew"} => pc[q] \in {"authenticated", "refused"}

-----------------------------------------------------------------------------
(***************************************************************************)
(* Type correctness.                                                       *)
(***************************************************************************)

\* What a first read leaves.
LEMMA AskType ==
  ASSUME TypeOK, NEW q \in Requests, NEW o, NEW as \in SUBSET Accounts,
         NEW ts \in SUBSET Tokens, NEW label, Ask(q, o, as, ts, label),
         label \in Running \cup Ended,
         seen' \in [Requests -> Statuses],
         ids' \in [Requests -> SUBSET Accounts]
  PROVE  TypeOK'
<1>1. o \in AllOps
  BY ChoiceAssumption DEF Ask
<1>2. barred' \in [Requests -> BOOLEAN]
  BY DEF Ask, TypeOK
<1>3. /\ op' \in [Requests -> AllOps]
      /\ scope' \in [Requests -> SUBSET Accounts]
      /\ bearer' \in [Requests -> SUBSET Tokens]
      /\ pc' \in [Requests -> {"idle"} \cup Running \cup Ended]
  BY <1>1 DEF Ask, GoTo, TypeOK
<1>4. QED
  BY <1>2, <1>3 DEF Ask, dbVars, TypeOK

LEMMA TypeNext == TypeOK /\ TokensAreOwned /\ [Next]_vars => TypeOK'
<1> SUFFICES ASSUME TypeOK, TokensAreOwned, [Next]_vars PROVE TypeOK'
  OBVIOUS
<1> USE DEF dbVars, askVars
<1>1. ASSUME NEW q \in Requests, Begin(q) PROVE TypeOK'
  <2>1. ASSUME NEW a \in Accounts, ReadInstall(q, a)
        PROVE  /\ seen' \in [Requests -> Statuses]
               /\ ids' \in [Requests -> SUBSET Accounts]
    BY <2>1 DEF ReadInstall, TypeOK
  <2>2. ASSUME NEW a \in Accounts, Register(q, a) PROVE TypeOK'
    <3>1. install[a] \in Statuses
      BY DEF TypeOK
    <3>2. CASE install[a] = "none"
      <4>1. Ask(q, "register", {a}, {}, "inserting")
        BY <2>2, <3>2 DEF Register
      <4>2. QED
        BY <2>1, <2>2, <4>1, AskType DEF Register, Running
    <3>3. CASE install[a] = "active"
      <4>1. Ask(q, "register", {a}, {}, "updating")
        BY <2>2, <3>3 DEF Register
      <4>2. QED
        BY <2>1, <2>2, <4>1, AskType DEF Register, Running
    <3>4. CASE install[a] = "blacklisted"
      <4>1. Ask(q, "register", {a}, {}, "refused")
        BY <2>2, <3>4 DEF Register
      <4>2. QED
        BY <2>1, <2>2, <4>1, AskType DEF Register, Ended
    <3>5. QED
      BY <3>1, <3>2, <3>3, <3>4 DEF Statuses
  <2>3. ASSUME NEW a \in Accounts, Blacklist(q, a) PROVE TypeOK'
    BY <2>1, <2>3, AskType DEF Blacklist, Running
  <2>4. ASSUME NEW a \in Accounts, Unblacklist(q, a) PROVE TypeOK'
    <3> DEFINE label == IF install[a] = "blacklisted" THEN "updating"
                                                      ELSE "written"
    <3>1. label \in Running
      BY DEF Running
    <3>2. Ask(q, "unblacklist", {a}, {}, label)
      BY <2>4 DEF Unblacklist
    <3> HIDE DEF label
    <3>3. QED
      BY <2>1, <2>4, <3>1, <3>2, AskType DEF Unblacklist
  <2>5. ASSUME NEW a \in Accounts, RevokeTokens(q, a) PROVE TypeOK'
    BY <2>1, <2>5, AskType DEF RevokeTokens, Running
  <2>6. CASE BlacklistDomain(q)
    <3>1. ActiveInDomain \subseteq Accounts
      BY DomainAssumption DEF ActiveInDomain
    <3>2. /\ seen' \in [Requests -> Statuses]
          /\ ids' \in [Requests -> SUBSET Accounts]
      BY <2>6, <3>1 DEF BlacklistDomain, TypeOK
    <3>3. QED
      BY <2>6, <3>2, AskType, DomainAssumption DEF BlacklistDomain, Running
  <2>7. ASSUME NEW t \in Tokens, NEW o \in Ops, Authenticate(q, o, t)
        PROVE  TypeOK'
    <3>1. owner[t] \in Accounts
      BY <2>7 DEF Authenticate, Valid, TokensAreOwned
    <3>2. /\ seen' \in [Requests -> Statuses]
          /\ ids' \in [Requests -> SUBSET Accounts]
      BY <2>7 DEF Authenticate, TypeOK
    <3>3. QED
      BY <2>7, <3>1, <3>2, AskType DEF Authenticate, Running
  <2>8. ASSUME NEW t \in Tokens, Logout(q, t) PROVE TypeOK'
    <3>1. owner[t] \in Accounts
      BY <2>8 DEF Logout, Exists, TokensAreOwned
    <3>2. /\ seen' \in [Requests -> Statuses]
          /\ ids' \in [Requests -> SUBSET Accounts]
      BY <2>8 DEF Logout, TypeOK
    <3>3. QED
      BY <2>8, <3>1, <3>2, AskType DEF Logout, Running
  <2>9. QED
    BY <1>1, <2>2, <2>3, <2>4, <2>5, <2>6, <2>7, <2>8 DEF Begin
<1>2. ASSUME NEW q \in Requests, Step(q) PROVE TypeOK'
  <2> USE DEF GoTo, TypeOK, Running, Ended
  <2>1. CASE Admit(q)
    BY <2>1 DEF Admit
  <2>2. CASE InsertInstall(q)
    BY <2>2 DEF InsertInstall
  <2>3. CASE FindInstalls(q)
    BY <2>3, DomainAssumption DEF FindInstalls, ActiveInDomain
  <2>4. CASE UpdateInstalls(q)
    <3>1. locks' \in [Requests -> SUBSET Accounts]
      <4>1. found[q] \cap ActiveInDomain \subseteq Accounts
        BY DomainAssumption DEF ActiveInDomain
      <4>2. PICK rows \in SUBSET Accounts : locks' = [locks EXCEPT ![q] = rows]
        BY <2>4, <4>1 DEF UpdateInstalls
      <4>3. QED
        BY <4>2
    <3>2. QED
      BY <2>4, <3>1 DEF UpdateInstalls
  <2>5. CASE FindTokens(q)
    BY <2>5 DEF FindTokens, Unrevoked
  <2>6. CASE RevokeAll(q)
    BY <2>6 DEF RevokeAll, Unrevoked
  <2>7. CASE RevokeOwn(q)
    BY <2>7 DEF RevokeOwn
  <2>8. CASE Commit(q)
    <3>1. install' \in [Accounts -> Statuses]
      <4>1. ASSUME NEW a \in Accounts PROVE StatusAfter(q, a) \in Statuses
        BY DEF StatusAfter, Statuses
      <4>2. QED
        BY <2>8, <4>1 DEF Commit
    <3>2. PICK new \in Issued(q) :
            /\ state' = [t \in Tokens |-> IF t \in new THEN "valid"
                                          ELSE IF t \in kills[q] THEN "revoked"
                                          ELSE state[t]]
            /\ \E a \in scope[q] :
                 owner' = [t \in Tokens |-> IF t \in new THEN a ELSE owner[t]]
      BY <2>8 DEF Commit
    <3>3. state' \in [Tokens -> TokenStates]
      BY <3>2 DEF TokenStates
    <3>4. owner' \in [Tokens -> Accounts \cup {NoAccount}]
      BY <3>2
    <3>5. barred' \in [Requests -> BOOLEAN]
      BY <2>8 DEF Commit
    <3>6. QED
      BY <2>8, <3>1, <3>3, <3>4, <3>5 DEF Commit
  <2>9. QED
    BY <1>2, <2>1, <2>2, <2>3, <2>4, <2>5, <2>6, <2>7, <2>8 DEF Step
<1>3. ASSUME NEW q \in Requests, Abort(q) PROVE TypeOK'
  BY <1>3 DEF Abort, GoTo, TypeOK, Ended
<1>4. ASSUME NEW t \in Tokens, Expire(t) PROVE TypeOK'
  BY <1>4 DEF Expire, TypeOK
<1>5. CASE Cleanup
  BY <1>5 DEF Cleanup, TypeOK, TokenStates
<1>6. CASE UNCHANGED vars
  BY <1>6 DEF vars, TypeOK
<1>7. QED
  BY <1>1, <1>2, <1>3, <1>4, <1>5, <1>6 DEF Next

\* A token is issued to an install of the request.
LEMMA OwnersNext == TypeOK /\ TokensAreOwned /\ [Next]_vars => TokensAreOwned'
<1> SUFFICES ASSUME TypeOK, TokensAreOwned, [Next]_vars PROVE TokensAreOwned'
  OBVIOUS
<1>1. ASSUME NEW q \in Requests, Commit(q) PROVE TokensAreOwned'
  <2>1. PICK new \in Issued(q), a \in scope[q] :
          /\ state' = [t \in Tokens |-> IF t \in new THEN "valid"
                                        ELSE IF t \in kills[q] THEN "revoked"
                                        ELSE state[t]]
          /\ owner' = [t \in Tokens |-> IF t \in new THEN a ELSE owner[t]]
    BY <1>1 DEF Commit
  <2>2. a \in Accounts
    BY DEF TypeOK
  <2>3. \A t \in Tokens : state'[t] # "unissued" => owner'[t] \in Accounts
    BY <2>1, <2>2 DEF TokensAreOwned
  <2>4. \A t \in Tokens : state[t] # "unissued" => state'[t] # "unissued"
    BY <2>1
  <2>5. \A p \in Requests : kills'[p] \subseteq kills[p]
    BY <1>1 DEF Commit, TypeOK
  <2>6. \A p \in Requests : kills[p] \subseteq Tokens
    BY DEF TypeOK
  <2>7. QED
    BY <2>3, <2>4, <2>5, <2>6 DEF TokensAreOwned
<1>2. CASE Cleanup
  BY <1>2 DEF Cleanup, Exists, TokensAreOwned, TypeOK
<1>3. CASE UNCHANGED <<state, owner, kills>>
  BY <1>3 DEF TokensAreOwned
<1>4. ASSUME NEW q \in Requests, Begin(q) PROVE UNCHANGED <<state, owner, kills>>
  BY <1>4 DEF Begin, Register, Blacklist, Unblacklist, RevokeTokens,
    BlacklistDomain, Authenticate, Logout, Ask, dbVars
<1>5. ASSUME NEW q \in Requests, Step(q) PROVE TokensAreOwned'
  <2>1. CASE Admit(q) \/ InsertInstall(q) \/ FindInstalls(q)
              \/ UpdateInstalls(q) \/ FindTokens(q)
    BY <2>1 DEF Admit, InsertInstall, FindInstalls, UpdateInstalls, FindTokens,
      dbVars, TokensAreOwned
  <2>2. CASE RevokeAll(q)
    BY <2>2 DEF RevokeAll, Unrevoked, dbVars, TokensAreOwned, TypeOK
  <2>3. CASE RevokeOwn(q)
    BY <2>3 DEF RevokeOwn, Exists, dbVars, TokensAreOwned, TypeOK
  <2>4. QED
    BY <1>1, <1>5, <2>1, <2>2, <2>3 DEF Step
<1>6. ASSUME NEW q \in Requests, Abort(q) PROVE TokensAreOwned'
  BY <1>6 DEF Abort, dbVars, TokensAreOwned, TypeOK
<1>7. QED
  BY <1>2, <1>3, <1>4, <1>5, <1>6 DEF Next, Expire, vars, dbVars

\* Every variable keeps its type: what a request is about are accounts.  It
\* needs that the token a request carries has an owner.
THEOREM TypeCorrect == Spec => []TypeOK
<1>1. Init => TypeOK /\ TokensAreOwned
  BY DEF Init, TypeOK, TokensAreOwned, Statuses, TokenStates, AllOps
<1>2. TypeOK /\ TokensAreOwned /\ [Next]_vars => (TypeOK /\ TokensAreOwned)'
  BY TypeNext, OwnersNext
<1>3. QED
  BY <1>1, <1>2, PTL DEF Spec

-----------------------------------------------------------------------------
(***************************************************************************)
(* A blacklisted install is kept out, whatever overlaps.                   *)
(***************************************************************************)

LEMMA BarredInit == Init => BarredStayOut
  BY DEF Init, BarredStayOut

\* A first read of the installs as.
LEMMA BarredAsk ==
  ASSUME TypeOK, BarredStayOut, NEW q \in Requests, NEW o, NEW as, NEW ts,
         NEW label, Ask(q, o, as, ts, label),
         (\E a \in as : install[a] = "blacklisted") =>
           /\ o = "register" => label = "refused"
           /\ o \in {"call", "renew"} => label = "authenticated"
  PROVE  BarredStayOut'
<1> SUFFICES ASSUME NEW p \in Requests, barred'[p]
             PROVE  /\ \E a \in scope'[p] : install'[a] = "blacklisted"
                    /\ op'[p] = "register" => pc'[p] = "refused"
                    /\ op'[p] \in {"call", "renew"} =>
                         pc'[p] \in {"authenticated", "refused"}
  BY DEF BarredStayOut
<1>1. CASE p = q
  BY <1>1 DEF Ask, GoTo, dbVars, TypeOK
<1>2. CASE p # q
  BY <1>2 DEF Ask, GoTo, dbVars, TypeOK, BarredStayOut
<1>3. QED
  BY <1>1, <1>2

LEMMA BarredNext == TypeOK /\ BarredStayOut /\ [Next]_vars => BarredStayOut'
<1> SUFFICES ASSUME TypeOK, BarredStayOut, [Next]_vars PROVE BarredStayOut'
  OBVIOUS
<1>1. ASSUME NEW q \in Requests, Begin(q) PROVE BarredStayOut'
  <2>1. ASSUME NEW a \in Accounts, Register(q, a) PROVE BarredStayOut'
    <3> DEFINE label == CASE install[a] = "none"        -> "inserting"
                          [] install[a] = "active"      -> "updating"
                          [] install[a] = "blacklisted" -> "refused"
    <3>1. install[a] = "blacklisted" => label = "refused"
      OBVIOUS
    <3>2. Ask(q, "register", {a}, {}, label)
      BY <2>1 DEF Register
    <3> HIDE DEF label
    <3>3. QED
      BY <3>1, <3>2, BarredAsk
  <2>2. ASSUME NEW a \in Accounts,
               \/ Blacklist(q, a) \/ Unblacklist(q, a) \/ RevokeTokens(q, a)
        PROVE  BarredStayOut'
    BY <2>2, BarredAsk DEF Blacklist, Unblacklist, RevokeTokens
  <2>3. CASE BlacklistDomain(q)
    BY <2>3, BarredAsk DEF BlacklistDomain
  <2>4. ASSUME NEW t \in Tokens, NEW o \in Ops, Authenticate(q, o, t)
        PROVE  BarredStayOut'
    BY <2>4, BarredAsk DEF Authenticate
  <2>5. ASSUME NEW t \in Tokens, Logout(q, t) PROVE BarredStayOut'
    BY <2>5, BarredAsk DEF Logout
  <2>6. QED
    BY <1>1, <2>1, <2>2, <2>3, <2>4, <2>5 DEF Begin
<1>2. ASSUME NEW q \in Requests, Step(q) PROVE BarredStayOut'
  <2> USE DEF BarredStayOut, GoTo, dbVars, askVars, TypeOK
  <2>1. CASE Admit(q)
    BY <2>1 DEF Admit
  <2>2. CASE InsertInstall(q)
    BY <2>2 DEF InsertInstall
  <2>3. CASE FindInstalls(q)
    BY <2>3 DEF FindInstalls
  <2>4. CASE UpdateInstalls(q)
    BY <2>4 DEF UpdateInstalls
  <2>5. CASE FindTokens(q)
    BY <2>5 DEF FindTokens
  <2>6. CASE RevokeAll(q)
    BY <2>6 DEF RevokeAll
  <2>7. CASE RevokeOwn(q)
    BY <2>7 DEF RevokeOwn
  <2>8. CASE Commit(q)
    BY <2>8 DEF Commit
  <2>9. QED
    BY <1>2, <2>1, <2>2, <2>3, <2>4, <2>5, <2>6, <2>7, <2>8 DEF Step
<1>3. ASSUME NEW q \in Requests, Abort(q) PROVE BarredStayOut'
  BY <1>3 DEF Abort, GoTo, dbVars, askVars, TypeOK, BarredStayOut
<1>4. ASSUME NEW t \in Tokens, Expire(t) PROVE BarredStayOut'
  BY <1>4 DEF Expire, askVars, BarredStayOut
<1>5. CASE Cleanup
  BY <1>5 DEF Cleanup, askVars, BarredStayOut
<1>6. CASE UNCHANGED vars
  BY <1>6 DEF vars, dbVars, askVars, BarredStayOut
<1>7. QED
  BY <1>1, <1>2, <1>3, <1>4, <1>5, <1>6 DEF Next

\* "The status check cuts access": the token a blacklisted install has kept is
\* of no use, however the requests overlap.
THEOREM StatusCutsAccess == Spec => []AccessIsCut
<1>1. BarredStayOut => AccessIsCut
  BY DEF BarredStayOut, AccessIsCut
<1>2. QED
  BY <1>1, BarredInit, BarredNext, TypeCorrect, PTL DEF Spec

-----------------------------------------------------------------------------
(***************************************************************************)
(* The tokens of an install, when the requests about it do not overlap.    *)
(***************************************************************************)

\* A step of somebody else.
Unmoved(p) ==
  /\ op'[p] = op[p] /\ scope'[p] = scope[p] /\ bearer'[p] = bearer[p]
  /\ seen'[p] = seen[p] /\ ids'[p] = ids[p] /\ found'[p] = found[p]
  /\ locks'[p] = locks[p] /\ kills'[p] = kills[p] /\ pc'[p] = pc[p]

\* It disturbs a request only if it touches its installs or their tokens.
LEMMA OthersAgree ==
  ASSUME NEW p \in Requests, Agree(p), Unmoved(p),
         Busy(p) =>
           /\ \A a \in scope[p] : install'[a] = install[a]
           /\ \A t \in Tokens : (Valid(t)' /\ owner'[t] \in scope[p]) =>
                                  Valid(t) /\ owner[t] = owner'[t]
  PROVE  Agree(p)'
<1>1. CASE ~Busy(p)
  BY <1>1 DEF Agree, Unmoved, Busy
<1>2. CASE Busy(p)
  <2>1. Busy(p)' /\ Phase(p)' /\ Hold(p)'
    BY <1>2 DEF Agree, Unmoved, Busy, Phase, Hold
  <2>2. op[p] = "blacklistDomain" => ActiveInDomain' = ActiveInDomain
    BY <1>2 DEF Agree, Know, ActiveInDomain
  <2>3. Know(p)'
    BY <1>2, <2>2 DEF Agree, Unmoved, Know
  <2>4. ASSUME NEW t \in Tokens, Valid(t)',
               \/ op[p] = "renew" /\ owner'[t] \in scope[p]
               \/ /\ op[p] \in {"register", "blacklist", "revoke",
                                "blacklistDomain"}
                  /\ owner'[t] \in ids[p]
        PROVE  Valid(t) /\ owner[t] = owner'[t]
    <3>1. owner'[t] \in scope[p]
      BY <1>2, <2>4 DEF Agree, Know, ActiveInDomain
    <3>2. QED
      BY <1>2, <2>4, <3>1
  <2>5. Cover(p)'
    <3> SUFFICES ASSUME NEW t \in Tokens, Valid(t)'
                 PROVE  (/\ (op[p] = "renew" /\ owner[t] \in scope[p]) =>
                              t \in bearer[p]
                         /\ (op[p] = "renew" /\ pc[p] = "written"
                               /\ owner[t] \in scope[p]) => t \in kills[p]
                         /\ (pc[p] = "revoking" /\ owner[t] \in ids[p]) =>
                              t \in found[p]
                         /\ (/\ op[p] \in {"register", "blacklist",
                                           "blacklistDomain"}
                             /\ pc[p] = "written" /\ owner[t] \in ids[p]) =>
                              t \in kills[p])'
      BY DEF Cover
    <3>1. pc[p] = "revoking" =>
            op[p] \in {"register", "blacklist", "revoke", "blacklistDomain"}
      BY <1>2 DEF Agree, Phase
    <3>2. QED
      BY <1>2, <2>4, <3>1 DEF Agree, Unmoved, Cover
  <2>6. QED
    BY <2>1, <2>3, <2>5 DEF Agree
<1>3. QED
  BY <1>1, <1>2

\* A step that commits nothing: no token becomes usable, no request begins.
LEMMA QuietStep ==
  ASSUME TokensInv, install' = install, owner' = owner, scope' = scope,
         \A t \in Tokens : /\ Valid(t)' => Valid(t)
                           /\ state'[t] # "unissued" => state[t] # "unissued",
         \A p \in Requests : Busy(p)' => Busy(p),
         \A p \in Requests : Unmoved(p) \/ Agree(p)'
  PROVE  TokensInv'
<1>1. OwnersExist'
  BY DEF TokensInv, OwnersExist
<1>2. RequestsApart'
  BY DEF TokensInv, RequestsApart
<1>3. BlacklistedHasNoToken'
  BY DEF TokensInv, BlacklistedHasNoToken
<1>4. OneTokenPerInstall'
  BY DEF TokensInv, OneTokenPerInstall
<1>5. ASSUME NEW p \in Requests PROVE Agree(p)'
  BY <1>5, OthersAgree DEF TokensInv
<1>6. QED
  BY <1>1, <1>2, <1>3, <1>4, <1>5 DEF TokensInv

\* A first read: the new request is about installs nobody is at work on.
LEMMA TokensAsk ==
  ASSUME TypeOK, TokensInv, Exclusive, NEW q \in Requests, NEW o, NEW as,
         NEW ts, NEW label, Ask(q, o, as, ts, label),
         \A p \in Requests : p # q => seen'[p] = seen[p] /\ ids'[p] = ids[p],
         Agree(q)'
  PROVE  TokensInv'
<1>1. \A p \in Requests : p # q => Unmoved(p)
  BY DEF Ask, GoTo, Unmoved, TypeOK
<1>2. ASSUME NEW p \in Requests PROVE Agree(p)'
  BY <1>1, <1>2, OthersAgree DEF TokensInv, Ask, dbVars, Valid
<1>3. RequestsApart'
  <2>1. ASSUME NEW p \in Requests, p # q, Busy(p)' PROVE scope'[p] \cap as = {}
    BY <1>1, <2>1 DEF Ask, Busy, Unmoved
  <2>2. scope'[q] = as
    BY DEF Ask, TypeOK
  <2>3. ASSUME NEW p \in Requests, NEW r \in Requests, Busy(p)', Busy(r)',
               p # r, p # q, r # q
        PROVE  scope'[p] \cap scope'[r] = {}
    BY <1>1, <2>3 DEF TokensInv, RequestsApart, Busy, Unmoved
  <2>4. QED
    BY <2>1, <2>2, <2>3 DEF RequestsApart
<1>4. OwnersExist' /\ BlacklistedHasNoToken' /\ OneTokenPerInstall'
  BY DEF TokensInv, OwnersExist, BlacklistedHasNoToken, OneTokenPerInstall,
    Ask, dbVars, Valid
<1>5. QED
  BY <1>2, <1>3, <1>4 DEF TokensInv

\* What the first read leaves at the request itself.
LEMMA AskFields ==
  ASSUME TypeOK, TokensInv, NEW q \in Requests, NEW o, NEW as, NEW ts,
         NEW label, Ask(q, o, as, ts, label)
  PROVE  /\ op'[q] = o /\ scope'[q] = as /\ bearer'[q] = ts /\ pc'[q] = label
         /\ locks'[q] = {}
         /\ install' = install /\ state' = state /\ owner' = owner
         /\ expired' = expired
<1>1. locks[q] = {}
  BY DEF TokensInv, Agree, Busy, Ask, Running
<1>2. QED
  BY <1>1 DEF Ask, GoTo, TypeOK, dbVars

\* The read of one install.
LEMMA ReadFields ==
  ASSUME TypeOK, NEW q \in Requests, NEW a, ReadInstall(q, a)
  PROVE  /\ seen'[q] = install[a] /\ ids'[q] = {a}
         /\ \A p \in Requests : p # q => seen'[p] = seen[p] /\ ids'[p] = ids[p]
  BY DEF ReadInstall, TypeOK

LEMMA TokensBegin ==
  ASSUME TypeOK, TokensAreOwned, TokensInv, Exclusive,
         NEW q \in Requests, Begin(q)
  PROVE  TokensInv'
<1> USE DEF Agree, Busy, Phase, Know, Hold, Cover
<1>1. ASSUME NEW a \in Accounts, Register(q, a) PROVE TokensInv'
  <2>1. install[a] \in Statuses
    BY DEF TypeOK
  <2> DEFINE label == CASE install[a] = "none"        -> "inserting"
                        [] install[a] = "active"      -> "updating"
                        [] install[a] = "blacklisted" -> "refused"
  <2>2. /\ label \in {"inserting", "updating", "refused"}
        /\ label = "inserting" => install[a] = "none"
        /\ label = "updating" => install[a] = "active"
    BY <2>1 DEF Statuses
  <2>3. Ask(q, "register", {a}, {}, label) /\ ReadInstall(q, a)
    BY <1>1 DEF Register
  <2> HIDE DEF label
  <2>4. /\ op'[q] = "register" /\ scope'[q] = {a} /\ pc'[q] = label
        /\ locks'[q] = {} /\ install' = install
        /\ seen'[q] = install[a] /\ ids'[q] = {a}
    BY <2>3, AskFields, ReadFields
  <2>5. Agree(q)'
    BY <2>2, <2>4 DEF Running
  <2>6. QED
    BY <2>3, <2>5, TokensAsk, ReadFields
<1>2. ASSUME NEW a \in Accounts, Blacklist(q, a) PROVE TokensInv'
  <2>1. /\ op'[q] = "blacklist" /\ scope'[q] = {a} /\ pc'[q] = "updating"
        /\ locks'[q] = {} /\ install' = install
        /\ seen'[q] = install[a] /\ ids'[q] = {a}
    BY <1>2, AskFields, ReadFields DEF Blacklist
  <2>2. Agree(q)'
    BY <2>1
  <2>3. QED
    BY <1>2, <2>2, TokensAsk, ReadFields DEF Blacklist
<1>3. ASSUME NEW a \in Accounts, Unblacklist(q, a) PROVE TokensInv'
  <2> DEFINE label == IF install[a] = "blacklisted" THEN "updating"
                                                    ELSE "written"
  <2>1. label \in {"updating", "written"}
    OBVIOUS
  <2>2. Ask(q, "unblacklist", {a}, {}, label) /\ ReadInstall(q, a)
    BY <1>3 DEF Unblacklist
  <2> HIDE DEF label
  <2>3. /\ op'[q] = "unblacklist" /\ scope'[q] = {a} /\ pc'[q] = label
        /\ locks'[q] = {} /\ install' = install
        /\ seen'[q] = install[a] /\ ids'[q] = {a}
    BY <2>2, AskFields, ReadFields
  <2>4. Agree(q)'
    BY <2>1, <2>3
  <2>5. QED
    BY <2>2, <2>4, TokensAsk, ReadFields
<1>4. ASSUME NEW a \in Accounts, RevokeTokens(q, a) PROVE TokensInv'
  <2>1. /\ op'[q] = "revoke" /\ scope'[q] = {a} /\ pc'[q] = "updated"
        /\ locks'[q] = {} /\ install' = install
        /\ seen'[q] = install[a] /\ ids'[q] = {a}
    BY <1>4, AskFields, ReadFields DEF RevokeTokens
  <2>2. Agree(q)'
    BY <2>1
  <2>3. QED
    BY <1>4, <2>2, TokensAsk, ReadFields DEF RevokeTokens
<1>5. CASE BlacklistDomain(q)
  <2>1. /\ ids'[q] = ActiveInDomain
        /\ \A p \in Requests : p # q => seen'[p] = seen[p] /\ ids'[p] = ids[p]
    BY <1>5 DEF BlacklistDomain, TypeOK
  <2>2. Ask(q, "blacklistDomain", Domain, {}, "searching")
    BY <1>5 DEF BlacklistDomain
  <2>3. ActiveInDomain' = ActiveInDomain
    BY <2>2, AskFields DEF ActiveInDomain
  <2>4. Agree(q)'
    BY <2>1, <2>2, <2>3, AskFields
  <2>5. QED
    BY <2>1, <2>2, <2>4, TokensAsk
<1>6. ASSUME NEW t \in Tokens, NEW o \in Ops, Authenticate(q, o, t)
      PROVE  TokensInv'
  <2>1. Ask(q, o, {owner[t]}, {t}, "authenticated") /\ o \in {"call", "renew"}
    BY <1>6 DEF Authenticate
  <2>2. \A p \in Requests : p # q => seen'[p] = seen[p] /\ ids'[p] = ids[p]
    BY <1>6 DEF Authenticate
  <2>3. Valid(t) /\ install[owner[t]] # "none"
    BY <1>6 DEF Authenticate, Valid, TokensInv, OwnersExist
  <2>4. \A u \in Tokens : (Valid(u) /\ owner[u] = owner[t]) => u = t
    BY <2>3 DEF TokensInv, OneTokenPerInstall
  <2>5. \A u \in Tokens : Valid(u)' = Valid(u)
    BY <2>1, AskFields DEF Valid
  <2>6. Agree(q)'
    BY <2>1, <2>3, <2>4, <2>5, AskFields
  <2>7. QED
    BY <2>1, <2>2, <2>6, TokensAsk
<1>7. ASSUME NEW t \in Tokens, Logout(q, t) PROVE TokensInv'
  <2>1. Agree(q)'
    BY <1>7, AskFields DEF Logout
  <2>2. QED
    BY <1>7, <2>1, TokensAsk DEF Logout
<1>8. QED
  BY <1>1, <1>2, <1>3, <1>4, <1>5, <1>6, <1>7 DEF Begin

\* The statements of a request before it commits.
LEMMA TokensStatement ==
  ASSUME TypeOK, TokensInv, NEW q \in Requests, Step(q), ~Commit(q)
  PROVE  TokensInv'
<1>1. /\ UNCHANGED <<dbVars, askVars, seen, ids>>
      /\ \A p \in Requests : p # q => Unmoved(p)
      /\ Busy(q)
  BY DEF Step, Admit, InsertInstall, FindInstalls, UpdateInstalls, FindTokens,
    RevokeAll, RevokeOwn, GoTo, askVars, Unmoved, TypeOK, Busy, Running
<1>2. Phase(q) /\ Know(q) /\ Hold(q) /\ Cover(q)
  BY <1>1 DEF TokensInv, Agree
<1>3. /\ \A t \in Tokens : Valid(t)' = Valid(t)
      /\ ActiveInDomain' = ActiveInDomain
  BY <1>1 DEF dbVars, Valid, ActiveInDomain
<1>4. Agree(q)'
  <2> USE <1>1, <1>2, <1>3
      DEF dbVars, askVars, Agree, Busy, Running, Phase, Know, Hold, Cover, GoTo,
        TypeOK
  <2>1. CASE Admit(q)
    BY <2>1 DEF Admit
  <2>2. CASE InsertInstall(q)
    BY <2>2 DEF InsertInstall, TokensInv, OwnersExist, Valid
  <2>3. CASE FindInstalls(q)
    BY <2>3 DEF FindInstalls
  <2>4. CASE UpdateInstalls(q)
    <3>1. PICK rows :
            /\ rows \subseteq scope[q]
            /\ op[q] = "blacklistDomain" => rows \subseteq ids[q]
            /\ locks' = [locks EXCEPT ![q] = rows]
      BY <2>4 DEF UpdateInstalls, ActiveInDomain
    <3>2. locks'[q] = rows
      BY <3>1
    <3>3. /\ pc'[q] \in {"updated", "written"}
          /\ pc'[q] = "written" <=> op[q] = "unblacklist"
          /\ UNCHANGED <<found, kills>>
      BY <2>4 DEF UpdateInstalls
    <3>4. op[q] \in {"register", "blacklist", "unblacklist", "blacklistDomain"}
      BY <2>4 DEF UpdateInstalls
    <3>5. QED
      BY <3>1, <3>2, <3>3, <3>4
  <2>5. CASE FindTokens(q)
    BY <2>5 DEF FindTokens, Unrevoked, Valid
  <2>6. CASE RevokeAll(q)
    BY <2>6 DEF RevokeAll, Unrevoked, Valid
  <2>7. CASE RevokeOwn(q)
    BY <2>7 DEF RevokeOwn, Exists, Valid
  <2>8. QED
    BY <2>1, <2>2, <2>3, <2>4, <2>5, <2>6, <2>7 DEF Step
<1>5. /\ install' = install /\ owner' = owner /\ scope' = scope
      /\ state' = state
  BY <1>1 DEF dbVars, askVars
<1>6. \A p \in Requests : Busy(p)' => Busy(p)
  BY <1>1 DEF Unmoved, Busy
<1>7. QED
  BY <1>1, <1>3, <1>4, <1>5, <1>6, QuietStep

\* A commit: the tokens of its installs go before the new one comes.
LEMMA TokensCommit ==
  ASSUME TypeOK, TokensAreOwned, TokensInv, NEW q \in Requests, Commit(q)
  PROVE  TokensInv'
<1>1. Phase(q) /\ Know(q) /\ Hold(q) /\ Cover(q) /\ Busy(q)
  BY DEF Commit, TokensInv, Agree, Busy, Running
<1>2. PICK new \in Issued(q), b \in scope[q] :
        /\ state' = [t \in Tokens |-> IF t \in new THEN "valid"
                                      ELSE IF t \in kills[q] THEN "revoked"
                                      ELSE state[t]]
        /\ owner' = [t \in Tokens |-> IF t \in new THEN b ELSE owner[t]]
  BY DEF Commit
<1>3. /\ install' = [a \in Accounts |-> StatusAfter(q, a)]
      /\ expired' = expired /\ UNCHANGED <<op, scope, bearer>>
      /\ pc[q] = "written"
      /\ scope[q] \subseteq Accounts
  BY DEF Commit, askVars, TypeOK
<1>4. \A a \in Accounts :
        /\ a \notin scope[q] => install'[a] = install[a]
        /\ install[a] # "none" => install'[a] # "none"
        /\ install'[a] = "blacklisted" =>
             \/ install[a] = "blacklisted"
             \/ op[q] \in {"blacklist", "blacklistDomain"} /\ a \in ids[q]
  BY <1>1, <1>3 DEF StatusAfter, Know, Hold
<1>5. ASSUME new # {}
      PROVE  /\ op[q] \in {"register", "renew"}
             /\ \E u \in Tokens : new = {u} /\ state[u] = "unissued"
             /\ \A a \in scope[q] : install'[a] \notin {"none", "blacklisted"}
  <2>1. /\ op[q] \in {"register", "renew"}
        /\ \E u \in Tokens : new = {u} /\ state[u] = "unissued"
    BY <1>5 DEF Issued
  <2>2. ASSUME NEW a \in scope[q]
        PROVE  install'[a] \notin {"none", "blacklisted"}
    <3>1. install[a] \in Statuses /\ a \in Accounts
      BY <1>3 DEF TypeOK
    <3>2. install'[a] = StatusAfter(q, a)
      BY <1>3, <3>1
    <3>3. CASE op[q] = "register" /\ seen[q] = "none"
      BY <3>2, <3>3 DEF StatusAfter
    <3>4. CASE op[q] = "register" /\ seen[q] # "none"
      BY <1>1, <3>1, <3>2, <3>4 DEF StatusAfter, Know
    <3>5. CASE op[q] = "renew"
      BY <1>1, <1>3, <3>1, <3>2, <3>5 DEF StatusAfter, Know
    <3>6. QED
      BY <2>1, <3>3, <3>4, <3>5
  <2>3. QED
    BY <2>1, <2>2
<1>6. ASSUME NEW t \in Tokens, Valid(t)', t \notin new
      PROVE  Valid(t) /\ owner'[t] = owner[t] /\ t \notin kills[q]
  BY <1>2, <1>3, <1>6 DEF Valid
<1>7. ASSUME NEW t \in Tokens, t \in new
      PROVE  owner'[t] \in scope[q]
  BY <1>2, <1>7
<1>8. OwnersExist'
  <2>1. ASSUME NEW t \in Tokens, t \notin new, state'[t] # "unissued"
        PROVE  install'[owner'[t]] # "none"
    <3>1. state[t] # "unissued" /\ owner'[t] = owner[t]
      BY <1>2, <2>1, <1>3 DEF TokensAreOwned
    <3>2. QED
      BY <1>4, <3>1 DEF TokensAreOwned, TokensInv, OwnersExist
  <2>2. QED
    BY <1>5, <1>7, <2>1 DEF OwnersExist
<1>9. RequestsApart'
  <2>1. \A p \in Requests : Busy(p)' => Busy(p)
    BY DEF Commit, GoTo, Busy, Running, TypeOK
  <2>2. QED
    BY <1>3, <2>1 DEF TokensInv, RequestsApart
<1>10. ASSUME NEW p \in Requests PROVE Agree(p)'
  <2>1. CASE p = q
    BY <2>1 DEF Agree, Commit, GoTo, Busy, Running, TypeOK
  <2>2. CASE p # q
    <3>1. Unmoved(p)
      BY <1>3, <2>2 DEF Commit, GoTo, Unmoved, TypeOK
    <3>2. Busy(p) => scope[p] \cap scope[q] = {} /\ scope[p] \subseteq Accounts
      BY <1>1, <2>2 DEF TokensInv, RequestsApart, TypeOK
    <3>3. Busy(p) => \A a \in scope[p] : install'[a] = install[a]
      BY <1>4, <3>2
    <3>4. Busy(p) => \A t \in Tokens :
            (Valid(t)' /\ owner'[t] \in scope[p]) =>
              Valid(t) /\ owner[t] = owner'[t]
      BY <1>6, <1>7, <3>2
    <3>5. QED
      BY <3>1, <3>3, <3>4, OthersAgree DEF TokensInv
  <2>3. QED
    BY <2>1, <2>2
<1>11. BlacklistedHasNoToken'
  <2>1. ASSUME NEW t \in Tokens, Valid(t)', t \notin new,
               install'[owner'[t]] = "blacklisted"
        PROVE  FALSE
    <3>1. /\ Valid(t) /\ owner'[t] = owner[t] /\ t \notin kills[q]
          /\ owner[t] \in Accounts
      BY <1>6, <2>1 DEF Valid, TokensAreOwned
    <3>2. install[owner[t]] # "blacklisted"
      BY <3>1 DEF TokensInv, BlacklistedHasNoToken
    <3>3. op[q] \in {"blacklist", "blacklistDomain"} /\ owner[t] \in ids[q]
      BY <1>4, <2>1, <3>1, <3>2
    <3>4. QED
      BY <1>1, <1>3, <3>1, <3>3 DEF Cover
  <2>2. QED
    BY <1>5, <1>7, <2>1 DEF BlacklistedHasNoToken
<1>12. OneTokenPerInstall'
  <2>1. ASSUME NEW s \in Tokens, NEW t \in Tokens, Valid(s)', Valid(t)',
               owner'[s] = owner'[t], s \in new, t \notin new
        PROVE  FALSE
    <3>1. op[q] \in {"register", "renew"} /\ owner'[s] \in scope[q]
      BY <1>5, <1>7, <2>1
    <3>2. Valid(t) /\ owner[t] \in scope[q] /\ t \notin kills[q]
      BY <1>6, <2>1, <3>1
    <3>3. QED
      BY <1>1, <1>3, <3>1, <3>2 DEF Cover, Know
  <2>2. ASSUME NEW s \in Tokens, NEW t \in Tokens, Valid(s)', Valid(t)',
               owner'[s] = owner'[t], s \notin new, t \notin new
        PROVE  s = t
    BY <1>6, <2>2 DEF TokensInv, OneTokenPerInstall
  <2>3. ASSUME NEW s \in Tokens, NEW t \in Tokens, s \in new, t \in new
        PROVE  s = t
    BY <1>5, <2>3
  <2>4. QED
    BY <2>1, <2>2, <2>3 DEF OneTokenPerInstall
<1>13. QED
  BY <1>8, <1>9, <1>10, <1>11, <1>12 DEF TokensInv

LEMMA TokensNext ==
  ASSUME Exclusive
  PROVE  TypeOK /\ TokensAreOwned /\ TokensInv /\ [Next]_vars => TokensInv'
<1> SUFFICES ASSUME TypeOK, TokensAreOwned, TokensInv, [Next]_vars
             PROVE  TokensInv'
  OBVIOUS
<1>1. ASSUME NEW q \in Requests, Begin(q) PROVE TokensInv'
  BY <1>1, TokensBegin
<1>2. ASSUME NEW q \in Requests, Step(q) PROVE TokensInv'
  BY <1>2, TokensStatement, TokensCommit
<1>3. ASSUME NEW q \in Requests, Abort(q) PROVE TokensInv'
  <2>1. /\ UNCHANGED <<dbVars, askVars, seen, ids>>
        /\ \A p \in Requests : p # q => Unmoved(p)
        /\ locks'[q] = {} /\ pc'[q] = "refused"
    BY <1>3 DEF Abort, GoTo, askVars, Unmoved, TypeOK
  <2>2. Agree(q)'
    BY <2>1 DEF Agree, Busy, Running
  <2>3. \A p \in Requests : Busy(p)' => Busy(p)
    BY <2>1 DEF Unmoved, Busy, Running
  <2>4. \A t \in Tokens : Valid(t)' = Valid(t)
    BY <2>1 DEF dbVars, Valid
  <2>5. QED
    BY <2>1, <2>2, <2>3, <2>4, QuietStep DEF dbVars, askVars
<1>4. ASSUME \/ \E t \in Tokens : Expire(t)
             \/ Cleanup
             \/ UNCHANGED vars
      PROVE  TokensInv'
  <2>1. /\ install' = install /\ owner' = owner /\ scope' = scope
        /\ \A p \in Requests : Unmoved(p)
    BY <1>4 DEF Expire, Cleanup, vars, dbVars, askVars, Unmoved
  <2>2. \A t \in Tokens : /\ Valid(t)' => Valid(t)
                          /\ state'[t] # "unissued" => state[t] # "unissued"
    BY <1>4 DEF Expire, Cleanup, Exists, Valid, vars, dbVars, TypeOK
  <2>3. \A p \in Requests : Busy(p)' => Busy(p)
    BY <2>1 DEF Unmoved, Busy
  <2>4. QED
    BY <2>1, <2>2, <2>3, QuietStep
<1>5. QED
  BY <1>1, <1>2, <1>3, <1>4 DEF Next

LEMMA TokensInit == Init => TokensInv
  BY DEF Init, TokensInv, OwnersExist, RequestsApart, Agree, Busy, Running,
    BlacklistedHasNoToken, OneTokenPerInstall, Valid

LEMMA TokensAlways == Exclusive => (Spec => []TokensInv)
<1> SUFFICES ASSUME Exclusive PROVE Spec => []TokensInv
  OBVIOUS
<1>1. Init => TypeOK /\ TokensAreOwned /\ TokensInv
  BY TokensInit DEF Init, TypeOK, TokensAreOwned, Statuses, TokenStates, AllOps
<1>2. TypeOK /\ TokensAreOwned /\ TokensInv /\ [Next]_vars =>
        (TypeOK /\ TokensAreOwned /\ TokensInv)'
  BY TypeNext, OwnersNext, TokensNext
<1>3. QED
  BY <1>1, <1>2, PTL DEF Spec

\* If the requests about an install do not overlap, blacklisting it leaves no
\* token that could be used: its tokens go in the same transaction, those of a
\* domain too, and register and renew look at the status first.
THEOREM BlacklistingRevokes == Exclusive => (Spec => []BlacklistedHasNoToken)
<1>1. TokensInv => BlacklistedHasNoToken
  BY DEF TokensInv
<1>2. QED
  BY <1>1, TokensAlways, PTL

\* Under the same condition register and renew replace the token they found.
THEOREM TokensAreReplaced == Exclusive => (Spec => []OneTokenPerInstall)
<1>1. TokensInv => OneTokenPerInstall
  BY DEF TokensInv
<1>2. QED
  BY <1>1, TokensAlways, PTL
=============================================================================
