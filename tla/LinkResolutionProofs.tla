------------------------ MODULE LinkResolutionProofs ------------------------
(***************************************************************************)
(* Proofs about LinkResolution, for every number of runs, links, permits   *)
(* and items, and every set of endless pages.                              *)
(*                                                                         *)
(* The inductive invariant says, beside the types, where a task may be in  *)
(* each phase of its run, what its attempts must have come to at each      *)
(* place, who has the lock, and that permits and places account for each   *)
(* other.  Apart from that, the loop that numbers the scraped pages is     *)
(* shown to number each with its rank among them, so that an answer of     *)
(* Gemini with that number is about that page.                             *)
(***************************************************************************)
EXTENDS LinkResolution, FiniteSetTheorems, WellFoundedInduction, TLAPS

-----------------------------------------------------------------------------
(***************************************************************************)
(* The inductive invariant.                                                *)
(***************************************************************************)

\* Tasks are there from the begin of the run, and at work until its store.
Begun ==
  \A t \in Tasks :
    /\ phase[t[1]] = "ready" => pc[t] = "none"
    /\ pc[t] \in {"waiting"} \cup Working =>
         phase[t[1]] = "resolving" /\ t[2] \in 1 .. count[t[1]]

\* How the attempts have ended, by the place of the task.
Attempts ==
  \A t \in Tasks :
    LET h == heard[t]
    IN  /\ pc[t] \in {"none", "waiting", "plain"} => h = <<>>
        /\ pc[t] = "agent" => Len(h) = 1
        /\ pc[t] \in Browsing => Len(h) = 2 /\ h[2] \in {"timeout", "refused"}
        /\ pc[t] = "scraping" => Len(h) >= 1 /\ h[Len(h)] = "ok"

\* A result is about the link of its task and says what the attempts came to.
Fits(t) ==
  /\ found[t] \in Results
  /\ found[t].link = t[2]
  /\ Explains(heard[t], found[t].status)
  /\ found[t].page # "none" <=> found[t].status = "success"

ResultsFit ==
  \A t \in Tasks :
    pc[t] = "done" /\ phase[t[1]] \in {"resolving", "asking"} => Fits(t)

\* Until the run has asked Gemini its rows are the results of all its tasks.
RowsGathered ==
  \A r \in Runs : phase[r] = "asking" => AllDone(r) /\ rows[r] = Gathered(r)

\* The task in the lock is the only one that starts a browser, and there is none.
Starting(t) == pc[t] \in {"starting", "launching"}

LockHeld ==
  /\ \A t \in Tasks : Starting(t) => lock = t
  /\ lock # NoTask => lock \in Tasks /\ Starting(lock) /\ browser = "none"

\* No permit is lost, and none is given back early.
PermitsAccount ==
  \A r \in Runs : permits[r] + Cardinality(AtWork(r)) = Permits

Inv ==
  /\ TypeOK
  /\ Begun /\ Attempts /\ ResultsFit /\ RowsGathered
  /\ LockHeld /\ OneBrowser
  /\ PermitsAccount

-----------------------------------------------------------------------------
(***************************************************************************)
(* Facts about the data.                                                   *)
(***************************************************************************)

LEMMA AppendFacts ==
  ASSUME NEW S, NEW s \in Seq(S), NEW e \in S
  PROVE  /\ Append(s, e) \in Seq(S)
         /\ Len(Append(s, e)) = Len(s) + 1
         /\ Len(s) \in Nat
         /\ Append(s, e)[Len(s) + 1] = e
         /\ \A i \in 1 .. Len(s) : Append(s, e)[i] = s[i]
  OBVIOUS

LEMMA PermitsType == Permits \in Nat /\ Permits >= 1
  BY CapAssumption DEF Permits

LEMMA TaskParts ==
  /\ \A t \in Tasks : t[1] \in Runs /\ t[2] \in Places /\ t = <<t[1], t[2]>>
  /\ \A r \in Runs, i \in Places : <<r, i>> \in Tasks
  BY DEF Tasks

\* Indexes that are bounded have a last one.
LEMMA LastExists ==
  ASSUME NEW n \in Nat, NEW S \in SUBSET (1 .. n), S # {}
  PROVE  \E k \in S : \A m \in S : m <= k
<1> DEFINE T == {n - k : k \in S}
<1>1. T \subseteq Nat /\ T # {}
  <2>1. ASSUME NEW k \in S PROVE n - k \in Nat
    <3>1. k \in 1 .. n
      OBVIOUS
    <3>2. QED
      BY <3>1
  <2>2. PICK k \in S : TRUE
    OBVIOUS
  <2>3. n - k \in T
    OBVIOUS
  <2>4. QED
    BY <2>1, <2>3
<1>2. PICK x \in T : \A y \in T : ~ (<<y, x>> \in OpToRel(<, Nat))
  <2> HIDE DEF T
  <2>1. QED
    BY <1>1, NatLessThanWellFounded, WFMin
<1>3. PICK k \in S : x = n - k
  OBVIOUS
<1>4. ASSUME NEW m \in S PROVE m <= k
  <2>1. n - m \in T /\ n - m \in Nat /\ x \in Nat
    BY <1>1
  <2>2. ~ (n - m < x)
    BY <1>2, <2>1 DEF OpToRel
  <2>3. QED
    BY <1>3, <2>2
<1>5. QED
  BY <1>4

\* The last item with an index counts; without one the verdict is blank.
LEMMA VerdictPicked ==
  ASSUME NEW items \in Seq(Items), NEW k
  PROVE  \/ /\ \A n \in DOMAIN items : items[n].index # k
            /\ VerdictFrom(items, k) = Blank
         \/ \E n \in DOMAIN items : /\ items[n].index = k
                                    /\ VerdictFrom(items, k) = items[n].about
<1> DEFINE about == {n \in DOMAIN items : items[n].index = k}
           last  == CHOOSE n \in about : \A m \in about : m <= n
<1>1. VerdictFrom(items, k) = IF about = {} THEN Blank ELSE items[last].about
  BY DEF VerdictFrom
<1>2. CASE about = {}
  BY <1>1, <1>2
<1>3. CASE about # {}
  <2>1. about \subseteq 1 .. Len(items) /\ Len(items) \in Nat
    OBVIOUS
  <2>2. \E n \in about : \A m \in about : m <= n
    <3> HIDE DEF about
    <3>1. QED
      BY <1>3, <2>1, LastExists
  <2>3. last \in about
    BY <2>2
  <2>4. VerdictFrom(items, k) = items[last].about
    BY <1>1, <1>3
  <2>5. QED
    BY <2>3, <2>4
<1>4. QED
  BY <1>2, <1>3

LEMMA VerdictType ==
  ASSUME NEW items \in Seq(Items), NEW k
  PROVE  VerdictFrom(items, k) \in {Blank} \cup Places
<1>1. \A n \in DOMAIN items : items[n].about \in {Blank} \cup Places
  <2>1. \A n \in DOMAIN items : items[n] \in Items
    OBVIOUS
  <2>2. \A n \in DOMAIN items : items[n].about \in 0 .. MaxLinks
    BY <2>1 DEF Items
  <2>3. QED
    BY <2>2, BoundAssumption DEF Blank, Places
<1>2. QED
  BY <1>1, VerdictPicked

LEMMA AnswersType ==
  ASSUME NEW r, NEW items \in Answers(r)
  PROVE  items \in Seq(Items)
<1>1. PICK n \in 0 .. MaxItems, S \in SUBSET Items : items \in [1 .. n -> S]
  BY DEF Answers
<1>2. n \in Nat
  BY <1>1
<1>3. items \in Seq(S)
  BY <1>1, <1>2
<1>4. QED
  BY <1>1, <1>3

\* What a run that asks has gathered.
LEMMA GatheredType ==
  ASSUME TypeOK, ResultsFit, NEW r \in Runs, phase[r] \in {"resolving", "asking"},
         AllDone(r)
  PROVE  /\ Gathered(r) \in Seq(Results)
         /\ Len(Gathered(r)) = count[r]
         /\ \A i \in 1 .. count[r] : Gathered(r)[i] = found[<<r, i>>] /\ Fits(<<r, i>>)
<1>1. count[r] \in Nat /\ count[r] <= MaxLinks
  BY BoundAssumption DEF TypeOK
<1>2. \A i \in 1 .. count[r] : <<r, i>> \in Tasks
  BY <1>1, BoundAssumption DEF Tasks, Places
<1>3. \A i \in 1 .. count[r] : Fits(<<r, i>>)
  <2> SUFFICES ASSUME NEW i \in 1 .. count[r] PROVE Fits(<<r, i>>)
    OBVIOUS
  <2>1. pc[<<r, i>>] = "done" /\ <<r, i>>[1] = r
    BY DEF AllDone
  <2>2. QED
    BY <1>2, <2>1 DEF ResultsFit
<1>4. \A i \in 1 .. count[r] : found[<<r, i>>] \in Results
  BY <1>3 DEF Fits
<1>5. Gathered(r) \in [1 .. count[r] -> Results]
  BY <1>4 DEF Gathered
<1>6. Gathered(r) \in Seq(Results) /\ Len(Gathered(r)) = count[r]
  BY <1>1, <1>5
<1>7. QED
  BY <1>3, <1>6 DEF Gathered

-----------------------------------------------------------------------------
(***************************************************************************)
(* Permits.                                                                *)
(***************************************************************************)

\* A task at work has a permit of its run, and gives it back when it ends.
Weight(place) == IF place \in Working THEN 1 ELSE 0

Balanced(t) ==
  \E label \in {"done"} \cup Working :
    /\ pc' = [pc EXCEPT ![t] = label]
    /\ permits' = [permits EXCEPT ![t[1]] = @ + Weight(pc[t]) - Weight(label)]

LEMMA WeightType == \A place : Weight(place) \in Nat
  BY DEF Weight

LEMMA AttemptBalances ==
  ASSUME TypeOK, NEW t \in Tasks, Attempt(t)
  PROVE  Balanced(t)
<1>0. /\ permits \in [Runs -> 0 .. Permits] /\ t[1] \in Runs
      /\ permits[t[1]] \in Int
  BY TaskParts, PermitsType DEF TypeOK
<1>1. ASSUME pc[t] \in Working, NEW label \in Working,
             pc' = [pc EXCEPT ![t] = label], permits' = permits
      PROVE  Balanced(t)
  <2>1. permits[t[1]] + Weight(pc[t]) - Weight(label) = permits[t[1]]
    BY <1>0, <1>1 DEF Weight
  <2>2. permits' = [permits EXCEPT ![t[1]] = @ + Weight(pc[t]) - Weight(label)]
    BY <1>0, <1>1, <2>1
  <2>3. QED
    BY <1>1, <2>2 DEF Balanced
<1>2. ASSUME pc[t] \in Working, pc' = [pc EXCEPT ![t] = "done"],
             permits' = [permits EXCEPT ![t[1]] = @ + 1]
      PROVE  Balanced(t)
  <2>1. permits[t[1]] + Weight(pc[t]) - Weight("done") = permits[t[1]] + 1
    BY <1>0, <1>2 DEF Weight, Working, Http, Browsing
  <2>2. permits' = [permits EXCEPT ![t[1]] = @ + Weight(pc[t]) - Weight("done")]
    BY <1>2, <2>1
  <2>3. QED
    BY <1>2, <2>2 DEF Balanced
<1>3. CASE Acquire(t)
  <2>1. permits[t[1]] + Weight(pc[t]) - Weight("plain") = permits[t[1]] - 1
    BY <1>0, <1>3 DEF Acquire, Weight, Working, Http, Browsing
  <2>2. permits' = [permits EXCEPT ![t[1]] = @ + Weight(pc[t]) - Weight("plain")]
    BY <1>3, <2>1 DEF Acquire
  <2>3. QED
    BY <1>3, <2>2 DEF Acquire, Balanced, Working, Http
<1>4. CASE Responds(t)
  BY <1>1, <1>4 DEF Responds, Hear, Working
<1>5. ASSUME NEW o, Escalate(t, o) PROVE Balanced(t)
  BY <1>1, <1>5 DEF Escalate, Hear, Working, Http, Browsing
<1>6. CASE Raises(t)
  BY <1>2, <1>6 DEF Raises, Finish, Working
<1>7. CASE EnterLock(t)
  BY <1>1, <1>7 DEF EnterLock, Working, Browsing
<1>8. CASE DriverStarts(t)
  BY <1>1, <1>8 DEF DriverStarts, Working, Browsing
<1>9. CASE BrowserLaunches(t)
  BY <1>1, <1>9 DEF BrowserLaunches, Working, Browsing
<1>10. CASE BrowserResponds(t)
  BY <1>1, <1>10 DEF BrowserResponds, Hear, Working, Browsing
<1>11. CASE BrowserFails(t)
  BY <1>2, <1>11 DEF BrowserFails, GiveUp, Finish, Working
<1>12. CASE BrowserTimesOut(t)
  BY <1>2, <1>12 DEF BrowserTimesOut, GiveUp, Finish, Working
<1>13. CASE Scrape(t)
  BY <1>2, <1>13 DEF Scrape, Finish, Working
<1>14. QED
  BY <1>3, <1>4, <1>5, <1>6, <1>7, <1>8, <1>9, <1>10, <1>11, <1>12, <1>13
     DEF Attempt, TimesOut

LEMMA AtWorkFinite ==
  \A r \in Runs : IsFiniteSet(AtWork(r)) /\ Cardinality(AtWork(r)) \in Nat
<1> SUFFICES ASSUME NEW r \in Runs
             PROVE  IsFiniteSet(AtWork(r)) /\ Cardinality(AtWork(r)) \in Nat
  OBVIOUS
<1>1. IsFiniteSet(Places)
  BY BoundAssumption, FS_Interval DEF Places
<1>2. AtWork(r) \subseteq Places
  BY DEF AtWork
<1>3. QED
  BY <1>1, <1>2, FS_Subset, FS_CardinalityType

\* The tasks at work, when a task moves.
LEMMA AtWorkMoves ==
  ASSUME TypeOK, NEW t \in Tasks, NEW label,
         pc' = [pc EXCEPT ![t] = label]
  PROVE  /\ Cardinality(AtWork(t[1]))' =
              Cardinality(AtWork(t[1])) - Weight(pc[t]) + Weight(label)
         /\ \A r \in Runs \ {t[1]} : AtWork(r)' = AtWork(r)
<1> DEFINE r == t[1]
           i == t[2]
           W == AtWork(r)
           V == W \ {i}
<1>1. r \in Runs /\ i \in Places /\ t = <<r, i>>
  BY TaskParts
<1>2. pc \in [Tasks -> {"none", "waiting", "done"} \cup Working]
  BY DEF TypeOK
<1>3. \A q \in Runs, j \in Places :
        pc'[<<q, j>>] = IF q = r /\ j = i THEN label ELSE pc[<<q, j>>]
  <2> SUFFICES ASSUME NEW q \in Runs, NEW j \in Places
               PROVE  pc'[<<q, j>>] = IF q = r /\ j = i THEN label ELSE pc[<<q, j>>]
    OBVIOUS
  <2>1. <<q, j>> \in Tasks /\ (<<q, j>> = t <=> q = r /\ j = i)
    BY <1>1, TaskParts
  <2>2. QED
    BY <1>2, <2>1
<1>4. \A q \in Runs \ {r} : AtWork(q)' = AtWork(q)
  BY <1>3 DEF AtWork
<1>5. AtWork(r)' = IF label \in Working THEN V \cup {i} ELSE V
  BY <1>1, <1>3 DEF AtWork
<1>6. i \in W <=> pc[t] \in Working
  BY <1>1 DEF AtWork
<1>7. IsFiniteSet(W) /\ Cardinality(W) \in Nat
  BY <1>1, AtWorkFinite
<1> HIDE DEF r, i, W
<1>8. IsFiniteSet(V) /\ Cardinality(V) = Cardinality(W) - Weight(pc[t])
  <2>1. IsFiniteSet(V) /\ Cardinality(V) = IF i \in W THEN Cardinality(W) - 1
                                                      ELSE Cardinality(W)
    BY <1>7, FS_RemoveElement
  <2>2. QED
    BY <1>6, <1>7, <2>1 DEF Weight
<1>9. Cardinality(V \cup {i}) = Cardinality(V) + 1
  <2>1. i \notin V
    OBVIOUS
  <2> HIDE DEF V
  <2>2. QED
    BY <1>8, <2>1, FS_AddElement
<1>10. Cardinality(V) \in Int
  BY <1>7, <1>8 DEF Weight
<1> HIDE DEF V
<1>11. Cardinality(AtWork(r)') = Cardinality(V) + Weight(label)
  BY <1>5, <1>9, <1>10 DEF Weight
<1>12. Cardinality(AtWork(r)') = Cardinality(W) - Weight(pc[t]) + Weight(label)
  BY <1>8, <1>11
<1>13. QED
  BY <1>4, <1>12 DEF r, W

LEMMA PermitsNext ==
  ASSUME TypeOK, Begun, PermitsAccount, [Next]_vars
  PROVE  PermitsAccount' /\ permits' \in [Runs -> 0 .. Permits]
<1>0. /\ permits \in [Runs -> 0 .. Permits]
      /\ \A r \in Runs : permits[r] \in Int /\ permits[r] <= Permits /\ permits[r] >= 0
  BY PermitsType DEF TypeOK
<1>1. CASE \E t \in Tasks : Attempt(t)
  <2> PICK t \in Tasks : Attempt(t)
    BY <1>1
  <2> PICK label \in {"done"} \cup Working :
             /\ pc' = [pc EXCEPT ![t] = label]
             /\ permits' = [permits EXCEPT ![t[1]] = @ + Weight(pc[t]) - Weight(label)]
    BY AttemptBalances DEF Balanced
  <2>1. t[1] \in Runs
    BY TaskParts
  <2>2. /\ Cardinality(AtWork(t[1]))' =
              Cardinality(AtWork(t[1])) - Weight(pc[t]) + Weight(label)
        /\ \A r \in Runs \ {t[1]} : AtWork(r)' = AtWork(r)
    BY AtWorkMoves
  <2>3. permits'[t[1]] = permits[t[1]] + Weight(pc[t]) - Weight(label)
    BY <1>0, <2>1
  <2>4. \A r \in Runs \ {t[1]} : permits'[r] = permits[r]
    BY <1>0
  <2>5. permits'[t[1]] + Cardinality(AtWork(t[1]))' = Permits
    <3>1. permits[t[1]] + Cardinality(AtWork(t[1])) = Permits
      BY <2>1 DEF PermitsAccount
    <3>2. Cardinality(AtWork(t[1])) \in Nat
      BY <2>1, AtWorkFinite
    <3>3. permits[t[1]] \in Int
      BY <1>0, <2>1
    <3>4. QED
      BY <2>2, <2>3, <3>1, <3>2, <3>3, WeightType
  <2>6. \A r \in Runs : permits'[r] + Cardinality(AtWork(r)') = Permits
    BY <2>2, <2>4, <2>5 DEF PermitsAccount
  <2>7. \A r \in Runs : permits'[r] \in Int /\ permits'[r] >= 0
    <3> SUFFICES ASSUME NEW r \in Runs PROVE permits'[r] \in Int /\ permits'[r] >= 0
      OBVIOUS
    <3>1. CASE r # t[1]
      BY <1>0, <2>4, <3>1
    <3>2. CASE r = t[1]
      <4>1. permits'[r] \in Int
        BY <1>0, <2>3, <3>2, WeightType
      <4>2. Weight(label) = 1 /\ Weight(pc[t]) = 0 => permits[r] > 0
        BY <3>2, <1>0 DEF Attempt, Acquire, Responds, Escalate, Raises, EnterLock,
          DriverStarts, BrowserLaunches, BrowserResponds, BrowserFails, TimesOut,
          BrowserTimesOut, Scrape, Weight, Working, Http, Browsing
      <4>3. Weight(label) \in {0, 1} /\ Weight(pc[t]) \in {0, 1}
        BY DEF Weight
      <4>4. permits[r] \in Int /\ permits[r] >= 0
        BY <1>0
      <4>5. QED
        BY <2>3, <3>2, <4>1, <4>2, <4>3, <4>4
    <3>3. QED
      BY <3>1, <3>2
  <2>8. \A r \in Runs : permits'[r] <= Permits
    <3> SUFFICES ASSUME NEW r \in Runs PROVE permits'[r] <= Permits
      OBVIOUS
    <3>1. Cardinality(AtWork(r)') \in Nat
      <4>1. AtWork(r)' \subseteq Places /\ IsFiniteSet(Places)
        BY BoundAssumption, FS_Interval DEF AtWork, Places
      <4>2. QED
        BY <4>1, FS_Subset, FS_CardinalityType
    <3>2. QED
      BY <2>6, <2>7, <3>1, PermitsType
  <2>9. permits' \in [Runs -> 0 .. Permits]
    <3>1. \A r \in Runs : permits'[r] \in 0 .. Permits
      BY <2>7, <2>8, PermitsType
    <3>2. permits' = [r \in Runs |-> permits'[r]]
      BY <1>0
    <3>3. QED
      BY <3>1, <3>2
  <2>10. QED
    BY <2>6, <2>9 DEF PermitsAccount
<1>2. ASSUME permits' = permits, \A r \in Runs : AtWork(r)' = AtWork(r)
      PROVE  PermitsAccount' /\ permits' \in [Runs -> 0 .. Permits]
  BY <1>0, <1>2 DEF PermitsAccount
<1>3. ASSUME NEW r \in Runs, Begin(r)
      PROVE  permits' = permits /\ \A q \in Runs : AtWork(q)' = AtWork(q)
  <2>1. permits' = permits
    BY <1>3 DEF Begin
  <2>2. \A t \in Tasks : pc'[t] = pc[t] \/ (pc[t] = "none" /\ pc'[t] = "waiting")
    BY <1>3 DEF Begin, Begun, TypeOK
  <2>3. \A t \in Tasks : pc'[t] \in Working <=> pc[t] \in Working
    BY <2>2 DEF Working, Http, Browsing
  <2>4. \A q \in Runs : AtWork(q)' = AtWork(q)
    BY <2>3, TaskParts DEF AtWork
  <2>5. QED
    BY <2>1, <2>4
<1>4. CASE \E r \in Runs : Stage(r)
  <2>1. permits' = permits /\ pc' = pc
    BY <1>4 DEF Stage, Store, NothingToAsk, AskGemini
  <2>2. QED
    BY <1>2, <2>1 DEF AtWork
<1>5. CASE BrowserCrashes \/ UNCHANGED vars
  <2>1. permits' = permits /\ pc' = pc
    BY <1>5 DEF BrowserCrashes, vars
  <2>2. QED
    BY <1>2, <2>1 DEF AtWork
<1>6. QED
  BY <1>1, <1>2, <1>3, <1>4, <1>5 DEF Next

-----------------------------------------------------------------------------
(***************************************************************************)
(* Tasks: where they are, what they have heard and what they have found.   *)
(***************************************************************************)

LEMMA BegunNext ==
  ASSUME TypeOK, Begun, [Next]_vars
  PROVE  Begun'
<1> USE TaskParts DEF Begun, TypeOK, Working, Http, Browsing
<1>1. CASE \E t \in Tasks : Attempt(t)
  <2> PICK t \in Tasks : Attempt(t)
    BY <1>1
  <2>1. phase' = phase /\ count' = count
    BY DEF Attempt, Acquire, Responds, Escalate, Raises, EnterLock, DriverStarts,
      BrowserLaunches, BrowserResponds, BrowserFails, TimesOut, BrowserTimesOut,
      Scrape, GiveUp, runVars
  <2>2. PICK label \in {"done"} \cup Working : pc' = [pc EXCEPT ![t] = label]
    BY AttemptBalances DEF Balanced
  <2>3. pc[t] \in {"waiting"} \cup Working
    BY DEF Attempt, Acquire, Responds, Escalate, Raises, EnterLock, DriverStarts,
      BrowserLaunches, BrowserResponds, BrowserFails, TimesOut, BrowserTimesOut,
      Scrape
  <2>4. phase[t[1]] = "resolving" /\ t[2] \in 1 .. count[t[1]]
    BY <2>3
  <2>5. \A q \in Tasks : pc'[q] = IF q = t THEN label ELSE pc[q]
    BY <2>2
  <2>6. QED
    BY <2>1, <2>4, <2>5
<1>2. ASSUME NEW r \in Runs, Begin(r) PROVE Begun'
  <2> USE DEF Begin
  <2>1. PICK n \in 0 .. Most[r] :
          /\ count' = [count EXCEPT ![r] = n]
          /\ pc' = [q \in Tasks |-> IF q[1] = r /\ q[2] <= n THEN "waiting" ELSE pc[q]]
    BY <1>2
  <2>2. n \in Nat /\ \A q \in Tasks : q[2] \in Nat /\ q[2] >= 1
    BY MostAssumption, BoundAssumption DEF Places
  <2>3. SUFFICES ASSUME NEW q \in Tasks
                 PROVE  /\ phase'[q[1]] = "ready" => pc'[q] = "none"
                        /\ pc'[q] \in {"waiting"} \cup Working =>
                             phase'[q[1]] = "resolving" /\ q[2] \in 1 .. count'[q[1]]
    OBVIOUS
  <2>4. CASE q[1] # r
    BY <1>2, <2>1, <2>4
  <2>5. CASE q[1] = r
    BY <1>2, <2>1, <2>2, <2>5
  <2>6. QED
    BY <2>4, <2>5
<1>3. ASSUME NEW r \in Runs, Stage(r) PROVE Begun'
  <2>1. pc' = pc /\ count' = count
    BY <1>3 DEF Stage, Store, NothingToAsk, AskGemini
  <2>2. \A q \in Runs \ {r} : phase'[q] = phase[q]
    BY <1>3 DEF Stage, Store, NothingToAsk, AskGemini, Conclude
  <2>3. phase[r] \in {"resolving", "asking"} /\ phase'[r] # "ready"
    BY <1>3 DEF Stage, Store, NothingToAsk, AskGemini, Conclude
  <2>4. phase[r] = "resolving" => AllDone(r)
    BY <1>3 DEF Stage, Store, NothingToAsk, AskGemini
  <2>5. ASSUME NEW t \in Tasks, t[1] = r PROVE pc[t] \notin {"waiting"} \cup Working
    BY <2>3, <2>4, <2>5 DEF AllDone
  <2>6. QED
    BY <2>1, <2>2, <2>3, <2>5
<1>4. CASE BrowserCrashes \/ UNCHANGED vars
  BY <1>4 DEF BrowserCrashes, vars, runVars
<1>5. QED
  BY <1>1, <1>2, <1>3, <1>4 DEF Next

\* One attempt more, by what the task has heard before.
LEMMA AttemptHeard ==
  ASSUME TypeOK, Attempts, NEW t \in Tasks, Attempt(t)
  PROVE  LET h == heard'[t]
         IN  /\ h \in Seq(Outcomes)
             /\ pc'[t] = "plain" => h = <<>>
             /\ pc'[t] = "agent" => Len(h) = 1
             /\ pc'[t] \in Browsing => Len(h) = 2 /\ h[2] \in {"timeout", "refused"}
             /\ pc'[t] = "scraping" => Len(h) >= 1 /\ h[Len(h)] = "ok"
             /\ pc'[t] = "done" => Fits(t)'
<1>0. /\ heard[t] \in Seq(Outcomes) /\ Len(heard[t]) \in Nat
      /\ heard \in [Tasks -> Seq(Outcomes)]
      /\ found \in [Tasks -> Results \cup {NoResult}]
      /\ pc \in [Tasks -> {"none", "waiting", "done"} \cup Working]
      /\ t[2] \in Places
  BY TaskParts DEF TypeOK
<1>1. ASSUME NEW o \in Outcomes
      PROVE  LET h == Append(heard[t], o)
             IN  /\ h \in Seq(Outcomes)
                 /\ Len(h) = Len(heard[t]) + 1
                 /\ h[Len(h)] = o
                 /\ \A i \in 1 .. Len(heard[t]) : h[i] = heard[t][i]
  BY <1>0, AppendFacts
<1> USE DEF Working, Http, Browsing, Outcomes
<1>2. CASE Acquire(t)
  BY <1>0, <1>2 DEF Acquire, Attempts
<1>3. CASE Responds(t) \/ BrowserResponds(t)
  <2>1. heard'[t] = Append(heard[t], "ok") /\ pc'[t] = "scraping"
    BY <1>0, <1>3 DEF Responds, BrowserResponds, Hear
  <2>2. /\ heard'[t] \in Seq(Outcomes) /\ Len(heard'[t]) = Len(heard[t]) + 1
        /\ heard'[t][Len(heard'[t])] = "ok"
    BY <1>1, <2>1
  <2>3. QED
    BY <1>0, <2>1, <2>2
<1>4. ASSUME NEW o \in {"timeout", "refused"}, Escalate(t, o)
      PROVE  /\ heard'[t] \in Seq(Outcomes)
             /\ \/ pc'[t] = "agent" /\ Len(heard'[t]) = 1
                \/ pc'[t] = "browser" /\ Len(heard'[t]) = 2 /\ heard'[t][2] = o
  <2>1. CASE pc[t] = "plain"
    <3>1. heard'[t] = Append(heard[t], "missed") /\ pc'[t] = "agent"
      BY <1>0, <1>4, <2>1 DEF Escalate, Hear
    <3>2. Len(heard[t]) = 0
      BY <2>1 DEF Attempts
    <3>3. Len(heard'[t]) = 1 /\ heard'[t] \in Seq(Outcomes)
      BY <1>1, <3>1, <3>2
    <3>4. QED
      BY <3>1, <3>3
  <2>2. CASE pc[t] = "agent"
    <3>1. heard'[t] = Append(heard[t], o) /\ pc'[t] = "browser"
      BY <1>0, <1>4, <2>2 DEF Escalate, Hear
    <3>2. Len(heard[t]) = 1
      BY <2>2 DEF Attempts
    <3>3. Len(heard'[t]) = 2 /\ heard'[t][2] = o /\ heard'[t] \in Seq(Outcomes)
      BY <1>1, <3>1, <3>2
    <3>4. QED
      BY <3>1, <3>3
  <2>3. QED
    BY <1>4, <2>1, <2>2 DEF Escalate
<1>5. CASE Raises(t)
  <2>1. /\ heard'[t] = Append(heard[t], "raised") /\ pc'[t] = "done"
        /\ found'[t] = [link |-> t[2], status |-> "failed", page |-> "none"]
    BY <1>0, <1>5 DEF Raises, Finish
  <2>2. QED
    BY <1>0, <1>1, <2>1 DEF Fits, Explains, Results, Statuses, Scrapes
<1>6. CASE EnterLock(t) \/ DriverStarts(t) \/ BrowserLaunches(t)
  BY <1>0, <1>6 DEF EnterLock, DriverStarts, BrowserLaunches, Attempts
<1>7. ASSUME NEW o \in {"nothing", "timeout"}, pc[t] \in Browsing, GiveUp(t, o)
      PROVE  heard'[t] \in Seq(Outcomes) /\ pc'[t] = "done" /\ Fits(t)'
  <2>1. Len(heard[t]) = 2 /\ heard[t][2] \in {"timeout", "refused"}
    BY <1>7 DEF Attempts
  <2>2. /\ heard'[t] = Append(heard[t], o) /\ pc'[t] = "done"
        /\ found'[t] = [link |-> t[2], status |-> StatusAfter(heard[t], o),
                        page |-> "none"]
    BY <1>0, <1>7 DEF GiveUp, Finish
  <2>3. /\ Append(heard[t], o) \in Seq(Outcomes) /\ Len(Append(heard[t], o)) = 3
        /\ Append(heard[t], o)[3] = o
        /\ Append(heard[t], o)[2] = heard[t][2]
    BY <1>1, <2>1
  <2>4. Explains(Append(heard[t], o), StatusAfter(heard[t], o))
    BY <2>1, <2>3 DEF Explains, StatusAfter, LastExc
  <2>5. StatusAfter(heard[t], o) \in {"timeout", "blocked"}
    BY DEF StatusAfter
  <2>6. QED
    BY <1>0, <2>2, <2>3, <2>4, <2>5 DEF Fits, Results, Statuses, Scrapes
<1>8. CASE Scrape(t)
  <2>1. PICK page \in {"success", "failed"} :
          found'[t] = [link |-> t[2], status |-> "success", page |-> page]
    BY <1>0, <1>8 DEF Scrape, Finish
  <2>2. heard' = heard /\ pc'[t] = "done" /\ heard[t][Len(heard[t])] = "ok"
    BY <1>0, <1>8 DEF Scrape, Finish, Attempts
  <2>3. QED
    BY <1>0, <2>1, <2>2 DEF Fits, Explains, Results, Statuses, Scrapes
<1>9. QED
  BY <1>2, <1>3, <1>4, <1>5, <1>6, <1>7, <1>8
     DEF Attempt, TimesOut, BrowserFails, BrowserTimesOut

\* A task leaves the others, and what the runs have stored, alone.
LEMMA AttemptLeaves ==
  ASSUME TypeOK, NEW t \in Tasks, Attempt(t)
  PROVE  /\ \A q \in Tasks \ {t} :
              pc'[q] = pc[q] /\ heard'[q] = heard[q] /\ found'[q] = found[q]
         /\ pc'[t] # "done" => found'[t] = found[t]
         /\ pc[t] # "done"
         /\ UNCHANGED runVars
<1> USE DEF TypeOK
<1>1. CASE Acquire(t) \/ Responds(t) \/ BrowserResponds(t)
  BY <1>1 DEF Acquire, Responds, BrowserResponds, Hear, Http
<1>2. ASSUME NEW o, Escalate(t, o)
      PROVE  /\ \A q \in Tasks \ {t} :
                  pc'[q] = pc[q] /\ heard'[q] = heard[q] /\ found'[q] = found[q]
             /\ found'[t] = found[t] /\ pc[t] # "done" /\ UNCHANGED runVars
  BY <1>2 DEF Escalate, Hear
<1>3. CASE EnterLock(t) \/ DriverStarts(t) \/ BrowserLaunches(t)
  BY <1>3 DEF EnterLock, DriverStarts, BrowserLaunches
<1>4. CASE Raises(t)
  BY <1>4 DEF Raises, Finish, Http
<1>5. CASE Scrape(t)
  BY <1>5 DEF Scrape, Finish
<1>6. CASE BrowserFails(t) \/ BrowserTimesOut(t)
  BY <1>6 DEF BrowserFails, BrowserTimesOut, GiveUp, Finish, Browsing
<1>7. QED
  BY <1>1, <1>2, <1>3, <1>4, <1>5, <1>6 DEF Attempt, TimesOut

\* Between the tasks, a run remembers what they have heard and found or forgets
\* it once it no longer asks.
LEMMA StageMemory ==
  ASSUME TypeOK, NEW r \in Runs, Stage(r)
  PROVE  /\ \A t \in Tasks : t[1] # r => heard'[t] = heard[t] /\ found'[t] = found[t]
         /\ phase'[r] \in {"resolving", "asking"} => heard' = heard /\ found' = found
         /\ \A t \in Tasks : heard'[t] \in {<<>>, heard[t]}
                               /\ found'[t] \in {NoResult, found[t]}
         /\ \A q \in Runs \ {r} : phase'[q] = phase[q]
         /\ phase[r] \in {"resolving", "asking"}
         /\ heard' = [t \in Tasks |-> heard'[t]] /\ found' = [t \in Tasks |-> found'[t]]
         /\ UNCHANGED <<count, permits, pc, browserVars>>
<1> USE DEF TypeOK
<1>1. CASE Store(r)
  BY <1>1 DEF Store
<1>2. CASE NothingToAsk(r)
  BY <1>2 DEF NothingToAsk, Conclude, Forget
<1>3. CASE AskGemini(r)
  BY <1>3 DEF AskGemini, Conclude, Forget
<1>4. QED
  BY <1>1, <1>2, <1>3 DEF Stage

\* The only attempts whose tasks a step may find elsewhere are those of a run
\* that begins.
LEMMA BeginTasks ==
  ASSUME TypeOK, Begun, NEW r \in Runs, Begin(r)
  PROVE  /\ \A t \in Tasks : pc'[t] = pc[t] \/ (pc[t] = "none" /\ pc'[t] = "waiting")
         /\ \A q \in Runs \ {r} : phase'[q] = phase[q] /\ count'[q] = count[q]
         /\ phase'[r] = "resolving" /\ count'[r] \in 0 .. Most[r]
         /\ \A t \in Tasks : t[1] = r => pc'[t] # "done"
         /\ UNCHANGED <<permits, rows, heard, found, browserVars>>
<1>1. PICK n \in 0 .. Most[r] :
        /\ count' = [count EXCEPT ![r] = n]
        /\ pc' = [t \in Tasks |-> IF t[1] = r /\ t[2] <= n THEN "waiting" ELSE pc[t]]
  BY DEF Begin
<1>2. /\ phase[r] = "ready" /\ phase' = [phase EXCEPT ![r] = "resolving"]
      /\ UNCHANGED <<permits, rows, heard, found, browserVars>>
  BY DEF Begin
<1>3. \A t \in Tasks : t[1] = r => pc[t] = "none"
  BY <1>2 DEF Begun
<1>4. /\ \A t \in Tasks : pc'[t] = pc[t] \/ (pc[t] = "none" /\ pc'[t] = "waiting")
      /\ \A t \in Tasks : t[1] = r => pc'[t] # "done"
  BY <1>1, <1>3
<1>5. /\ \A q \in Runs \ {r} : phase'[q] = phase[q] /\ count'[q] = count[q]
      /\ phase'[r] = "resolving" /\ count'[r] \in 0 .. Most[r]
  BY <1>1, <1>2 DEF TypeOK
<1>6. QED
  BY <1>2, <1>4, <1>5

LEMMA AttemptsNext ==
  ASSUME TypeOK, Begun, Attempts, [Next]_vars
  PROVE  Attempts' /\ heard' \in [Tasks -> Seq(Outcomes)]
<1>0. heard \in [Tasks -> Seq(Outcomes)]
  BY DEF TypeOK
<1>1. ASSUME NEW t \in Tasks, Attempt(t)
      PROVE  Attempts' /\ heard' \in [Tasks -> Seq(Outcomes)]
  <2>1. \A q \in Tasks \ {t} : pc'[q] = pc[q] /\ heard'[q] = heard[q]
    BY <1>1, AttemptLeaves
  <2>2. heard' = [q \in Tasks |-> heard'[q]]
    BY <1>0, <1>1 DEF Attempt, Acquire, Responds, Escalate, Raises, EnterLock,
      DriverStarts, BrowserLaunches, BrowserResponds, BrowserFails, TimesOut,
      BrowserTimesOut, Scrape, GiveUp, Hear, Finish
  <2>3. heard'[t] \in Seq(Outcomes) /\ pc'[t] \in {"done"} \cup Working
    BY <1>1, AttemptHeard, AttemptBalances DEF Balanced, TypeOK
  <2>4. heard' \in [Tasks -> Seq(Outcomes)]
    BY <1>0, <2>1, <2>2, <2>3
  <2>5. ASSUME NEW q \in Tasks
        PROVE  /\ pc'[q] \in {"none", "waiting", "plain"} => heard'[q] = <<>>
               /\ pc'[q] = "agent" => Len(heard'[q]) = 1
               /\ pc'[q] \in Browsing =>
                    Len(heard'[q]) = 2 /\ heard'[q][2] \in {"timeout", "refused"}
               /\ pc'[q] = "scraping" =>
                    Len(heard'[q]) >= 1 /\ heard'[q][Len(heard'[q])] = "ok"
    <3>1. CASE q = t
      BY <1>1, <2>3, <3>1, AttemptHeard DEF Working, Http, Browsing
    <3>2. CASE q # t
      BY <2>1, <3>2 DEF Attempts
    <3>3. QED
      BY <3>1, <3>2
  <2>6. QED
    BY <2>4, <2>5 DEF Attempts
<1>2. ASSUME NEW r \in Runs, Begin(r)
      PROVE  Attempts' /\ heard' \in [Tasks -> Seq(Outcomes)]
  <2>1. heard' = heard /\ \A t \in Tasks : pc'[t] = pc[t] \/ (pc[t] = "none" /\ pc'[t] = "waiting")
    BY <1>2, BeginTasks
  <2>2. QED
    BY <1>0, <2>1 DEF Attempts, Browsing
<1>3. ASSUME NEW r \in Runs, Stage(r)
      PROVE  Attempts' /\ heard' \in [Tasks -> Seq(Outcomes)]
  <2>1. \A t \in Tasks : t[1] = r => pc[t] \in {"none", "done"}
    <3>1. phase[r] = "resolving" => AllDone(r)
      BY <1>3 DEF Stage, Store, NothingToAsk, AskGemini
    <3>2. phase[r] \in {"resolving", "asking"}
      BY <1>3, StageMemory
    <3>3. ASSUME NEW t \in Tasks, t[1] = r, pc[t] \notin {"none", "done"} PROVE FALSE
      <4>1. phase[r] = "resolving" /\ t[2] \in 1 .. count[r] /\ t = <<r, t[2]>>
        BY <3>3, TaskParts DEF Begun, TypeOK
      <4>2. pc[t] = "done"
        BY <3>1, <4>1 DEF AllDone
      <4>3. QED
        BY <3>3, <4>2
    <3>4. QED
      BY <3>3
  <2>2. /\ pc' = pc
        /\ \A t \in Tasks : t[1] # r => heard'[t] = heard[t]
        /\ \A t \in Tasks : heard'[t] \in {<<>>, heard[t]}
        /\ heard' = [t \in Tasks |-> heard'[t]]
    BY <1>3, StageMemory
  <2>3. heard' \in [Tasks -> Seq(Outcomes)]
    <3>1. <<>> \in Seq(Outcomes) /\ \A t \in Tasks : heard[t] \in Seq(Outcomes)
      BY <1>0
    <3>2. QED
      BY <2>2, <3>1
  <2>4. ASSUME NEW t \in Tasks
        PROVE  \/ pc'[t] = "none" /\ heard'[t] = <<>>
               \/ pc'[t] = "done"
               \/ pc'[t] = pc[t] /\ heard'[t] = heard[t]
    BY <2>1, <2>2 DEF Attempts
  <2>5. QED
    BY <2>3, <2>4 DEF Attempts, Browsing
<1>4. CASE BrowserCrashes \/ UNCHANGED vars
  BY <1>0, <1>4 DEF BrowserCrashes, vars, Attempts
<1>5. QED
  BY <1>1, <1>2, <1>3, <1>4 DEF Next

LEMMA ResultsNext ==
  ASSUME TypeOK, Begun, Attempts, ResultsFit, [Next]_vars
  PROVE  ResultsFit'
<1>1. ASSUME NEW t \in Tasks, Attempt(t) PROVE ResultsFit'
  <2>1. SUFFICES ASSUME NEW q \in Tasks,
                        pc'[q] = "done", phase'[q[1]] \in {"resolving", "asking"}
                 PROVE  Fits(q)'
    BY DEF ResultsFit
  <2>2. phase' = phase
    BY <1>1, AttemptLeaves DEF runVars
  <2>3. CASE q = t
    BY <1>1, <2>1, <2>3, AttemptHeard
  <2>4. CASE q # t
    <3>1. Fits(q) /\ heard'[q] = heard[q] /\ found'[q] = found[q]
      BY <1>1, <2>1, <2>2, <2>4, AttemptLeaves DEF ResultsFit
    <3>2. QED
      BY <3>1 DEF Fits
  <2>5. QED
    BY <2>3, <2>4
<1>2. ASSUME NEW r \in Runs, Begin(r) PROVE ResultsFit'
  <2>1. SUFFICES ASSUME NEW q \in Tasks,
                        pc'[q] = "done", phase'[q[1]] \in {"resolving", "asking"}
                 PROVE  Fits(q)'
    BY DEF ResultsFit
  <2>2. q[1] # r /\ q[1] \in Runs /\ pc[q] = "done" /\ phase'[q[1]] = phase[q[1]]
    BY <1>2, <2>1, BeginTasks, TaskParts
  <2>3. Fits(q) /\ heard' = heard /\ found' = found
    BY <1>2, <2>1, <2>2, BeginTasks DEF ResultsFit
  <2>4. QED
    BY <2>3 DEF Fits
<1>3. ASSUME NEW r \in Runs, Stage(r) PROVE ResultsFit'
  <2>1. SUFFICES ASSUME NEW q \in Tasks,
                        pc'[q] = "done", phase'[q[1]] \in {"resolving", "asking"}
                 PROVE  Fits(q)'
    BY DEF ResultsFit
  <2>2. pc[q] = "done" /\ phase[q[1]] \in {"resolving", "asking"}
    BY <1>3, <2>1, StageMemory, TaskParts
  <2>3. heard'[q] = heard[q] /\ found'[q] = found[q]
    BY <1>3, <2>1, StageMemory
  <2>4. Fits(q)
    BY <2>2 DEF ResultsFit
  <2>5. QED
    BY <2>3, <2>4 DEF Fits
<1>4. CASE BrowserCrashes \/ UNCHANGED vars
  <2>1. phase' = phase /\ pc' = pc /\ heard' = heard /\ found' = found
    BY <1>4 DEF BrowserCrashes, vars, runVars
  <2>2. QED
    BY <2>1 DEF ResultsFit, Fits
<1>5. QED
  BY <1>1, <1>2, <1>3, <1>4 DEF Next

-----------------------------------------------------------------------------
(***************************************************************************)
(* Rows.                                                                   *)
(***************************************************************************)

LEMMA RowsNext ==
  ASSUME TypeOK, Begun, ResultsFit, RowsGathered, [Next]_vars
  PROVE  RowsGathered'
<1>0. \A r \in Runs : \A i \in 1 .. count[r] : <<r, i>> \in Tasks
  BY BoundAssumption DEF TypeOK, Tasks, Places
<1>1. ASSUME NEW t \in Tasks, Attempt(t) PROVE RowsGathered'
  <2>1. /\ phase' = phase /\ count' = count /\ rows' = rows /\ pc[t] # "done"
        /\ \A q \in Tasks \ {t} : pc'[q] = pc[q] /\ found'[q] = found[q]
    BY <1>1, AttemptLeaves DEF runVars
  <2>2. ASSUME NEW r \in Runs, phase[r] = "asking"
        PROVE  (AllDone(r) /\ rows[r] = Gathered(r))'
    <3>1. AllDone(r) /\ rows[r] = Gathered(r)
      BY <2>2 DEF RowsGathered
    <3>2. \A i \in 1 .. count[r] : <<r, i>> # t
      BY <2>1, <3>1 DEF AllDone
    <3>3. \A i \in 1 .. count[r] : /\ pc'[<<r, i>>] = pc[<<r, i>>]
                                    /\ found'[<<r, i>>] = found[<<r, i>>]
      BY <1>0, <2>1, <3>2
    <3>4. QED
      BY <2>1, <3>1, <3>3 DEF AllDone, Gathered
  <2>3. QED
    BY <2>1, <2>2 DEF RowsGathered
<1>2. ASSUME NEW r \in Runs, Begin(r) PROVE RowsGathered'
  <2>1. SUFFICES ASSUME NEW q \in Runs, phase'[q] = "asking"
                 PROVE  (AllDone(q) /\ rows[q] = Gathered(q))'
    BY DEF RowsGathered
  <2>2. q # r
    BY <1>2, <2>1, BeginTasks
  <2>3. /\ phase'[q] = phase[q] /\ count'[q] = count[q]
        /\ rows' = rows /\ found' = found
        /\ \A t \in Tasks : pc'[t] = pc[t] \/ (pc[t] = "none" /\ pc'[t] = "waiting")
    BY <1>2, <2>2, BeginTasks
  <2>4. AllDone(q) /\ rows[q] = Gathered(q)
    BY <2>1, <2>3 DEF RowsGathered
  <2>5. \A i \in 1 .. count[q] : pc'[<<q, i>>] = "done"
    BY <1>0, <2>3, <2>4 DEF AllDone
  <2>6. QED
    BY <2>3, <2>4, <2>5 DEF AllDone, Gathered
<1>3. ASSUME NEW r \in Runs, Stage(r) PROVE RowsGathered'
  <2>1. SUFFICES ASSUME NEW q \in Runs, phase'[q] = "asking"
                 PROVE  (AllDone(q) /\ rows[q] = Gathered(q))'
    BY DEF RowsGathered
  <2>2. CASE q # r
    <3>1. phase'[q] = phase[q] /\ count' = count /\ pc' = pc
      BY <1>3, <2>2, StageMemory
    <3>2. rows'[q] = rows[q]
      BY <1>3, <2>2 DEF Stage, Store, NothingToAsk, AskGemini, TypeOK
    <3>3. AllDone(q) /\ rows[q] = Gathered(q)
      BY <2>1, <3>1 DEF RowsGathered
    <3>4. \A i \in 1 .. count[q] : found'[<<q, i>>] = found[<<q, i>>]
      BY <1>0, <1>3, <2>2, StageMemory
    <3>5. QED
      BY <3>1, <3>2, <3>3, <3>4 DEF AllDone, Gathered
  <2>3. CASE q = r
    <3>1. CASE Store(r)
      BY <2>3, <3>1 DEF Store, AllDone, Gathered, TypeOK
    <3>2. CASE NothingToAsk(r) \/ AskGemini(r)
      <4>1. phase[r] = "asking" /\ rows' = rows
        BY <3>2 DEF NothingToAsk, AskGemini
      <4>2. AllDone(r) /\ rows[r] = Gathered(r)
        BY <4>1 DEF RowsGathered
      <4>3. found' = found /\ pc' = pc /\ count' = count
        BY <1>3, <2>1, <2>3, StageMemory
      <4>4. QED
        BY <2>3, <4>1, <4>2, <4>3 DEF AllDone, Gathered
    <3>3. QED
      BY <1>3, <3>1, <3>2 DEF Stage
  <2>4. QED
    BY <2>2, <2>3
<1>4. CASE BrowserCrashes \/ UNCHANGED vars
  BY <1>4 DEF BrowserCrashes, vars, runVars, RowsGathered, AllDone, Gathered
<1>5. QED
  BY <1>1, <1>2, <1>3, <1>4 DEF Next

-----------------------------------------------------------------------------
(***************************************************************************)
(* The browser.                                                            *)
(***************************************************************************)

LEMMA LockNext ==
  ASSUME TypeOK, Begun, LockHeld, OneBrowser, [Next]_vars
  PROVE  LockHeld' /\ OneBrowser'
<1> USE DEF Starting
<1>0. /\ drivers \in Nat /\ lost \in Nat
      /\ pc \in [Tasks -> {"none", "waiting", "done"} \cup Working]
  BY DEF TypeOK
<1>1. ASSUME UNCHANGED browserVars,
             \A q \in Tasks : Starting(q)' <=> Starting(q),
             \A q \in Tasks : pc'[q] = "launching" <=> pc[q] = "launching"
      PROVE  LockHeld' /\ OneBrowser'
  BY <1>1 DEF browserVars, LockHeld, OneBrowser, Owned
<1>2. ASSUME NEW t \in Tasks, Attempt(t) PROVE LockHeld' /\ OneBrowser'
  <2> DEFINE Moves(label) == pc' = [pc EXCEPT ![t] = label]
  <2>1. CASE \/ Acquire(t) \/ Responds(t) \/ BrowserResponds(t)
             \/ Raises(t) \/ Scrape(t) \/ \E o : Escalate(t, o)
    <3>1. /\ UNCHANGED browserVars /\ ~Starting(t)
          /\ \E label \in {"plain", "scraping", "agent", "browser", "done"} : Moves(label)
      BY <2>1 DEF Acquire, Responds, BrowserResponds, Raises, Scrape, Escalate, Hear,
        Finish, Http
    <3>2. QED
      BY <1>0, <1>1, <3>1
  <2>2. CASE EnterLock(t)
    <3>1. CASE browser = "none"
      <4>1. /\ pc'[t] = "starting" /\ \A q \in Tasks \ {t} : pc'[q] = pc[q]
            /\ pc[t] = "browser" /\ lock = NoTask /\ lock' = t
            /\ UNCHANGED <<browser, drivers, lost>>
        BY <1>0, <2>2, <3>1 DEF EnterLock
      <4>2. \A q \in Tasks : ~Starting(q)
        BY <4>1, NoTaskAssumption DEF LockHeld
      <4>3. LockHeld'
        BY <3>1, <4>1, <4>2 DEF LockHeld
      <4>4. ~Owned /\ ~Owned'
        BY <3>1, <4>1, <4>2 DEF Owned
      <4>5. OneBrowser'
        BY <4>1, <4>4 DEF OneBrowser
      <4>6. QED
        BY <4>3, <4>5
    <3>2. CASE browser # "none"
      BY <1>0, <2>2, <3>2 DEF EnterLock, LockHeld, OneBrowser, Owned
    <3>3. QED
      BY <3>1, <3>2
  <2>3. CASE DriverStarts(t)
    <3>1. /\ lock = t /\ lock # NoTask /\ browser = "none"
          /\ \A q \in Tasks \ {t} : ~Starting(q)
      BY <2>3, NoTaskAssumption DEF DriverStarts, LockHeld
    <3>2. /\ pc'[t] = "launching" /\ \A q \in Tasks \ {t} : pc'[q] = pc[q]
          /\ drivers' = drivers + 1 /\ lock' = lock /\ browser' = browser /\ lost' = lost
          /\ pc[t] = "starting"
      BY <1>0, <2>3 DEF DriverStarts
    <3>3. ~Owned /\ Owned'
      BY <3>1, <3>2 DEF Owned
    <3>4. OneBrowser'
      BY <1>0, <3>2, <3>3 DEF OneBrowser
    <3>5. LockHeld'
      BY <3>1, <3>2 DEF LockHeld
    <3>6. QED
      BY <3>4, <3>5
  <2>4. CASE BrowserLaunches(t)
    <3>1. /\ lock = t /\ lock # NoTask /\ browser = "none"
          /\ \A q \in Tasks \ {t} : ~Starting(q)
      BY <2>4, NoTaskAssumption DEF BrowserLaunches, LockHeld
    <3>2. /\ pc'[t] = "rendering" /\ \A q \in Tasks \ {t} : pc'[q] = pc[q]
          /\ drivers' = drivers /\ lock' = NoTask /\ browser' = "live" /\ lost' = lost
          /\ pc[t] = "launching"
      BY <1>0, <2>4 DEF BrowserLaunches
    <3>3. Owned /\ Owned'
      BY <3>2 DEF Owned
    <3>4. OneBrowser'
      BY <3>2, <3>3 DEF OneBrowser
    <3>5. LockHeld'
      BY <3>1, <3>2 DEF LockHeld
    <3>6. QED
      BY <3>4, <3>5
  <2>5. CASE BrowserFails(t) \/ BrowserTimesOut(t)
    <3>1. /\ Abandon(t) /\ pc[t] \in Browsing
          /\ pc'[t] = "done" /\ \A q \in Tasks \ {t} : pc'[q] = pc[q]
          /\ lock' = IF lock = t THEN NoTask ELSE lock
          /\ browser' = browser
      BY <1>0, <2>5 DEF BrowserFails, BrowserTimesOut, GiveUp, Finish
    <3>2. LockHeld'
      BY <3>1, NoTaskAssumption DEF LockHeld
    <3>3. CASE pc[t] \in {"browser", "rendering"}
      <4>1. drivers' = drivers /\ lost' = lost /\ (Owned' <=> Owned)
        BY <3>1, <3>3 DEF Abandon, Owned
      <4>2. QED
        BY <3>2, <4>1 DEF OneBrowser
    <3>4. CASE Starting(t)
      <4>1. /\ lock = t /\ browser = "none" /\ \A q \in Tasks \ {t} : ~Starting(q)
        BY <3>4, NoTaskAssumption DEF LockHeld
      <4>2. ~Owned' /\ (Owned <=> pc[t] = "launching")
        BY <3>1, <4>1 DEF Owned
      <4>3. CASE pc[t] = "starting"
        BY <1>0, <3>1, <3>2, <4>2, <4>3 DEF Abandon, OneBrowser
      <4>4. CASE pc[t] = "launching"
        BY <1>0, <3>1, <3>2, <4>2, <4>4 DEF Abandon, OneBrowser
      <4>5. QED
        BY <3>4, <4>3, <4>4
    <3>5. QED
      BY <3>1, <3>3, <3>4 DEF Browsing
  <2>6. QED
    BY <1>2, <2>1, <2>2, <2>3, <2>4, <2>5 DEF Attempt, TimesOut
<1>3. ASSUME NEW r \in Runs, Begin(r) PROVE LockHeld' /\ OneBrowser'
  BY <1>1, <1>3, BeginTasks
<1>4. ASSUME NEW r \in Runs, Stage(r) PROVE LockHeld' /\ OneBrowser'
  BY <1>1, <1>4, StageMemory
<1>5. CASE BrowserCrashes
  <2>1. lock = NoTask
    BY <1>5 DEF BrowserCrashes, LockHeld
  <2>2. QED
    BY <1>5, <2>1 DEF BrowserCrashes, LockHeld, OneBrowser, Owned
<1>6. CASE UNCHANGED vars
  BY <1>1, <1>6 DEF vars
<1>7. QED
  BY <1>2, <1>3, <1>4, <1>5, <1>6 DEF Next

-----------------------------------------------------------------------------
(***************************************************************************)
(* Types, and the invariant as a whole.                                    *)
(***************************************************************************)

\* What a conclusion stores about a run's pages.
LEMMA ConcludeType ==
  ASSUME TypeOK, NEW r \in Runs, NEW items \in Seq(Items), Conclude(r, items)
  PROVE  /\ phase' \in [Runs -> Phases]
         /\ answer' \in [Runs -> Seq(Items)]
         /\ verdicts' \in [Runs -> [Places -> {NoRow, Blank} \cup Places]]
<1>1. PageRows(r, items) \in [Places -> {NoRow, Blank} \cup Places]
  <2>1. \A i \in Places : VerdictFrom(items, BatchIndex(r, i)) \in {Blank} \cup Places
    BY VerdictType
  <2>2. QED
    BY <2>1 DEF PageRows
<1>2. QED
  BY <1>1 DEF Conclude, TypeOK, Phases

LEMMA TypeNext ==
  ASSUME TypeOK, ResultsFit, [Next]_vars,
         permits' \in [Runs -> 0 .. Permits],
         heard' \in [Tasks -> Seq(Outcomes)]
  PROVE  TypeOK'
<1>1. ASSUME NEW t \in Tasks, Attempt(t) PROVE TypeOK'
  <2>1. UNCHANGED runVars
    BY <1>1, AttemptLeaves
  <2>2. pc' \in [Tasks -> {"none", "waiting", "done"} \cup Working]
    BY <1>1, AttemptBalances DEF Balanced, TypeOK
  <2>3. found' \in [Tasks -> Results \cup {NoResult}]
    <3>1. ASSUME NEW status \in Statuses, NEW page \in Scrapes, Finish(t, status, page)
          PROVE  found' \in [Tasks -> Results \cup {NoResult}]
      BY <3>1, TaskParts DEF Finish, TypeOK, Results
    <3>2. CASE Raises(t)
      BY <3>1, <3>2 DEF Raises, Statuses, Scrapes
    <3>3. CASE Scrape(t)
      BY <3>1, <3>3 DEF Scrape, Statuses, Scrapes
    <3>4. CASE BrowserFails(t) \/ BrowserTimesOut(t)
      BY <3>1, <3>4 DEF BrowserFails, BrowserTimesOut, GiveUp, StatusAfter, Statuses,
        Scrapes
    <3>5. CASE found' = found
      BY <3>5 DEF TypeOK
    <3>6. QED
      BY <1>1, <3>2, <3>3, <3>4, <3>5 DEF Attempt, Acquire, Responds, Escalate, EnterLock,
        DriverStarts, BrowserLaunches, BrowserResponds, TimesOut, Hear
  <2>4. /\ lock' \in Tasks \cup {NoTask} /\ browser' \in {"none", "live", "crashed"}
        /\ drivers' \in Nat /\ lost' \in Nat
    <3>1. CASE UNCHANGED browserVars
      BY <3>1 DEF browserVars, TypeOK
    <3>2. CASE EnterLock(t) \/ DriverStarts(t) \/ BrowserLaunches(t)
      BY <3>2 DEF EnterLock, DriverStarts, BrowserLaunches, TypeOK
    <3>3. CASE BrowserFails(t) \/ BrowserTimesOut(t)
      BY <3>3 DEF BrowserFails, BrowserTimesOut, GiveUp, Abandon, TypeOK
    <3>4. QED
      BY <1>1, <3>1, <3>2, <3>3 DEF Attempt, Acquire, Responds, Escalate, Raises,
        BrowserResponds, TimesOut, Scrape
  <2>5. QED
    BY <2>1, <2>2, <2>3, <2>4 DEF TypeOK, runVars
<1>2. ASSUME NEW r \in Runs, Begin(r) PROVE TypeOK'
  <2>1. PICK n \in 0 .. Most[r] :
          /\ count' = [count EXCEPT ![r] = n]
          /\ pc' = [t \in Tasks |-> IF t[1] = r /\ t[2] <= n THEN "waiting" ELSE pc[t]]
    BY <1>2 DEF Begin
  <2>2. n \in 0 .. MaxLinks
    BY MostAssumption, BoundAssumption
  <2>3. /\ count' \in [Runs -> 0 .. MaxLinks]
        /\ pc' \in [Tasks -> {"none", "waiting", "done"} \cup Working]
    BY <2>1, <2>2 DEF TypeOK
  <2>4. /\ phase' = [phase EXCEPT ![r] = "resolving"]
        /\ UNCHANGED <<rows, asked, answer, verdicts, heard, found, browserVars>>
    BY <1>2 DEF Begin
  <2>5. QED
    BY <2>3, <2>4 DEF TypeOK, browserVars, Phases
<1>3. ASSUME NEW r \in Runs, Stage(r) PROVE TypeOK'
  <2>1. found' \in [Tasks -> Results \cup {NoResult}]
    <3>1. /\ \A t \in Tasks : found'[t] \in {NoResult, found[t]}
          /\ found' = [t \in Tasks |-> found'[t]]
      BY <1>3, StageMemory
    <3>2. \A t \in Tasks : found[t] \in Results \cup {NoResult}
      BY DEF TypeOK
    <3>3. QED
      BY <3>1, <3>2
  <2>2. UNCHANGED <<count, pc, browserVars>>
    BY <1>3, StageMemory
  <2>3. rows' \in [Runs -> Seq(Results)]
    <3>1. CASE Store(r)
      <4>1. Gathered(r) \in Seq(Results)
        BY <3>1, GatheredType DEF Store
      <4>2. QED
        BY <3>1, <4>1 DEF Store, TypeOK
    <3>2. CASE rows' = rows
      BY <3>2 DEF TypeOK
    <3>3. QED
      BY <1>3, <3>1, <3>2 DEF Stage, NothingToAsk, AskGemini
  <2>4. asked' \in [Runs -> 0 .. 2]
    BY <1>3 DEF Stage, Store, NothingToAsk, AskGemini, TypeOK
  <2>5. /\ phase' \in [Runs -> Phases]
        /\ answer' \in [Runs -> Seq(Items)]
        /\ verdicts' \in [Runs -> [Places -> {NoRow, Blank} \cup Places]]
    <3>1. ASSUME NEW items \in Seq(Items), Conclude(r, items)
          PROVE  /\ phase' \in [Runs -> Phases]
                 /\ answer' \in [Runs -> Seq(Items)]
                 /\ verdicts' \in [Runs -> [Places -> {NoRow, Blank} \cup Places]]
      BY <3>1, ConcludeType
    <3>2. CASE \E items \in Seq(Items) : Conclude(r, items)
      BY <3>1, <3>2
    <3>3. CASE /\ UNCHANGED <<answer, verdicts>>
               /\ \/ phase' = phase
                  \/ \E p \in Phases : phase' = [phase EXCEPT ![r] = p]
      BY <3>3 DEF TypeOK
    <3>4. CASE Store(r)
      BY <3>3, <3>4 DEF Store, Phases
    <3>5. CASE NothingToAsk(r)
      <4>1. <<>> \in Seq(Items)
        OBVIOUS
      <4>2. QED
        BY <3>1, <3>5, <4>1 DEF NothingToAsk
    <3>6. CASE AskGemini(r)
      BY <3>2, <3>3, <3>6, AnswersType DEF AskGemini, Phases
    <3>7. QED
      BY <1>3, <3>4, <3>5, <3>6 DEF Stage
  <2>6. QED
    BY <2>1, <2>2, <2>3, <2>4, <2>5 DEF TypeOK, browserVars
<1>4. CASE BrowserCrashes
  BY <1>4 DEF BrowserCrashes, TypeOK, runVars
<1>5. CASE UNCHANGED vars
  BY <1>5 DEF TypeOK, vars, runVars, browserVars
<1>6. QED
  BY <1>1, <1>2, <1>3, <1>4, <1>5 DEF Next

LEMMA InvInit == Init => Inv
<1> SUFFICES ASSUME Init PROVE Inv
  OBVIOUS
<1>1. TypeOK
  BY PermitsType, BoundAssumption DEF Init, TypeOK, Phases
<1>2. Begun /\ Attempts /\ ResultsFit /\ RowsGathered
  BY TaskParts DEF Init, Begun, Attempts, ResultsFit, RowsGathered, Working, Http, Browsing
<1>3. LockHeld /\ OneBrowser
  BY DEF Init, LockHeld, Starting, OneBrowser, Owned
<1>4. PermitsAccount
  <2>1. \A r \in Runs : AtWork(r) = {}
    BY TaskParts DEF Init, AtWork, Working, Http, Browsing
  <2>2. \A r \in Runs : permits[r] = Permits /\ Cardinality(AtWork(r)) = 0
    BY <2>1, FS_EmptySet DEF Init
  <2>3. QED
    BY <2>2, PermitsType DEF PermitsAccount
<1>5. QED
  BY <1>1, <1>2, <1>3, <1>4 DEF Inv

LEMMA InvNext == Inv /\ [Next]_vars => Inv'
<1> SUFFICES ASSUME Inv, [Next]_vars PROVE Inv'
  OBVIOUS
<1> USE DEF Inv
<1>1. PermitsAccount' /\ permits' \in [Runs -> 0 .. Permits]
  BY PermitsNext
<1>2. Attempts' /\ heard' \in [Tasks -> Seq(Outcomes)]
  BY AttemptsNext
<1>3. TypeOK'
  BY <1>1, <1>2, TypeNext
<1>4. Begun' /\ ResultsFit' /\ RowsGathered'
  BY BegunNext, ResultsNext, RowsNext
<1>5. LockHeld' /\ OneBrowser'
  BY LockNext
<1>6. QED
  BY <1>1, <1>2, <1>3, <1>4, <1>5

LEMMA Invariance == Spec => []Inv
  BY InvInit, InvNext, PTL DEF Spec

\* Every variable keeps its type; the verdicts rest on LastExists, the permits
\* on PermitsAccount.
THEOREM TypeCorrect == Spec => []TypeOK
<1>1. Inv => TypeOK
  BY DEF Inv
<1>2. QED
  BY <1>1, Invariance, PTL

\* No more links of an email are at work than its semaphore allows, for any
\* number of links and permits.
THEOREM CapKept == Spec => []CapHolds
<1>1. Inv => CapHolds
  <2> SUFFICES ASSUME Inv, NEW r \in Runs PROVE Cardinality(AtWork(r)) <= Permits
    BY DEF CapHolds
  <2>1. permits[r] \in Int /\ permits[r] >= 0
    BY PermitsType DEF Inv, TypeOK
  <2>2. permits[r] + Cardinality(AtWork(r)) = Permits
    BY DEF Inv, PermitsAccount
  <2>3. QED
    BY <2>1, <2>2, AtWorkFinite, PermitsType
<1>2. QED
  BY <1>1, Invariance, PTL

\* Every Playwright process is the one the service refers to or was left by a
\* start or a launch that failed or was cut off.
THEOREM BrowsersAccounted == Spec => []OneBrowser
<1>1. Inv => OneBrowser
  BY DEF Inv
<1>2. QED
  BY <1>1, Invariance, PTL

\* The rows of a run are about its links, in their order, and say what the
\* attempts at them came to.
THEOREM RowsFaithful == Spec => []RowsTellTheirLinks
<1>1. Inv => RowsTellTheirLinks
  <2> SUFFICES ASSUME Inv, NEW r \in Runs, phase[r] = "asking"
               PROVE  /\ Len(rows[r]) = count[r]
                      /\ \A i \in 1 .. count[r] :
                           /\ rows[r][i].link = i
                           /\ Explains(heard[<<r, i>>], rows[r][i].status)
                           /\ rows[r][i].page # "none" <=> rows[r][i].status = "success"
    BY DEF RowsTellTheirLinks
  <2>1. AllDone(r) /\ rows[r] = Gathered(r)
    BY DEF Inv, RowsGathered
  <2>2. /\ Len(Gathered(r)) = count[r]
        /\ \A i \in 1 .. count[r] : Gathered(r)[i] = found[<<r, i>>] /\ Fits(<<r, i>>)
    BY <2>1, GatheredType DEF Inv
  <2>3. QED
    BY <2>1, <2>2 DEF Fits
<1>2. QED
  BY <1>1, Invariance, PTL

-----------------------------------------------------------------------------
(***************************************************************************)
(* The prompt: the places of the scraped pages, in their order, and the    *)
(* index of each is its rank among them.                                   *)
(***************************************************************************)
Rank(S, n) == Cardinality({j \in 1 .. n : j \in S})

\* The equation of the loop that collects pages: p[n] is what it has collected
\* after n links.
IsPrompt(p, S) ==
  p = [n \in 0 .. MaxLinks |->
         IF n = 0 THEN <<>>
         ELSE IF n \in S THEN Append(p[n - 1], n)
         ELSE p[n - 1]]

LEMMA RankFinite ==
  ASSUME NEW S, NEW n \in Nat
  PROVE  IsFiniteSet({j \in 1 .. n : j \in S})
<1>1. IsFiniteSet(1 .. n)
  BY FS_Interval
<1>2. QED
  BY <1>1, FS_Subset

LEMMA RankType ==
  ASSUME NEW S, NEW n \in Nat
  PROVE  Rank(S, n) \in Nat
  BY RankFinite, FS_CardinalityType DEF Rank

LEMMA RankZero ==
  ASSUME NEW S
  PROVE  Rank(S, 0) = 0
<1>1. {j \in 1 .. 0 : j \in S} = {}
  OBVIOUS
<1>2. QED
  BY <1>1, FS_EmptySet DEF Rank

LEMMA RankStep ==
  ASSUME NEW S, NEW n \in Nat \ {0}
  PROVE  Rank(S, n) = Rank(S, n - 1) + IF n \in S THEN 1 ELSE 0
<1> DEFINE Upto(m) == {j \in 1 .. m : j \in S}
<1>1. n - 1 \in Nat /\ n \notin Upto(n - 1)
  OBVIOUS
<1>2. IsFiniteSet(Upto(n - 1)) /\ Rank(S, n - 1) \in Nat
  BY <1>1, RankFinite, RankType
<1>3. CASE n \in S
  <2>1. Upto(n) = Upto(n - 1) \cup {n}
    BY <1>3
  <2>2. Cardinality(Upto(n - 1) \cup {n}) = Cardinality(Upto(n - 1)) + 1
    BY <1>1, <1>2, FS_AddElement
  <2>3. QED
    BY <1>3, <2>1, <2>2 DEF Rank
<1>4. CASE n \notin S
  <2>1. Upto(n) = Upto(n - 1)
    BY <1>4
  <2>2. QED
    BY <1>2, <1>4, <2>1 DEF Rank
<1>5. QED
  BY <1>3, <1>4

LEMMA RankMonotone ==
  ASSUME NEW S, NEW m \in Nat, NEW n \in Nat, m <= n
  PROVE  Rank(S, m) <= Rank(S, n)
<1>1. {j \in 1 .. m : j \in S} \subseteq {j \in 1 .. n : j \in S}
  OBVIOUS
<1>2. QED
  BY <1>1, RankFinite, FS_Subset DEF Rank

\* Ranks grow, and strictly at the members of S.
LEMMA RankGrows ==
  ASSUME NEW S, NEW m \in Nat, NEW n \in Nat, m < n, n \in S
  PROVE  Rank(S, m) < Rank(S, n)
<1>1. n - 1 \in Nat /\ n \in Nat \ {0} /\ m <= n - 1
  OBVIOUS
<1>2. Rank(S, m) <= Rank(S, n - 1)
  BY <1>1, RankMonotone
<1>3. Rank(S, n) = Rank(S, n - 1) + 1
  BY <1>1, RankStep
<1>4. Rank(S, m) \in Nat /\ Rank(S, n - 1) \in Nat
  BY <1>1, RankType
<1>5. QED
  BY <1>2, <1>3, <1>4

\* Every rank up to the last is the rank of one member.
LEMMA RankTaken ==
  ASSUME NEW S, NEW n \in Nat, NEW k \in 1 .. Rank(S, n)
  PROVE  \E i \in S : i \in 1 .. n /\ Rank(S, i) = k
<1> DEFINE T == {m \in 1 .. n : Rank(S, m - 1) < k}
<1>1. Rank(S, n) \in Nat /\ Rank(S, 0) = 0
  BY RankType, RankZero
<1>2. n >= 1
  BY <1>1
<1>3. 1 \in T
  BY <1>1, <1>2
<1>4. PICK m \in T : \A x \in T : x <= m
  <2>1. T \in SUBSET (1 .. n) /\ T # {}
    BY <1>3
  <2> HIDE DEF T
  <2>2. QED
    BY <2>1, LastExists
<1>5. m \in 1 .. n /\ Rank(S, m - 1) < k
  BY <1>4
<1>6. Rank(S, m) >= k
  <2>1. m = n => Rank(S, m) >= k
    BY <1>1
  <2>2. ASSUME m < n
        PROVE  Rank(S, m) >= k
    <3>1. m + 1 \in 1 .. n /\ m + 1 \notin T /\ (m + 1) - 1 = m
      BY <1>4, <1>5, <2>2
    <3>2. ~ (Rank(S, m) < k)
      BY <3>1
    <3>3. m \in Nat
      BY <1>5
    <3>4. Rank(S, m) \in Nat
      BY <3>3, RankType
    <3>5. QED
      BY <3>2, <3>4
  <2>3. QED
    BY <1>5, <2>1, <2>2
<1>7. /\ Rank(S, m) \in Nat /\ Rank(S, m - 1) \in Nat
      /\ Rank(S, m) = Rank(S, m - 1) + IF m \in S THEN 1 ELSE 0
  <2>1. m \in Nat \ {0} /\ m \in Nat /\ m - 1 \in Nat
    BY <1>5
  <2>2. QED
    BY <2>1, RankStep, RankType
<1>8. m \in S /\ Rank(S, m) = k
  BY <1>5, <1>6, <1>7
<1>9. QED
  BY <1>5, <1>8

\* The loop ends with the members of S in the order of their ranks.
LEMMA PromptLoop ==
  ASSUME NEW S \in SUBSET Places
  PROVE  \E p : /\ IsPrompt(p, S)
                /\ p[MaxLinks] \in Seq(Places)
                /\ Len(p[MaxLinks]) = Rank(S, MaxLinks)
                /\ \A k \in 1 .. Rank(S, MaxLinks) :
                     p[MaxLinks][k] \in S /\ Rank(S, p[MaxLinks][k]) = k
<1> DEFINE At(k) == CHOOSE i \in S : Rank(S, i) = k
           list(m) == [k \in 1 .. m |-> At(k)]
           p == [n \in 0 .. MaxLinks |-> list(Rank(S, n))]
<1>1. MaxLinks \in Nat /\ S \subseteq Nat \ {0}
  BY BoundAssumption DEF Places
<1>2. \A n \in 0 .. MaxLinks : Rank(S, n) \in Nat
  <2>1. \A n \in 0 .. MaxLinks : n \in Nat
    OBVIOUS
  <2>2. QED
    BY <2>1, RankType
<1>3. ASSUME NEW k \in 1 .. Rank(S, MaxLinks)
      PROVE  At(k) \in S /\ Rank(S, At(k)) = k
  BY <1>1, RankTaken
<1>4. ASSUME NEW i \in S
      PROVE  At(Rank(S, i)) = i
  <2>1. PICK j \in S : j = At(Rank(S, i)) /\ Rank(S, j) = Rank(S, i)
    OBVIOUS
  <2>2. i \in Nat /\ j \in Nat
    BY <1>1
  <2>3. ~ (i < j) /\ ~ (j < i)
    <3>1. Rank(S, i) \in Nat
      BY <2>2, RankType
    <3>2. QED
      BY <2>1, <2>2, <3>1, RankGrows
  <2>4. QED
    BY <2>1, <2>2, <2>3
<1>5. ASSUME NEW n \in 0 .. MaxLinks
      PROVE  Rank(S, n) <= Rank(S, MaxLinks)
  <2>1. n \in Nat /\ n <= MaxLinks
    OBVIOUS
  <2>2. QED
    BY <1>1, <2>1, RankMonotone
<1> HIDE DEF At
<1>6. ASSUME NEW n \in 0 .. MaxLinks
      PROVE  list(Rank(S, n)) \in Seq(S)
  <2>1. \A k \in 1 .. Rank(S, n) : At(k) \in S
    BY <1>1, <1>2, <1>3, <1>5
  <2>2. QED
    BY <1>2, <2>1
<1>7. ASSUME NEW n \in 0 .. MaxLinks
      PROVE  p[n] = IF n = 0 THEN <<>>
                    ELSE IF n \in S THEN Append(p[n - 1], n)
                    ELSE p[n - 1]
  <2>1. CASE n = 0
    <3>1. Rank(S, n) = 0
      BY <2>1, RankZero
    <3>2. list(0) = <<>>
      OBVIOUS
    <3>3. QED
      BY <2>1, <3>1, <3>2
  <2>2. ASSUME n # 0
        PROVE  /\ n - 1 \in 0 .. MaxLinks
               /\ Rank(S, n) = Rank(S, n - 1) + IF n \in S THEN 1 ELSE 0
    <3>1. n \in Nat \ {0} /\ n - 1 \in 0 .. MaxLinks
      BY <1>1, <2>2
    <3>2. QED
      BY <3>1, RankStep
  <2>3. CASE n # 0 /\ n \notin S
    <3>1. Rank(S, n) = Rank(S, n - 1)
      BY <1>2, <2>2, <2>3
    <3> HIDE DEF list
    <3>2. QED
      BY <2>2, <2>3, <3>1
  <2>4. CASE n # 0 /\ n \in S
    <3>1. PICK m \in Nat : m = Rank(S, n - 1) /\ Rank(S, n) = m + 1
      BY <1>2, <2>2, <2>4
    <3>2. list(m) \in Seq(S)
      BY <1>6, <2>2, <2>4, <3>1
    <3>3. At(m + 1) = n
      BY <1>4, <2>4, <3>1
    <3>4. list(m + 1) = Append(list(m), n)
      BY <2>4, <3>1, <3>2, <3>3
    <3> HIDE DEF list
    <3>5. QED
      BY <2>2, <2>4, <3>1, <3>4
  <2>5. QED
    BY <2>1, <2>3, <2>4
<1>8. IsPrompt(p, S)
  <2> HIDE DEF list
  <2>1. p = [n \in 0 .. MaxLinks |-> p[n]]
    OBVIOUS
  <2> HIDE DEF p
  <2>2. QED
    BY <1>7, <2>1 DEF IsPrompt
<1>9. MaxLinks \in 0 .. MaxLinks
  BY <1>1
<1>10. p[MaxLinks] = list(Rank(S, MaxLinks))
  BY <1>9
<1>11. list(Rank(S, MaxLinks)) \in Seq(Places)
  BY <1>6, <1>9
<1>12. /\ Len(list(Rank(S, MaxLinks))) = Rank(S, MaxLinks)
       /\ \A k \in 1 .. Rank(S, MaxLinks) :
            list(Rank(S, MaxLinks))[k] = At(k)
  BY <1>2, <1>9
<1>13. QED
  <2> HIDE DEF p, list
  <2>1. QED
    BY <1>3, <1>8, <1>10, <1>11, <1>12

LEMMA FirstExists ==
  ASSUME NEW T \in SUBSET Nat, T # {}
  PROVE  \E n \in T : \A m \in T : ~ (m < n)
<1>1. PICK n \in T : \A m \in T : ~ (<<m, n>> \in OpToRel(<, Nat))
  BY NatLessThanWellFounded, WFMin
<1>2. ASSUME NEW m \in T PROVE ~ (m < n)
  <2>1. m \in Nat /\ n \in Nat
    OBVIOUS
  <2>2. QED
    BY <1>1, <2>1 DEF OpToRel
<1>3. QED
  BY <1>2

\* The equation has one solution: a first place where two differ could not
\* exist.
LEMMA PromptUnique ==
  ASSUME NEW S, NEW p, NEW q, IsPrompt(p, S), IsPrompt(q, S)
  PROVE  p[MaxLinks] = q[MaxLinks]
<1> DEFINE Differ == {n \in 0 .. MaxLinks : p[n] # q[n]}
<1>1. Differ = {}
  <2> SUFFICES ASSUME Differ # {}
               PROVE  FALSE
    OBVIOUS
  <2>1. PICK n \in Differ : \A m \in Differ : ~ (m < n)
    <3>1. Differ \subseteq Nat
      OBVIOUS
    <3> HIDE DEF Differ
    <3>2. QED
      BY <3>1, FirstExists
  <2>2. n \in 0 .. MaxLinks /\ n \in Nat /\ p[n] # q[n]
    BY <2>1
  <2>3. n # 0
    BY <2>2 DEF IsPrompt
  <2>4. n - 1 \in Nat /\ n - 1 \in 0 .. MaxLinks /\ n - 1 < n
    BY <2>2, <2>3, BoundAssumption
  <2>5. p[n - 1] = q[n - 1]
    BY <2>1, <2>2, <2>4
  <2>6. QED
    BY <2>2, <2>3, <2>5 DEF IsPrompt
<1>2. MaxLinks \in 0 .. MaxLinks
  BY BoundAssumption
<1>3. QED
  BY <1>1, <1>2

\* Every scraped page is in the prompt, at its batch index.
LEMMA PromptFacts ==
  ASSUME NEW r
  PROVE  /\ Prompt(r) \in Seq(Places)
         /\ \A i \in Scraped(r) : /\ BatchIndex(r, i) \in 1 .. Len(Prompt(r))
                                  /\ Prompt(r)[BatchIndex(r, i)] = i
         /\ \A k \in 1 .. Len(Prompt(r)) :
              BatchIndex(r, Prompt(r)[k]) = k
<1>1. PICK S \in SUBSET Places : S = Scraped(r)
  BY DEF Scraped
<1>2. MaxLinks \in Nat /\ S \subseteq Nat \ {0}
  BY BoundAssumption DEF Places
<1>3. PICK p : /\ IsPrompt(p, S)
               /\ p[MaxLinks] \in Seq(Places)
               /\ Len(p[MaxLinks]) = Rank(S, MaxLinks)
               /\ \A k \in 1 .. Rank(S, MaxLinks) :
                    p[MaxLinks][k] \in S /\ Rank(S, p[MaxLinks][k]) = k
  BY PromptLoop
<1>4. Prompt(r) = p[MaxLinks]
  <2> DEFINE body(f) == [n \in 0 .. MaxLinks |->
                           IF n = 0 THEN <<>>
                           ELSE IF IsScraped(r, n) THEN Append(f[n - 1], n)
                           ELSE f[n - 1]]
  <2>1. \A n \in 0 .. MaxLinks : n # 0 => (IsScraped(r, n) <=> n \in S)
    BY <1>1, <1>2 DEF Scraped, Places
  <2>2. \A f : IsPrompt(f, S) <=> f = body(f)
    <3> SUFFICES ASSUME NEW f
                 PROVE  IsPrompt(f, S) <=> f = body(f)
      OBVIOUS
    <3>1. body(f) = [n \in 0 .. MaxLinks |->
                       IF n = 0 THEN <<>>
                       ELSE IF n \in S THEN Append(f[n - 1], n)
                       ELSE f[n - 1]]
      BY <2>1
    <3> HIDE DEF body
    <3>2. QED
      BY <3>1 DEF IsPrompt
  <2>3. Prompt(r) = (CHOOSE f : f = body(f))[MaxLinks]
    BY DEF Prompt
  <2> DEFINE h == CHOOSE f : f = body(f)
  <2>4. h = body(h)
    <3> HIDE DEF body
    <3>1. QED
      BY <1>3, <2>2
  <2>5. IsPrompt(h, S)
    BY <2>2, <2>4
  <2> HIDE DEF body
  <2>6. Prompt(r) = h[MaxLinks]
    BY <2>3
  <2> HIDE DEF h
  <2>7. QED
    BY <1>3, <2>5, <2>6, PromptUnique
<1>5. \A i \in Places : BatchIndex(r, i) = Rank(S, i)
  <2> SUFFICES ASSUME NEW i \in Places
               PROVE  BatchIndex(r, i) = Rank(S, i)
    OBVIOUS
  <2>1. {j \in 1 .. i : IsScraped(r, j)} = {j \in 1 .. i : j \in S}
    BY <1>1, <1>2 DEF Scraped, Places
  <2>2. QED
    BY <2>1 DEF BatchIndex, Rank
<1>6. ASSUME NEW i \in S
      PROVE  /\ Rank(S, i) \in 1 .. Rank(S, MaxLinks)
             /\ p[MaxLinks][Rank(S, i)] = i
  <2>1. i \in Nat /\ i \in Nat \ {0} /\ i <= MaxLinks /\ i - 1 \in Nat
    BY <1>2 DEF Places
  <2>2. /\ Rank(S, i) \in Nat /\ Rank(S, i - 1) \in Nat
        /\ Rank(S, MaxLinks) \in Nat
        /\ Rank(S, i) = Rank(S, i - 1) + 1
    BY <1>2, <2>1, RankStep, RankType
  <2>3. Rank(S, i) <= Rank(S, MaxLinks)
    BY <1>2, <2>1, RankMonotone
  <2>4. Rank(S, i) \in 1 .. Rank(S, MaxLinks)
    BY <2>2, <2>3
  <2>5. PICK j \in S : /\ j = p[MaxLinks][Rank(S, i)]
                       /\ Rank(S, j) = Rank(S, i)
    BY <1>3, <2>4
  <2>6. ~ (i < j) /\ ~ (j < i) /\ j \in Nat
    BY <1>2, <2>1, <2>2, <2>5, RankGrows
  <2>7. QED
    BY <2>1, <2>4, <2>5, <2>6
<1>7. \A k \in 1 .. Rank(S, MaxLinks) : p[MaxLinks][k] \in Places
  BY <1>3
<1>8. QED
  BY <1>1, <1>3, <1>4, <1>5, <1>6, <1>7

\* The verdict at a page's batch index is one on that page.
LEMMA VerdictLands ==
  ASSUME NEW r, NEW items \in Answers(r), NEW i \in Scraped(r)
  PROVE  VerdictFrom(items, BatchIndex(r, i)) =
           IF \E n \in DOMAIN items : items[n].about = i THEN i ELSE Blank
<1> DEFINE prompt == Prompt(r)
           k == BatchIndex(r, i)
           Honest(item) ==
             item.about = IF item.index <= Len(prompt) THEN prompt[item.index]
                          ELSE 0
<1>1. /\ prompt \in Seq(Places) /\ i \in Places
      /\ k \in 1 .. Len(prompt) /\ prompt[k] = i
      /\ \A m \in 1 .. Len(prompt) : BatchIndex(r, prompt[m]) = m
  BY PromptFacts DEF Scraped
<1>2. \A n \in DOMAIN items : items[n] \in Items /\ Honest(items[n])
  <2>1. PICK N \in 0 .. MaxItems :
          items \in [1 .. N -> {item \in Items : Honest(item)}]
    BY DEF Answers
  <2>2. QED
    BY <2>1
<1>3. items \in Seq(Items)
  BY AnswersType
<1> HIDE DEF prompt, k
<1>4. \A n \in DOMAIN items : items[n].index = k <=> items[n].about = i
  <2> SUFFICES ASSUME NEW n \in DOMAIN items
               PROVE  items[n].index = k <=> items[n].about = i
    OBVIOUS
  <2>1. items[n].index \in 1 .. MaxLinks + 1 /\ Honest(items[n])
    BY <1>2 DEF Items
  <2>2. items[n].index \in Nat \ {0} /\ Len(prompt) \in Nat
    BY <1>1, <2>1, BoundAssumption
  <2>3. i # 0
    BY <1>1, BoundAssumption DEF Places
  <2>4. CASE items[n].index <= Len(prompt)
    <3>1. /\ items[n].index \in 1 .. Len(prompt)
          /\ items[n].about = prompt[items[n].index]
      BY <2>1, <2>2, <2>4
    <3>2. QED
      BY <1>1, <3>1 DEF k
  <2>5. CASE ~ (items[n].index <= Len(prompt))
    <3>1. items[n].about = 0 /\ items[n].index # k
      BY <1>1, <2>1, <2>2, <2>5
    <3>2. QED
      BY <2>3, <3>1
  <2>6. QED
    BY <2>4, <2>5
<1>5. \/ /\ \A n \in DOMAIN items : items[n].index # k
         /\ VerdictFrom(items, k) = Blank
      \/ \E n \in DOMAIN items : /\ items[n].index = k
                                 /\ VerdictFrom(items, k) = items[n].about
  BY <1>3, VerdictPicked
<1>6. QED
  BY <1>4, <1>5 DEF k

LEMMA VerdictsNext ==
  TypeOK /\ VerdictsLandOnTheirPages /\ [Next]_vars => VerdictsLandOnTheirPages'
<1> SUFFICES ASSUME TypeOK, VerdictsLandOnTheirPages, [Next]_vars,
                    NEW r \in Runs, phase'[r] = "analysed", NEW i \in Places
             PROVE  verdicts'[r][i] = IF i \notin Scraped(r)' THEN NoRow
                                      ELSE IF IsAnswered(r, i)' THEN i
                                      ELSE Blank
  BY DEF VerdictsLandOnTheirPages
<1>1. CASE /\ phase[r] = "analysed" /\ rows'[r] = rows[r]
           /\ answer'[r] = answer[r] /\ verdicts'[r] = verdicts[r]
  <2>1. /\ Scraped(r)' = Scraped(r)
        /\ IsAnswered(r, i)' <=> IsAnswered(r, i)
    BY <1>1 DEF Scraped, IsScraped, IsAnswered
  <2>2. verdicts[r][i] = IF i \notin Scraped(r) THEN NoRow
                         ELSE IF IsAnswered(r, i) THEN i ELSE Blank
    BY <1>1 DEF VerdictsLandOnTheirPages
  <2>3. QED
    BY <1>1, <2>1, <2>2
<1>2. ASSUME NEW items, Conclude(r, items), rows' = rows,
             items \in Answers(r) \/ Scraped(r) = {}
      PROVE  verdicts'[r][i] = IF i \notin Scraped(r)' THEN NoRow
                               ELSE IF IsAnswered(r, i)' THEN i
                               ELSE Blank
  <2>1. answer'[r] = items /\ verdicts'[r] = PageRows(r, items)
    BY <1>2 DEF Conclude, TypeOK
  <2>2. /\ Scraped(r)' = Scraped(r)
        /\ IsAnswered(r, i)' <=> \E n \in DOMAIN items : items[n].about = i
    BY <1>2, <2>1 DEF Scraped, IsScraped, IsAnswered
  <2>3. verdicts'[r][i] = IF i \in Scraped(r)
                            THEN VerdictFrom(items, BatchIndex(r, i))
                            ELSE NoRow
    BY <2>1 DEF PageRows
  <2>4. CASE i \in Scraped(r)
    <3>1. VerdictFrom(items, BatchIndex(r, i)) =
            IF \E n \in DOMAIN items : items[n].about = i THEN i ELSE Blank
      BY <1>2, <2>4, VerdictLands
    <3>2. QED
      BY <2>2, <2>3, <2>4, <3>1
  <2>5. QED
    BY <2>2, <2>3, <2>4
<1>3. CASE \E q \in Runs : Begin(q)
  BY <1>1, <1>3 DEF Begin, TypeOK
<1>4. ASSUME NEW t \in Tasks, Attempt(t)
      PROVE  UNCHANGED runVars
  BY <1>4, AttemptLeaves
<1>5. CASE UNCHANGED runVars
  BY <1>1, <1>5 DEF runVars
<1>6. ASSUME NEW q \in Runs, Stage(q)
      PROVE  \/ /\ phase[r] = "analysed" /\ rows'[r] = rows[r]
                /\ answer'[r] = answer[r] /\ verdicts'[r] = verdicts[r]
             \/ \E items : /\ Conclude(r, items) /\ rows' = rows
                           /\ items \in Answers(r) \/ Scraped(r) = {}
  <2>1. CASE Store(q)
    BY <2>1 DEF Store, TypeOK
  <2>2. CASE NothingToAsk(q)
    BY <2>2 DEF NothingToAsk, Conclude, TypeOK
  <2>3. CASE AskGemini(q)
    BY <2>3 DEF AskGemini, Conclude, TypeOK
  <2>4. QED
    BY <1>6, <2>1, <2>2, <2>3 DEF Stage
<1>7. CASE BrowserCrashes \/ UNCHANGED vars
  BY <1>5, <1>7 DEF BrowserCrashes, vars
<1>8. QED
  BY <1>1, <1>2, <1>3, <1>4, <1>5, <1>6, <1>7 DEF Next

\* VerdictsLandOnTheirPages: whatever Gemini answers to the prompt of a run,
\* exactly its scraped pages have a row, with a verdict on that very page or a
\* blank one.
THEOREM VerdictsLand == Spec => []VerdictsLandOnTheirPages
<1>1. Init => VerdictsLandOnTheirPages
  BY DEF Init, VerdictsLandOnTheirPages
<1>2. Inv /\ VerdictsLandOnTheirPages /\ [Next]_vars
        => VerdictsLandOnTheirPages'
  BY VerdictsNext DEF Inv
<1>3. QED
  BY <1>1, <1>2, Invariance, PTL DEF Spec
=============================================================================
