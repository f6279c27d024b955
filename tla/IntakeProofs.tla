---------------------------- MODULE IntakeProofs ----------------------------
(***************************************************************************)
(* Proofs about Intake, for every set of analyses, batches and reads, a    *)
(* pool of any size and batches of any length.                             *)
(*                                                                         *)
(* One inductive invariant carries all of it: the type invariant (its      *)
(* bound on free rests on PoolAccounts), the account of the pool, and what *)
(* the place of an analysis or a batch says about everything it has.       *)
(***************************************************************************)
EXTENDS Intake, FiniteSetTheorems, TLAPS

-----------------------------------------------------------------------------
(***************************************************************************)
(* The inductive invariant.                                                *)
(***************************************************************************)

\* A batch that is being worked on has an acceptable size.
WorkedOn == \A q \in Batches : pc[q] = "working" => size[q] \in Items

\* What an analysis has, by the place where it is.
AnalysisPlaces ==
  \A q \in Analyses :
    /\ pc[q] \notin {"sent", "ended"} => answer[q] = "none" /\ event[q] = "none"
    /\ pc[q] \notin {"spawned", "sent", "ended"} => email[q] = "none"
    /\ pc[q] \in {"judged", "noted", "submitting", "spawned", "sent"}
         => verdict[q] \in Verdicts
    /\ pc[q] = "sent" => answer[q] = MapLabel(verdict[q]) /\ event[q] = "none"
    /\ pc[q] = "ended" =>
         \/ answer[q] \in {"refused", "error"} /\ event[q] = "none" /\ email[q] = "none"
         \/ answer[q] \in Labels /\ event[q] \in {"none", answer[q]}

\* What a batch has, by the place where it is: its transaction holds what it
\* will list, or is dead and empty.
BatchPlaces ==
  \A q \in Batches :
    /\ pc[q] \notin {"working", "sent", "ended"} =>
         listed[q] = {} /\ wrote[q] = {} /\ ~dead[q]
    /\ pc[q] \in {"working", "sent"} =>
         wrote[q] = IF dead[q] THEN {} ELSE listed[q]
    /\ pc[q] # "ended" => kept[q] = {}
    /\ pc[q] = "ended" => kept[q] \in {{}, listed[q]}

Inv == TypeOK /\ PoolAccounts /\ WorkedOn /\ AnalysisPlaces /\ BatchPlaces

-----------------------------------------------------------------------------
(***************************************************************************)
(* The account of the pool.                                                *)
(***************************************************************************)

\* The connections that go with a place.
Held(place) == IF place \in OneHeld THEN 1 ELSE IF place \in TwoHeld THEN 2 ELSE 0

Load == Cardinality(Holding(OneHeld)) + 2 * Cardinality(Holding(TwoHeld))

LEMMA HoldingFinite ==
  ASSUME NEW S
  PROVE  /\ IsFiniteSet(Holding(S))
         /\ Cardinality(Holding(S)) \in Nat
<1>1. Holding(S) \subseteq Requests
  BY DEF Holding
<1>2. QED
  BY <1>1, FS_Subset, FS_CardinalityType, RequestsAssumption

\* A request that moves enters one set of places and leaves another.
LEMMA HoldingMoves ==
  ASSUME TypeOK, NEW q \in Requests, NEW place \in Places, GoTo(q, place), NEW S
  PROVE  Cardinality(Holding(S))' =
           Cardinality(Holding(S)) - (IF pc[q] \in S THEN 1 ELSE 0)
                                   + (IF place \in S THEN 1 ELSE 0)
<1> DEFINE H == Holding(S)
           R == H \ {q}
<1>1. pc' = [pc EXCEPT ![q] = place] /\ pc \in [Requests -> Places]
  BY DEF GoTo, TypeOK
<1>2. Holding(S)' = IF place \in S THEN R \cup {q} ELSE R
  BY <1>1 DEF Holding
<1>3. q \in H <=> pc[q] \in S
  BY DEF Holding
<1>4. IsFiniteSet(H) /\ Cardinality(H) \in Nat
  BY HoldingFinite
<1>5. IsFiniteSet(R) /\ Cardinality(R) = Cardinality(H) - (IF q \in H THEN 1 ELSE 0)
  <2>1. CASE q \in H
    BY <1>4, <2>1, FS_RemoveElement
  <2>2. CASE q \notin H
    <3>1. R = H
      BY <2>2
    <3>2. QED
      BY <1>4, <2>2, <3>1
  <2>3. QED
    BY <2>1, <2>2
<1>6. Cardinality(R \cup {q}) = Cardinality(R) + 1
  <2>1. q \notin R
    OBVIOUS
  <2> HIDE DEF R
  <2>2. QED
    BY <1>5, <2>1, FS_AddElement
<1>7. Cardinality(R) \in Int
  BY <1>4, <1>5
<1> HIDE DEF H, R
<1>8. CASE place \in S
  BY <1>2, <1>3, <1>4, <1>5, <1>6, <1>8 DEF H
<1>9. CASE place \notin S
  BY <1>2, <1>3, <1>4, <1>5, <1>9 DEF H
<1>10. QED
  BY <1>8, <1>9

LEMMA LoadType == Load \in Nat
  BY HoldingFinite DEF Load

LEMMA LoadMoves ==
  ASSUME TypeOK, NEW q \in Requests, NEW place \in Places, GoTo(q, place)
  PROVE  Load' = Load - Held(pc[q]) + Held(place)
<1>1. /\ Cardinality(Holding(OneHeld))' =
           Cardinality(Holding(OneHeld)) - (IF pc[q] \in OneHeld THEN 1 ELSE 0)
                                         + (IF place \in OneHeld THEN 1 ELSE 0)
      /\ Cardinality(Holding(TwoHeld))' =
           Cardinality(Holding(TwoHeld)) - (IF pc[q] \in TwoHeld THEN 1 ELSE 0)
                                         + (IF place \in TwoHeld THEN 1 ELSE 0)
  BY HoldingMoves
<1>2. /\ Cardinality(Holding(OneHeld)) \in Nat
      /\ Cardinality(Holding(TwoHeld)) \in Nat
  BY HoldingFinite
<1>3. \A p : ~(p \in OneHeld /\ p \in TwoHeld)
  BY DEF OneHeld, TwoHeld
<1>4. Load' = Cardinality(Holding(OneHeld))' + 2 * Cardinality(Holding(TwoHeld))'
  BY DEF Load
<1>5. QED
  BY <1>1, <1>2, <1>3, <1>4 DEF Load, Held

\* Whatever a request does, it takes from the pool what its new place holds
\* and gives back what its old one held.
Balanced(q) ==
  \/ \E place \in Places : /\ GoTo(q, place)
                           /\ free' = free + Held(pc[q]) - Held(place)
                           /\ using' = using
  \/ UNCHANGED <<pc, free, using>>

LEMMA RaiseBalances ==
  ASSUME TypeOK, NEW q \in Requests, NEW a, pc[q] \in OneHeld, Raise(q, a)
  PROVE  Balanced(q)
<1>1. /\ GoTo(q, "ended") /\ free' = free + 1 /\ using' = using
      /\ free \in Int
  BY DEF Raise, TypeOK
<1>2. Held(pc[q]) = 1 /\ Held("ended") = 0 /\ "ended" \in Places
  BY DEF Held, OneHeld, TwoHeld, Places
<1>3. free' = free + Held(pc[q]) - Held("ended")
  BY <1>1, <1>2
<1>4. QED
  BY <1>1, <1>2, <1>3 DEF Balanced

LEMMA StepBalances ==
  ASSUME TypeOK, NEW q \in Requests, Arrive(q) \/ Step(q)
  PROVE  Balanced(q)
<1> USE DEF Balanced
<1>0. free \in Int
  BY DEF TypeOK
<1> USE DEF Held, OneHeld, TwoHeld, Places, poolVars
<1>1. CASE Arrive(q)
  BY <1>0, <1>1 DEF Arrive
<1>2. CASE Enter(q)
  <2>1. CASE Connect(q)
    BY <1>0, <2>1 DEF Connect
  <2>2. CASE PoolTimesOut(q)
    BY <1>0, <2>2 DEF PoolTimesOut
  <2>3. CASE Refuse(q)
    BY <2>3, RaiseBalances DEF Refuse
  <2>4. CASE Fail(q)
    BY <2>4, RaiseBalances DEF Fail
  <2>5. QED
    BY <1>2, <2>1, <2>2, <2>3, <2>4 DEF Enter
<1>3. CASE Analyse(q)
  <2>1. CASE AdmitAnalysis(q)
    BY <1>0, <2>1 DEF AdmitAnalysis
  <2>2. CASE Decline(q)
    BY <2>2, RaiseBalances DEF Decline
  <2>3. CASE CallGroq(q)
    BY <1>0, <2>3 DEF CallGroq
  <2>4. CASE GroqAnswers(q)
    BY <1>0, <2>4 DEF GroqAnswers
  <2>5. CASE Retry(q)
    BY <2>5 DEF Retry
  <2>6. CASE GroqFails(q)
    BY <2>6, RaiseBalances DEF GroqFails
  <2>7. CASE NoteEvent(q)
    BY <1>0, <2>7 DEF NoteEvent
  <2>8. CASE Borrow(q)
    BY <1>0, <2>8 DEF Borrow
  <2>9. CASE BorrowTimesOut(q)
    BY <1>0, <2>9 DEF BorrowTimesOut, Respond
  <2>10. CASE InsertEmail(q)
    BY <1>0, <2>10 DEF InsertEmail
  <2>11. CASE InsertEmailFails(q)
    BY <1>0, <2>11 DEF InsertEmailFails, Respond
  <2>12. CASE CommitEmail(q)
    BY <1>0, <2>12 DEF CommitEmail, Respond
  <2>13. CASE CommitEvent(q)
    BY <1>0, <2>13 DEF CommitEvent
  <2>14. QED
    BY <1>3, <2>1, <2>2, <2>3, <2>4, <2>5, <2>6, <2>7, <2>8, <2>9, <2>10, <2>11,
       <2>12, <2>13 DEF Analyse
<1>4. CASE Submit(q)
  <2>1. CASE RefuseSize(q)
    BY <2>1, RaiseBalances DEF RefuseSize
  <2>2. CASE AdmitBatch(q)
    BY <1>0, <2>2 DEF AdmitBatch
  <2>3. CASE SubmitItem(q) \/ RejectItem(q) \/ FlushFails(q)
    BY <2>3 DEF SubmitItem, RejectItem, FlushFails, AtItem
  <2>4. CASE AnswerBatch(q)
    BY <1>0, <2>4 DEF AnswerBatch
  <2>5. CASE CommitBatch(q)
    BY <1>0, <2>5 DEF CommitBatch
  <2>6. QED
    BY <1>4, <2>1, <2>2, <2>3, <2>4, <2>5 DEF Submit
<1>5. CASE Show(q)
  <2>1. CASE AdmitRead(q)
    BY <1>0, <2>1 DEF AdmitRead
  <2>2. CASE ReadConnects(q)
    BY <1>0, <2>2 DEF ReadConnects
  <2>3. CASE ReadTimesOut(q)
    BY <2>3, RaiseBalances DEF ReadTimesOut
  <2>4. CASE ReadEnds(q)
    BY <1>0, <2>4 DEF ReadEnds
  <2>5. QED
    BY <1>5, <2>1, <2>2, <2>3, <2>4 DEF Show
<1>6. QED
  BY <1>1, <1>2, <1>3, <1>4, <1>5 DEF Step

\* Every step keeps the account, and what is left in the pool between its
\* bounds.
LEMMA PoolNext ==
  ASSUME TypeOK, PoolAccounts, [Next]_vars
  PROVE  PoolAccounts' /\ free' \in 0 .. PoolSize
<1>0. /\ Cardinality(Holding(OneHeld))' \in Nat
      /\ Cardinality(Holding(TwoHeld))' \in Nat
      /\ Load' = Cardinality(Holding(OneHeld))' + 2 * Cardinality(Holding(TwoHeld))'
  <2>1. ASSUME NEW S PROVE Cardinality(Holding(S))' \in Nat
    <3>1. Holding(S)' \subseteq Requests
      BY DEF Holding
    <3>2. QED
      BY <3>1, FS_Subset, FS_CardinalityType, RequestsAssumption
  <2>2. QED
    BY <2>1 DEF Load
<1>1. Load \in Nat /\ Load' \in Nat
  BY <1>0, LoadType
<1>2. free \in 0 .. PoolSize /\ using \in Nat /\ PoolSize \in Nat
  BY BoundsAssumption DEF TypeOK
<1>3. free + Load + using = PoolSize
  <2>1. /\ Cardinality(Holding(OneHeld)) \in Nat
        /\ Cardinality(Holding(TwoHeld)) \in Nat
    BY HoldingFinite
  <2>2. QED
    BY <1>2, <2>1 DEF PoolAccounts, Load
<1>4. SUFFICES free' + Load' + using' = PoolSize /\ free' >= 0 /\ free' \in Int
                 /\ using' \in Nat
  <2>1. PoolAccounts' <=> free' + Cardinality(Holding(OneHeld))'
                            + 2 * Cardinality(Holding(TwoHeld))' + using' = PoolSize
    BY DEF PoolAccounts
  <2>2. QED
    BY <1>0, <1>1, <1>2, <2>1
<1>5. ASSUME NEW q \in Requests, Arrive(q) \/ Step(q)
      PROVE  free' + Load' + using' = PoolSize /\ using' \in Nat /\ free' \in Int
  <2>1. Balanced(q)
    BY <1>5, StepBalances
  <2>2. CASE UNCHANGED <<pc, free, using>>
    <3>1. Load' = Load
      BY <2>2 DEF Load, Holding
    <3>2. QED
      BY <1>2, <1>3, <2>2, <3>1
  <2>3. ASSUME NEW place \in Places, GoTo(q, place),
               free' = free + Held(pc[q]) - Held(place), using' = using
        PROVE  free' + Load' + using' = PoolSize /\ using' \in Nat /\ free' \in Int
    <3>1. Load' = Load - Held(pc[q]) + Held(place)
      BY <2>3, LoadMoves
    <3>2. Held(pc[q]) \in Nat /\ Held(place) \in Nat
      BY DEF Held
    <3>3. QED
      BY <1>1, <1>2, <1>3, <2>3, <3>1, <3>2
  <2>4. QED
    BY <2>1, <2>2, <2>3 DEF Balanced
<1>6. ASSUME NEW q \in Requests, Arrive(q) \/ Step(q) PROVE free' >= 0
  <2> USE <1>2
  <2>1. CASE Arrive(q)
    BY <2>1 DEF Arrive, poolVars
  <2>2. CASE Enter(q)
    BY <2>2 DEF Enter, Connect, PoolTimesOut, Refuse, Fail, Raise, poolVars
  <2>3. CASE Analyse(q)
    BY <2>3 DEF Analyse, AdmitAnalysis, Decline, CallGroq, GroqAnswers, Retry,
      GroqFails, NoteEvent, Borrow, BorrowTimesOut, InsertEmail,
      InsertEmailFails, CommitEmail, CommitEvent, Raise, poolVars
  <2>4. CASE Submit(q)
    BY <2>4 DEF Submit, RefuseSize, AdmitBatch, SubmitItem, RejectItem,
      FlushFails, AtItem, AnswerBatch, CommitBatch, Raise, poolVars
  <2>5. CASE Show(q)
    BY <2>5 DEF Show, AdmitRead, ReadConnects, ReadTimesOut, ReadEnds, Raise,
      poolVars
  <2>6. QED
    BY <1>6, <2>1, <2>2, <2>3, <2>4, <2>5 DEF Step
<1>7. ASSUME Task \/ UNCHANGED vars
      PROVE  free' + Load' + using' = PoolSize /\ free' >= 0 /\ free' \in Int
               /\ using' \in Nat
  <2>1. Load' = Load
    BY <1>7 DEF Task, TaskConnects, TaskTimesOut, TaskReleases, vars, Load, Holding
  <2>2. /\ free' + using' = free + using /\ free' >= 0 /\ free' \in Int
        /\ using' \in Nat
    BY <1>2, <1>7 DEF Task, TaskConnects, TaskTimesOut, TaskReleases, vars, poolVars
  <2>3. free' + Load' + using' = (free + using) + Load
    BY <1>1, <2>1, <2>2
  <2>4. (free + using) + Load = PoolSize
    BY <1>1, <1>2, <1>3
  <2>5. QED
    BY <2>2, <2>3, <2>4
<1>8. CASE \E q \in Requests : Arrive(q) \/ Step(q)
  BY <1>5, <1>6, <1>8
<1>9. CASE Task \/ UNCHANGED vars
  BY <1>7, <1>9
<1>10. QED
  BY <1>8, <1>9 DEF Next

-----------------------------------------------------------------------------
(***************************************************************************)
(* Type correctness.                                                       *)
(***************************************************************************)

LEMMA MapLabelType == ASSUME NEW v PROVE MapLabel(v) \in Labels
  BY DEF MapLabel, Labels

LEMMA TypeNext ==
  ASSUME TypeOK, WorkedOn, AnalysisPlaces, free' \in 0 .. PoolSize, [Next]_vars
  PROVE  TypeOK'
<1> USE DEF TypeOK, analyseVars, batchVars, poolVars, GoTo, Places, OneHeld, TwoHeld,
      Answers
<1>1. ASSUME NEW q \in Requests, NEW a \in {"refused", "error"}, Raise(q, a)
      PROVE  TypeOK'
  BY <1>1 DEF Raise, Forget
<1>2. ASSUME NEW q \in Requests, Arrive(q) PROVE TypeOK'
  BY <1>2 DEF Arrive
<1>3. ASSUME NEW q \in Requests, Enter(q) PROVE TypeOK'
  <2>1. CASE Connect(q) \/ PoolTimesOut(q)
    BY <2>1 DEF Connect, PoolTimesOut
  <2>2. CASE Refuse(q) \/ Fail(q)
    BY <1>1, <2>2 DEF Refuse, Fail
  <2>3. QED
    BY <1>3, <2>1, <2>2 DEF Enter
<1>4. ASSUME NEW q \in Analyses, Analyse(q) PROVE TypeOK'
  <2>0. q \in Requests
    BY DEF Requests
  <2>1. CASE AdmitAnalysis(q) \/ CallGroq(q) \/ Retry(q) \/ NoteEvent(q) \/ Borrow(q)
             \/ InsertEmail(q)
    BY <2>0, <2>1 DEF AdmitAnalysis, CallGroq, Retry, NoteEvent, Borrow, InsertEmail
  <2>2. CASE Decline(q) \/ GroqFails(q)
    BY <2>0, <1>1, <2>2 DEF Decline, GroqFails
  <2>3. CASE GroqAnswers(q)
    <3>1. PICK v \in Says[q] : verdict' = [verdict EXCEPT ![q] = v]
      BY <2>3 DEF GroqAnswers
    <3>2. v \in Verdicts
      BY VerdictAssumption
    <3>3. QED
      BY <2>0, <2>3, <3>1, <3>2 DEF GroqAnswers
  <2>4. CASE BorrowTimesOut(q) \/ InsertEmailFails(q) \/ CommitEmail(q)
    BY <2>0, <2>4, MapLabelType
      DEF BorrowTimesOut, InsertEmailFails, CommitEmail, Respond
  <2>5. CASE CommitEvent(q)
    BY <2>0, <2>5, MapLabelType DEF CommitEvent, Forget
  <2>6. QED
    BY <1>4, <2>1, <2>2, <2>3, <2>4, <2>5 DEF Analyse
<1>5. ASSUME NEW q \in Batches, Submit(q) PROVE TypeOK'
  <2>0. q \in Requests
    BY DEF Requests
  <2>1. CASE RefuseSize(q)
    BY <2>0, <1>1, <2>1 DEF RefuseSize
  <2>2. CASE AdmitBatch(q) \/ AnswerBatch(q) \/ CommitBatch(q)
    BY <2>0, <2>2 DEF AdmitBatch, AnswerBatch, CommitBatch
  <2>3. CASE SubmitItem(q) \/ RejectItem(q) \/ FlushFails(q)
    <3>1. next[q] \in Items /\ next[q] + 1 \in 1 .. BatchMax + 1
      BY <2>3, BoundsAssumption
        DEF SubmitItem, RejectItem, FlushFails, AtItem, WorkedOn, Items
    <3>2. /\ pc' = pc /\ UNCHANGED <<answer, analyseVars, size, kept, using>>
          /\ next' = [next EXCEPT ![q] = @ + 1]
      BY <2>3 DEF SubmitItem, RejectItem, FlushFails, AtItem
    <3>3. next' \in [Batches -> 1 .. BatchMax + 1]
      BY <3>1, <3>2
    <3>4. /\ listed' \in [Batches -> SUBSET Items] /\ wrote' \in [Batches -> SUBSET Items]
          /\ dead' \in [Batches -> BOOLEAN] /\ queued' \in Nat
      <4>1. CASE SubmitItem(q)
        BY <3>1, <4>1 DEF SubmitItem
      <4>2. CASE RejectItem(q)
        BY <4>2 DEF RejectItem
      <4>3. CASE FlushFails(q)
        BY <4>3 DEF FlushFails
      <4>4. QED
        BY <2>3, <4>1, <4>2, <4>3
    <3>5. QED
      BY <3>2, <3>3, <3>4
  <2>4. QED
    BY <1>5, <2>1, <2>2, <2>3 DEF Submit
<1>6. ASSUME NEW q \in Reads, Show(q) PROVE TypeOK'
  <2>0. q \in Requests
    BY DEF Requests
  <2>1. CASE ReadTimesOut(q)
    BY <2>0, <1>1, <2>1 DEF ReadTimesOut
  <2>2. CASE AdmitRead(q) \/ ReadConnects(q) \/ ReadEnds(q)
    BY <2>0, <2>2 DEF AdmitRead, ReadConnects, ReadEnds
  <2>3. QED
    BY <1>6, <2>1, <2>2 DEF Show
<1>7. ASSUME Task PROVE TypeOK'
  BY <1>7 DEF Task, TaskConnects, TaskTimesOut, TaskReleases
<1>8. CASE UNCHANGED vars
  BY <1>8 DEF vars
<1>9. QED
  BY <1>2, <1>3, <1>4, <1>5, <1>6, <1>7, <1>8 DEF Next, Step

LEMMA WorkedOnNext ==
  ASSUME TypeOK, WorkedOn, [Next]_vars
  PROVE  WorkedOn'
<1> USE DEF TypeOK, WorkedOn, analyseVars, batchVars, poolVars, GoTo
<1>1. size' = size
  BY DEF Next, Arrive, Step, Enter, Connect, PoolTimesOut, Refuse, Fail, Raise,
    Analyse, AdmitAnalysis, Decline, CallGroq, GroqAnswers, Retry, GroqFails, NoteEvent,
    Borrow, BorrowTimesOut, InsertEmail, InsertEmailFails, CommitEmail, Respond,
    CommitEvent, Submit, RefuseSize, AdmitBatch, SubmitItem, RejectItem, FlushFails,
    AtItem, AnswerBatch, CommitBatch, Show, AdmitRead, ReadConnects, ReadTimesOut,
    ReadEnds, Task, TaskConnects, TaskTimesOut, TaskReleases, vars
<1>2. ASSUME NEW b \in Batches, pc'[b] = "working" PROVE pc[b] = "working" \/ size[b] \in Items
  <2>0. b \in Requests
    BY DEF Requests
  <2>1. QED
    BY <1>2, <2>0
      DEF Next, Arrive, Step, Enter, Connect, PoolTimesOut, Refuse, Fail, Raise,
      Analyse, AdmitAnalysis, Decline, CallGroq, GroqAnswers, Retry, GroqFails, NoteEvent,
      Borrow, BorrowTimesOut, InsertEmail, InsertEmailFails, CommitEmail, Respond,
      CommitEvent, Submit, RefuseSize, AdmitBatch, SubmitItem, RejectItem, FlushFails,
      AtItem, AnswerBatch, CommitBatch, Show, AdmitRead, ReadConnects, ReadTimesOut,
      ReadEnds, Task, TaskConnects, TaskTimesOut, TaskReleases, vars
<1>3. QED
  BY <1>1, <1>2

-----------------------------------------------------------------------------
(***************************************************************************)
(* The places.                                                             *)
(***************************************************************************)

\* What the steps of other requests leave alone.
LEMMA OthersKeepAnalyses ==
  ASSUME TypeOK, AnalysisPlaces, UNCHANGED <<event, email>>,
         \A p \in Analyses : /\ pc'[p] = pc[p] /\ answer'[p] = answer[p]
                            /\ verdict'[p] = verdict[p]
  PROVE  AnalysisPlaces'
  BY DEF AnalysisPlaces

LEMMA AnalysisNext ==
  ASSUME TypeOK, AnalysisPlaces, [Next]_vars
  PROVE  AnalysisPlaces'
<1>0. Analyses \subseteq Requests
  BY DEF Requests
<1> USE <1>0 DEF TypeOK, AnalysisPlaces, analyseVars, batchVars, poolVars, GoTo
<1>1. ASSUME NEW q \in Requests, NEW a \in {"refused", "error"}, Raise(q, a),
             pc[q] \in {"admitting", "admitted", "asking", "judged"}
      PROVE  AnalysisPlaces'
  BY <1>1 DEF Raise, Forget
<1>2. ASSUME NEW q \in Requests, Arrive(q) PROVE AnalysisPlaces'
  BY <1>2 DEF Arrive
<1>3. ASSUME NEW q \in Requests, Enter(q) PROVE AnalysisPlaces'
  <2>1. CASE Connect(q)
    BY <2>1 DEF Connect
  <2>2. CASE PoolTimesOut(q)
    BY <2>2 DEF PoolTimesOut
  <2>3. CASE Refuse(q) \/ Fail(q)
    BY <1>1, <2>3 DEF Refuse, Fail
  <2>4. QED
    BY <1>3, <2>1, <2>2, <2>3 DEF Enter
<1>4. ASSUME NEW q \in Analyses, Analyse(q) PROVE AnalysisPlaces'
  <2>0. q \in Requests
    BY DEF Requests
  <2>1. CASE AdmitAnalysis(q) \/ CallGroq(q) \/ Retry(q)
    BY <2>0, <2>1 DEF AdmitAnalysis, CallGroq, Retry
  <2>2. CASE NoteEvent(q) \/ Borrow(q) \/ InsertEmail(q)
    BY <2>0, <2>2 DEF NoteEvent, Borrow, InsertEmail
  <2>3. CASE Decline(q) \/ GroqFails(q)
    BY <2>0, <1>1, <2>3 DEF Decline, GroqFails
  <2>4. CASE GroqAnswers(q)
    <3>1. PICK v \in Says[q] : verdict' = [verdict EXCEPT ![q] = v]
      BY <2>4 DEF GroqAnswers
    <3>2. v \in Verdicts
      BY VerdictAssumption
    <3>3. QED
      BY <2>0, <2>4, <3>1, <3>2 DEF GroqAnswers
  <2>5. CASE BorrowTimesOut(q) \/ InsertEmailFails(q)
    BY <2>0, <2>5, MapLabelType DEF BorrowTimesOut, InsertEmailFails, Respond
  <2>6. CASE CommitEmail(q)
    BY <2>0, <2>6, MapLabelType DEF CommitEmail, Respond
  <2>7. CASE CommitEvent(q)
    BY <2>0, <2>7, MapLabelType DEF CommitEvent, Forget
  <2>8. QED
    BY <1>4, <2>1, <2>2, <2>3, <2>4, <2>5, <2>6, <2>7 DEF Analyse
<1>5. ASSUME NEW q \in Batches, Submit(q) PROVE AnalysisPlaces'
  <2>0. q \in Requests \ Analyses
    BY RequestsAssumption DEF Requests
  <2>1. CASE RefuseSize(q)
    BY <2>0, <1>1, <2>1 DEF RefuseSize
  <2>2. CASE AdmitBatch(q) \/ AnswerBatch(q) \/ CommitBatch(q)
    BY <2>0, <2>2, OthersKeepAnalyses DEF AdmitBatch, AnswerBatch, CommitBatch
  <2>3. CASE SubmitItem(q) \/ RejectItem(q) \/ FlushFails(q)
    BY <2>0, <2>3 DEF SubmitItem, RejectItem, FlushFails, AtItem
  <2>4. QED
    BY <1>5, <2>1, <2>2, <2>3 DEF Submit
<1>6. ASSUME NEW q \in Reads, Show(q) PROVE AnalysisPlaces'
  <2>0. q \in Requests \ Analyses
    BY RequestsAssumption DEF Requests
  <2>1. CASE ReadTimesOut(q)
    BY <2>0, <1>1, <2>1 DEF ReadTimesOut
  <2>2. CASE AdmitRead(q) \/ ReadConnects(q) \/ ReadEnds(q)
    BY <2>0, <2>2, OthersKeepAnalyses DEF AdmitRead, ReadConnects, ReadEnds
  <2>3. QED
    BY <1>6, <2>1, <2>2 DEF Show
<1>7. CASE Task \/ UNCHANGED vars
  BY <1>7 DEF Task, TaskConnects, TaskTimesOut, TaskReleases, vars
<1>8. QED
  BY <1>2, <1>3, <1>4, <1>5, <1>6, <1>7 DEF Next, Step

LEMMA BatchNext ==
  ASSUME TypeOK, BatchPlaces, [Next]_vars
  PROVE  BatchPlaces'
<1>0. Batches \subseteq Requests
  BY DEF Requests
<1> USE <1>0 DEF TypeOK, BatchPlaces, analyseVars, batchVars, poolVars, GoTo
<1>1. ASSUME NEW q \in Requests, UNCHANGED batchVars,
             \A b \in Batches :
               b # q => pc'[b] = pc[b],
             q \in Batches =>
               \/ /\ pc[q] \notin {"working", "sent", "ended"}
                  /\ pc'[q] # "sent" /\ pc'[q] # "working"
               \/ /\ pc[q] = "admitting" /\ pc'[q] = "working"
               \/ /\ pc[q] = "working" /\ pc'[q] = "sent"
               \/ pc'[q] = pc[q]
      PROVE  BatchPlaces'
  BY <1>1
<1>2. ASSUME NEW q \in Requests, Arrive(q) \/ Enter(q) PROVE BatchPlaces'
  BY <1>1, <1>2 DEF Arrive, Enter, Connect, PoolTimesOut, Refuse, Fail, Raise
<1>3. ASSUME NEW q \in Analyses, Analyse(q) PROVE BatchPlaces'
  <2>0. q \in Requests /\ q \notin Batches
    BY RequestsAssumption DEF Requests
  <2>1. UNCHANGED batchVars /\ \A b \in Batches : b # q => pc'[b] = pc[b]
    BY <1>3, <2>0 DEF Analyse, AdmitAnalysis, Decline, CallGroq, GroqAnswers, Retry,
      GroqFails, NoteEvent, Borrow, BorrowTimesOut, InsertEmail,
      InsertEmailFails, CommitEmail, Respond, CommitEvent, Raise
  <2>2. QED
    BY <1>1, <2>0, <2>1
<1>4. ASSUME NEW q \in Batches, Submit(q) PROVE BatchPlaces'
  <2>0. q \in Requests
    BY DEF Requests
  <2>1. CASE RefuseSize(q)
    BY <1>1, <2>0, <2>1 DEF RefuseSize, Raise
  <2>2. CASE AdmitBatch(q) \/ AnswerBatch(q)
    BY <1>1, <2>0, <2>2 DEF AdmitBatch, AnswerBatch
  <2>3. CASE SubmitItem(q)
    BY <2>0, <2>3 DEF SubmitItem, AtItem
  <2>4. CASE RejectItem(q)
    BY <2>0, <2>4 DEF RejectItem, AtItem
  <2>5. CASE FlushFails(q)
    BY <2>0, <2>5 DEF FlushFails, AtItem
  <2>6. CASE CommitBatch(q)
    BY <2>0, <2>6 DEF CommitBatch
  <2>7. QED
    BY <1>4, <2>1, <2>2, <2>3, <2>4, <2>5, <2>6 DEF Submit
<1>5. ASSUME NEW q \in Reads, Show(q) PROVE BatchPlaces'
  <2>0. q \in Requests /\ q \notin Batches
    BY RequestsAssumption DEF Requests
  <2>1. UNCHANGED batchVars /\ \A b \in Batches : b # q => pc'[b] = pc[b]
    BY <1>5, <2>0 DEF Show, AdmitRead, ReadConnects, ReadTimesOut, ReadEnds, Raise
  <2>2. QED
    BY <1>1, <2>0, <2>1
<1>6. CASE Task \/ UNCHANGED vars
  BY <1>6 DEF Task, TaskConnects, TaskTimesOut, TaskReleases, vars
<1>7. QED
  BY <1>2, <1>3, <1>4, <1>5, <1>6 DEF Next, Step

-----------------------------------------------------------------------------
(***************************************************************************)
(* The theorems.                                                           *)
(***************************************************************************)
LEMMA InvInit == Init => Inv
<1> SUFFICES ASSUME Init PROVE Inv
  OBVIOUS
<1>1. TypeOK
  <2>1. PoolSize \in Nat /\ BatchMax \in Nat
    BY BoundsAssumption
  <2>2. /\ pc \in [Requests -> Places] /\ answer \in [Requests -> Answers]
        /\ free \in 0 .. PoolSize
    BY <2>1 DEF Init, Places, Answers
  <2>3. next \in [Batches -> 1 .. BatchMax + 1]
    BY <2>1 DEF Init
  <2>4. QED
    BY <2>2, <2>3 DEF Init, TypeOK
<1>2. PoolAccounts
  <2>1. Holding(OneHeld) = {} /\ Holding(TwoHeld) = {}
    BY DEF Init, Holding, OneHeld, TwoHeld
  <2>2. QED
    BY <2>1, FS_EmptySet, BoundsAssumption DEF Init, PoolAccounts
<1>3. WorkedOn /\ AnalysisPlaces /\ BatchPlaces
  BY DEF Init, WorkedOn, AnalysisPlaces, BatchPlaces, Requests
<1>4. QED
  BY <1>1, <1>2, <1>3 DEF Inv

LEMMA InvNext == Inv /\ [Next]_vars => Inv'
<1> SUFFICES ASSUME Inv, [Next]_vars PROVE Inv'
  OBVIOUS
<1> USE DEF Inv
<1>1. PoolAccounts' /\ free' \in 0 .. PoolSize
  BY PoolNext
<1>2. TypeOK'
  BY <1>1, TypeNext
<1>3. WorkedOn' /\ AnalysisPlaces' /\ BatchPlaces'
  BY WorkedOnNext, AnalysisNext, BatchNext
<1>4. QED
  BY <1>1, <1>2, <1>3

LEMMA Invariance == Spec => []Inv
  BY InvInit, InvNext, PTL DEF Spec

\* Every variable keeps its type, the free connections their bounds, for any
\* number of requests.
THEOREM TypeCorrect == Spec => []TypeOK
<1>1. Inv => TypeOK
  BY DEF Inv
<1>2. QED
  BY <1>1, Invariance, PTL

\* No connection is lost or given back twice, however requests end.
THEOREM ConnectionsAccounted == Spec => []PoolAccounts
<1>1. Inv => PoolAccounts
  BY DEF Inv
<1>2. QED
  BY <1>1, Invariance, PTL

\* Who is answered with an error has left neither an event nor an email.
THEOREM NothingLeft == Spec => []ErrorsLeaveNothing
<1>1. Inv => ErrorsLeaveNothing
  <2> SUFFICES ASSUME Inv, NEW q \in Analyses
               PROVE  /\ answer[q] \in {"refused", "error"} =>
                           event[q] = "none" /\ email[q] = "none"
                      /\ event[q] # "none" => answer[q] = event[q]
    BY DEF ErrorsLeaveNothing
  <2>1. pc[q] = "sent" => answer[q] \in Labels
    BY MapLabelType DEF Inv, AnalysisPlaces
  <2>2. QED
    BY <2>1 DEF Inv, AnalysisPlaces, Labels
<1>2. QED
  BY <1>1, Invariance, PTL

\* A batch is stored as it was answered or not at all.
THEOREM BatchesWhole == Spec => []BatchAllOrNothing
<1>1. Inv => BatchAllOrNothing
  BY DEF Inv, BatchPlaces, BatchAllOrNothing
<1>2. QED
  BY <1>1, Invariance, PTL

\* What a label says about Groq's verdict, for every confidence and every
\* alert threshold.
LEMMA LabelMeaning ==
  ASSUME NEW v \in Verdicts
  PROVE  LET unsure == v.class = "suspicious" \/ v.confidence \in ReviewLow .. ReviewHigh
         IN  /\ MapLabel(v) = "REVIEW" <=> unsure
             /\ MapLabel(v) = "SPAM" <=> v.class = "phishing" /\ ~unsure
             /\ ShouldAlert(v) <=>
                  v.class = "phishing" /\ ~unsure /\ v.confidence >= AlertAt
<1>1. /\ v.class \in Classes /\ v.confidence \in Int
      /\ (ReviewLow + ReviewHigh) \div 2 = 50
  BY DEF Verdicts, ReviewLow, ReviewHigh
<1>2. CASE v.class = "phishing"
  BY <1>1, <1>2, VerdictAssumption DEF MapLabel, ShouldAlert, PhishingProbability,
    PredictsPhishing, ReviewLow, ReviewHigh
<1>3. CASE v.class = "suspicious"
  BY <1>1, <1>3, VerdictAssumption DEF MapLabel, ShouldAlert, PhishingProbability,
    PredictsPhishing, ReviewLow, ReviewHigh
<1>4. CASE v.class = "legitimate"
  BY <1>1, <1>4, VerdictAssumption DEF MapLabel, ShouldAlert, PhishingProbability,
    PredictsPhishing, ReviewLow, ReviewHigh
<1>5. QED
  BY <1>1, <1>2, <1>3, <1>4 DEF Classes

\* The extension shows what Groq said: spam, review and alert fit the class and
\* the confidence.
THEOREM LabelsFaithful == Spec => []LabelsFollowClasses
<1>1. Inv => LabelsFollowClasses
  <2> SUFFICES ASSUME Inv, NEW q \in Analyses, pc[q] = "sent"
               PROVE  LET v == verdict[q]
                          unsure == \/ v.class = "suspicious"
                                    \/ v.confidence \in ReviewLow .. ReviewHigh
                      IN  /\ answer[q] = "REVIEW" <=> unsure
                          /\ answer[q] = "SPAM" <=> v.class = "phishing" /\ ~unsure
                          /\ ShouldAlert(v) <=> v.class = "phishing" /\ ~unsure
                                                   /\ v.confidence >= AlertAt
    BY DEF LabelsFollowClasses
  <2>1. verdict[q] \in Verdicts /\ answer[q] = MapLabel(verdict[q])
    BY DEF Inv, AnalysisPlaces
  <2>2. QED
    BY <2>1, LabelMeaning
<1>2. QED
  BY <1>1, Invariance, PTL

\* Once the event is noted the extension gets its label, whatever becomes of
\* the hand-off.
THEOREM VerdictsDelivered == Spec => VerdictsAreDelivered
<1>1. Inv /\ Inv' /\ [Next]_vars =>
        [\A q \in Analyses :
           pc[q] \in {"noted"} \cup TwoHeld => answer'[q] \in {"none"} \cup Labels]_vars
  <2> SUFFICES ASSUME Inv, Inv', [Next]_vars, NEW q \in Analyses,
                      pc[q] \in {"noted"} \cup TwoHeld
               PROVE  answer'[q] \in {"none"} \cup Labels
    OBVIOUS
  <2>0. q \in Requests /\ q \notin Batches /\ q \notin Reads
    BY RequestsAssumption DEF Requests
  <2>1. pc'[q] # "ended"
    BY <2>0 DEF Inv, TypeOK, GoTo, TwoHeld, poolVars, batchVars, analyseVars,
      Next, Arrive, Step, Enter, Connect, PoolTimesOut, Refuse, Fail, Raise,
      Analyse, AdmitAnalysis, Decline, CallGroq, GroqAnswers, Retry, GroqFails, NoteEvent,
      Borrow, BorrowTimesOut, InsertEmail, InsertEmailFails, CommitEmail, Respond,
      CommitEvent, Submit, RefuseSize, AdmitBatch, SubmitItem, RejectItem, FlushFails,
      AtItem, AnswerBatch, CommitBatch, Show, AdmitRead, ReadConnects, ReadTimesOut,
      ReadEnds, Task, TaskConnects, TaskTimesOut, TaskReleases, vars
  <2>2. /\ pc'[q] \notin {"sent", "ended"} => answer'[q] = "none"
        /\ pc'[q] = "sent" => answer'[q] = MapLabel(verdict'[q])
    BY DEF Inv, AnalysisPlaces, MapLabel, PhishingProbability, PredictsPhishing
  <2>3. QED
    BY <2>1, <2>2, MapLabelType
<1>2. QED
  BY <1>1, Invariance, PTL DEF Spec, VerdictsAreDelivered
=============================================================================
