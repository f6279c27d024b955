---------------------- MODULE PipelineLifecycleProofs ----------------------
(***************************************************************************)
(* While clients wait, InferencePipeline implements EmailLifecycle: every  *)
(* step changes the status and stage of at most one email, in the way the  *)
(* lifecycle allows.                                                       *)
(***************************************************************************)
EXTENDS PipelineEvidenceProofs, PipelineLifecycle

\* The states of the lifecycle, spelled out.
LEMMA LifecycleStates ==
  /\ Lifecycle!Absent = <<"absent">>
  /\ Lifecycle!Queued = <<"pending", "queued">>
  /\ Lifecycle!Complete = <<"complete", "done">>
  /\ Lifecycle!InStage(1) = <<"running", "classification">>
  /\ Lifecycle!InStage(2) = <<"running", "link_resolution">>
  /\ Lifecycle!InStage(3) = <<"running", "page_analysis">>
  /\ Lifecycle!InStage(4) = <<"running", "aggregation">>
  /\ Lifecycle!Stages = {"classification", "link_resolution",
                         "page_analysis", "aggregation"}
<1>1. \A i : Lifecycle!InStage(i) = <<"running", Lifecycle!StageOrder[i]>>
  BY DEF Lifecycle!InStage
<1>2. /\ Lifecycle!StageOrder[1] = "classification"
      /\ Lifecycle!StageOrder[2] = "link_resolution"
      /\ Lifecycle!StageOrder[3] = "page_analysis"
      /\ Lifecycle!StageOrder[4] = "aggregation"
  BY DEF Lifecycle!StageOrder
<1>3. Lifecycle!Stages = {"classification", "link_resolution",
                          "page_analysis", "aggregation"}
  <2>1. 1 .. 4 = {1, 2, 3, 4}
    OBVIOUS
  <2>2. QED
    BY <1>2, <2>1 DEF Lifecycle!Stages
<1>4. QED
  BY <1>1, <1>2, <1>3
    DEF Lifecycle!Absent, Lifecycle!Queued, Lifecycle!Complete

\* A step that changes the life of one email at most.
LEMMA OneLifeChanges ==
  ASSUME NEW e \in Emails,
         \A d \in Emails : d # e => LifeOf(d)' = LifeOf(d)
  PROVE  /\ \A state : LifeOf(e)' = state => Lifecycle!Become(e, state)
         /\ LifeOf(e)' = LifeOf(e) => UNCHANGED Lives
         /\ Lives[e] = LifeOf(e)
  BY DEF Lives, Lifecycle!Become

\* A step of the lifecycle of one email is a step of all.
LEMMA LifecycleStep ==
  ASSUME NEW e \in Emails,
         \/ Lifecycle!Create(e) \/ Lifecycle!Start(e) \/ Lifecycle!Advance(e)
         \/ Lifecycle!Succeed(e) \/ Lifecycle!Fail(e)
         \/ Lifecycle!Requeue(e) \/ Lifecycle!Delete(e)
  PROVE  Lifecycle!Next
  BY DEF Lifecycle!Next

-----------------------------------------------------------------------------
(***************************************************************************)
(* Steps that nobody sees.                                                 *)
(***************************************************************************)
LEMMA HiddenSteps ==
  ASSUME UNCHANGED <<stored, row>>
  PROVE  UNCHANGED Lives
  BY DEF Lives, LifeOf

\* A task that stands by, or a step within a stage, changes neither.
LEMMA StandByHidden ==
  ASSUME ClientsWait, EvidenceInv, NEW q \in Requests, TaskStep(q), Open(q)
  PROVE  UNCHANGED Lives
<1>1. PICK e \in Emails : target[q] = e
  BY TaskFrame, TaskEmail DEF TaskStep, Live
<1>2. TaskEffect(q, e)
  BY <1>1, StandByEffect
<1>3. \A d \in Emails : LifeOf(d)' = LifeOf(d)
  BY <1>2 DEF TaskEffect, SameRecord, LifeOf
<1>4. QED
  BY <1>3 DEF Lives

-----------------------------------------------------------------------------
(***************************************************************************)
(* Commits: Create, Requeue and Delete.                                    *)
(***************************************************************************)

\* The row of a request's email before the commit.
LEMMA FinishedLife ==
  ASSUME EvidenceInv, NEW e \in Emails, e \in stored,
         row[e].status \in Terminal
  PROVE  LifeOf(e) \in Lifecycle!Finished
<1>1. row[e].stage \in Stages /\ Fits(e)
  BY DEF EvidenceInv, Basis, TypeOK, Row, Agreement, EmailsFit
<1>2. LifeOf(e) = <<row[e].status, row[e].stage>>
  BY DEF LifeOf
<1>3. CASE row[e].status = "complete"
  BY <1>1, <1>2, <1>3, LifecycleStates DEF Fits, Lifecycle!Finished
<1>4. CASE row[e].status = "failed"
  <2>1. row[e].stage \in Lifecycle!Stages \cup {"queued"}
    BY <1>1, <1>4, LifecycleStates DEF Fits, Stages
  <2>2. LifeOf(e) = Lifecycle!FailedIn(row[e].stage)
    BY <1>2, <1>4 DEF Lifecycle!FailedIn
  <2>3. QED
    BY <2>1, <2>2 DEF Lifecycle!Finished
<1>5. QED
  BY <1>3, <1>4 DEF Terminal

LEMMA CommitFollows ==
  ASSUME EvidenceInv, NEW q \in Requests, Commit(q)
  PROVE  Lifecycle!Next \/ UNCHANGED Lives
<1>1. PICK e \in Emails : target[q] = e
  BY EndFrame DEF Commit, CommitSubmit, CommitReanalyze, CommitReview,
    CommitDelete
<1>2. row \in [Emails -> Row]
  BY DEF EvidenceInv, Basis, TypeOK
<1>3. CASE CommitSubmit(q)
  <2>1. /\ stored' = stored \cup {e} /\ row' = row
        /\ op[q] = "submit" /\ txn[q] = "written"
    BY <1>1, <1>3 DEF CommitSubmit
  <2>2. /\ e \notin stored
        /\ \A p \in Requests : target[p] = e => p = q
    BY <1>1, <2>1 DEF EvidenceInv, Agreement, SubmitsAreNew
  <2>3. row[e] = QueuedRow
    BY <1>1, <2>1, <2>2 DEF EvidenceInv, Agreement, NewRowsQueued
  <2>4. LifeOf(e) = Lifecycle!Absent /\ LifeOf(e)' = Lifecycle!Queued
    BY <2>1, <2>2, <2>3, LifecycleStates DEF LifeOf, QueuedRow
  <2>5. \A d \in Emails : d # e => LifeOf(d)' = LifeOf(d)
    BY <2>1 DEF LifeOf
  <2>6. Lifecycle!Create(e)
    BY <2>4, <2>5, OneLifeChanges DEF Lifecycle!Create
  <2>7. QED
    BY <2>6, LifecycleStep
<1>4. CASE CommitReanalyze(q)
  <2>1. Requeuing(q)
    BY <1>4 DEF CommitReanalyze, Requeuing, Open
  <2>2. e \in stored /\ row[e].status \in Terminal
    BY <1>1, <2>1 DEF EvidenceInv, Agreement, RequeuesAreAlone
  <2>3. stored' = stored /\ row' = [row EXCEPT ![e] = Reset(row[e])]
    BY <1>1, <1>4, <2>2 DEF CommitReanalyze
  <2>4. LifeOf(e)' = Lifecycle!Queued
    BY <1>2, <2>2, <2>3, LifecycleStates DEF LifeOf, Reset, QueuedRow
  <2>5. \A d \in Emails : d # e => LifeOf(d)' = LifeOf(d)
    BY <1>2, <2>3 DEF LifeOf
  <2>6. Lifecycle!Requeue(e)
    BY <2>2, <2>4, <2>5, FinishedLife, OneLifeChanges DEF Lifecycle!Requeue
  <2>7. QED
    BY <2>6, LifecycleStep
<1>5. CASE CommitReview(q)
  <2>1. /\ stored' = stored
        /\ row' = [row EXCEPT ![e].review = TRUE]
    BY <1>1, <1>5 DEF CommitReview
  <2>2. \A d \in Emails : /\ row'[d].status = row[d].status
                          /\ row'[d].stage = row[d].stage
    BY <1>2, <2>1 DEF Row
  <2>3. QED
    BY <2>1, <2>2 DEF Lives, LifeOf
<1>6. CASE CommitDelete(q)
  <2>1. Requeuing(q)
    BY <1>6 DEF CommitDelete, Requeuing, Open
  <2>2. e \in stored /\ row[e].status \in Terminal
    BY <1>1, <2>1 DEF EvidenceInv, Agreement, RequeuesAreAlone
  <2>3. stored' = stored \ {e} /\ row' = [row EXCEPT ![e] = QueuedRow]
    BY <1>1, <1>6 DEF CommitDelete
  <2>4. LifeOf(e)' = Lifecycle!Absent
    BY <2>3, LifecycleStates DEF LifeOf
  <2>5. \A d \in Emails : d # e => LifeOf(d)' = LifeOf(d)
    BY <1>2, <2>3 DEF LifeOf
  <2>6. Lifecycle!Delete(e)
    BY <2>2, <2>4, <2>5, FinishedLife, OneLifeChanges DEF Lifecycle!Delete
  <2>7. QED
    BY <2>6, LifecycleStep
<1>7. QED
  BY <1>3, <1>4, <1>5, <1>6 DEF Commit

-----------------------------------------------------------------------------
(***************************************************************************)
(* Tasks: Start, Advance, Succeed and Fail.                                *)
(***************************************************************************)

\* What the lifecycle sees of a writing task before and after its step.
LEMMA WritingLife ==
  ASSUME NEW q, NEW e, Writing(q, e), TaskStep(q)
  PROVE  /\ e \in Emails /\ e \in stored /\ e \in stored'
         /\ LifeOf(e) = <<row[e].status, row[e].stage>>
         /\ LifeOf(e)' = <<row'[e].status, row'[e].stage>>
         /\ \A d \in Emails : d # e => LifeOf(d)' = LifeOf(d)
         /\ pc[q] # "failing" => LifeOf(e) = Shown(q)
         /\ pc[q] = "failing" => LifeOf(e) \in Lifecycle!Unfinished
<1>1. e \in Emails /\ e \in stored /\ stored' = stored
  BY WritingFacts, WritingTaskEffect DEF Writing, TaskEffect
<1>2. /\ LifeOf(e) = <<row[e].status, row[e].stage>>
      /\ LifeOf(e)' = <<row'[e].status, row'[e].stage>>
  BY <1>1 DEF LifeOf
<1>3. \A d \in Emails : d # e => LifeOf(d)' = LifeOf(d)
  BY <1>1, WritingTaskEffect DEF TaskEffect, SameRecord, LifeOf
<1>4. pc[q] # "failing" => LifeOf(e) = Shown(q)
  BY <1>2, WritingFacts DEF TaskRow, Writing
<1>5. LifeOf(e) \in Lifecycle!Unfinished
  <2>1. row[e].stage \in Stages /\ Fits(e)
    BY WritingFacts DEF Row
  <2>2. CASE row[e].status = "pending"
    BY <1>2, <2>1, <2>2, LifecycleStates DEF Fits, Lifecycle!Unfinished
  <2>3. CASE row[e].status = "running"
    <3>1. row[e].stage \in Lifecycle!Stages
      BY <2>1, <2>3, LifecycleStates DEF Fits, Stages
    <3>2. QED
      BY <1>2, <2>3, <3>1 DEF Lifecycle!Unfinished
  <2>4. QED
    BY <2>2, <2>3, WritingFacts
<1>6. QED
  BY <1>1, <1>2, <1>3, <1>4, <1>5

LEMMA SetStageLife ==
  ASSUME NEW q, NEW e, Writing(q, e), TaskStep(q),
         NEW from, NEW stage, NEW to, SetStage(q, from, stage, to)
  PROVE  LifeOf(e)' = <<"running", stage>> /\ pc[q] = from
<1>1. /\ Update(e, [row[e] EXCEPT !.status = "running", !.stage = stage])
      /\ UNCHANGED <<stored, links, pages, reqVars>> /\ pc[q] = from
  BY DEF SetStage, Writing
<1>2. row'[e] = [row[e] EXCEPT !.status = "running", !.stage = stage]
  BY <1>1, UpdateEffect
<1>3. row'[e].status = "running" /\ row'[e].stage = stage
  BY <1>2, WritingFacts DEF Row
<1>4. QED
  BY <1>1, <1>3, WritingLife

\* The step to the next stage is the next step of the lifecycle.
LEMMA SetStageFollows ==
  ASSUME NEW q, NEW e, Writing(q, e),
         \/ StartClassification(q) \/ StartLinkResolution(q)
         \/ StartPageAnalysis(q) \/ StartAggregation(q)
  PROVE  Lifecycle!Next
<1>1. TaskStep(q)
  BY DEF TaskStep, Stage
<1>2. e \in Emails /\ \A d \in Emails : d # e => LifeOf(d)' = LifeOf(d)
  BY <1>1, WritingLife
<1>3. CASE StartClassification(q)
  <2>1. LifeOf(e)' = Lifecycle!InStage(1) /\ pc[q] = "toClassify"
    BY <1>1, <1>3, SetStageLife, LifecycleStates DEF StartClassification
  <2>2. LifeOf(e) = Lifecycle!Queued
    BY <1>1, <2>1, WritingLife, LifecycleStates DEF Shown
  <2>3. Lifecycle!Start(e)
    BY <1>2, <2>1, <2>2, OneLifeChanges DEF Lifecycle!Start
  <2>4. QED
    BY <1>2, <2>3, LifecycleStep
<1>4. ASSUME NEW i \in 1 .. 3, LifeOf(e) = Lifecycle!InStage(i),
             LifeOf(e)' = Lifecycle!InStage(i + 1)
      PROVE  Lifecycle!Next
  <2>1. Lifecycle!Advance(e)
    BY <1>2, <1>4, OneLifeChanges DEF Lifecycle!Advance
  <2>2. QED
    BY <1>2, <2>1, LifecycleStep
<1>5. CASE StartLinkResolution(q)
  <2>1. LifeOf(e)' = Lifecycle!InStage(2) /\ pc[q] = "toResolve"
    BY <1>1, <1>5, SetStageLife, LifecycleStates DEF StartLinkResolution
  <2>2. LifeOf(e) = Lifecycle!InStage(1)
    BY <1>1, <2>1, WritingLife, LifecycleStates DEF Shown
  <2>3. QED
    BY <1>4, <2>1, <2>2
<1>6. CASE StartPageAnalysis(q)
  <2>1. LifeOf(e)' = Lifecycle!InStage(3) /\ pc[q] = "toAnalyse"
    BY <1>1, <1>6, SetStageLife, LifecycleStates DEF StartPageAnalysis
  <2>2. LifeOf(e) = Lifecycle!InStage(2)
    BY <1>1, <2>1, WritingLife, LifecycleStates DEF Shown
  <2>3. QED
    BY <1>4, <2>1, <2>2
<1>7. CASE StartAggregation(q)
  <2>1. LifeOf(e)' = Lifecycle!InStage(4) /\ pc[q] = "toAggregate"
    BY <1>1, <1>7, SetStageLife, LifecycleStates DEF StartAggregation
  <2>2. LifeOf(e) = Lifecycle!InStage(3)
    BY <1>1, <2>1, WritingLife, LifecycleStates DEF Shown
  <2>3. QED
    BY <1>4, <2>1, <2>2
<1>8. QED
  BY <1>3, <1>5, <1>6, <1>7

LEMMA VerdictFollows ==
  ASSUME NEW q, NEW e, Writing(q, e), StoreVerdict(q)
  PROVE  Lifecycle!Next
<1>1. TaskStep(q)
  BY DEF TaskStep, Stage
<1>2. e \in Emails /\ \A d \in Emails : d # e => LifeOf(d)' = LifeOf(d)
  BY <1>1, WritingLife
<1>3. PICK class, trigger :
        Update(e, [row[e] EXCEPT !.finalClass = class, !.trigger = trigger,
                                 !.status = "complete", !.stage = "done"])
  BY DEF StoreVerdict, Writing
<1>4. row'[e] = [row[e] EXCEPT !.finalClass = class, !.trigger = trigger,
                               !.status = "complete", !.stage = "done"]
  BY <1>3, UpdateEffect DEF StoreVerdict
<1>5. row'[e].status = "complete" /\ row'[e].stage = "done"
  BY <1>4, WritingFacts DEF Row
<1>6. LifeOf(e)' = Lifecycle!Complete
  BY <1>1, <1>5, WritingLife, LifecycleStates
<1>7. LifeOf(e) \in {Lifecycle!InStage(1), Lifecycle!InStage(4)}
  BY <1>1, WritingLife, LifecycleStates DEF StoreVerdict, Shown
<1>8. Lifecycle!Succeed(e)
  BY <1>2, <1>6, <1>7, OneLifeChanges DEF Lifecycle!Succeed
<1>9. QED
  BY <1>2, <1>8, LifecycleStep

LEMMA MarkFailedFollows ==
  ASSUME NEW q, NEW e, Writing(q, e), MarkFailed(q)
  PROVE  Lifecycle!Next
<1>1. TaskStep(q)
  BY DEF TaskStep, Stage
<1>2. e \in Emails /\ \A d \in Emails : d # e => LifeOf(d)' = LifeOf(d)
  BY <1>1, WritingLife
<1>3. Update(e, Failed(row[e])) /\ pc[q] = "failing"
  BY DEF MarkFailed, Writing
<1>4. row'[e] = Failed(row[e])
  BY <1>3, UpdateEffect DEF MarkFailed
<1>5. row'[e].status = "failed" /\ row'[e].stage = row[e].stage
  BY <1>4, WritingFacts DEF Row, Failed
<1>6. LifeOf(e)' = Lifecycle!FailedIn(LifeOf(e)[2])
  BY <1>1, <1>5, WritingLife DEF Lifecycle!FailedIn
<1>7. LifeOf(e) \in Lifecycle!Unfinished
  BY <1>1, <1>3, WritingLife
<1>8. Lifecycle!Fail(e)
  BY <1>2, <1>6, <1>7, OneLifeChanges DEF Lifecycle!Fail
<1>9. QED
  BY <1>2, <1>8, LifecycleStep

\* The answer of stage 1 is stored without a change of status or stage.
LEMMA ClassifyHidden ==
  ASSUME NEW q, NEW e, Writing(q, e), NEW answer, Classify(q, answer)
  PROVE  UNCHANGED Lives
<1>1. row' = [row EXCEPT ![e] = [row[e] EXCEPT !.class = answer.class,
                                               !.confidence = answer.confidence,
                                               !.linkCount = answer.linkCount]]
  BY WritingFacts DEF Classify, Update, Writing
<1>2. \A d \in Emails : /\ row'[d].status = row[d].status
                        /\ row'[d].stage = row[d].stage
  BY <1>1, WritingFacts DEF Row
<1>3. stored' = stored
  BY DEF Classify
<1>4. QED
  BY <1>2, <1>3 DEF Lives, LifeOf

LEMMA TaskFollows ==
  ASSUME ClientsWait, EvidenceInv, NEW q \in Requests, TaskStep(q)
  PROVE  Lifecycle!Next \/ UNCHANGED Lives
<1>1. CASE Open(q)
  BY <1>1, StandByHidden
<1>2. CASE ~Open(q)
  <2>1. PICK e \in Emails : Writing(q, e)
    BY <1>2, TaskFrame, TaskEmail DEF TaskStep, Live, Writing
  <2>2. CASE \/ StartClassification(q) \/ StartLinkResolution(q)
             \/ StartPageAnalysis(q) \/ StartAggregation(q)
    BY <2>1, <2>2, SetStageFollows
  <2>3. CASE StoreVerdict(q)
    BY <2>1, <2>3, VerdictFollows
  <2>4. CASE MarkFailed(q)
    BY <2>1, <2>4, MarkFailedFollows
  <2>5. CASE \E answer \in Answers : Classify(q, answer)
    BY <2>1, <2>5, ClassifyHidden
  <2>6. CASE \/ FindEmail(q) \/ StopWaiting(q)
             \/ StageFails(q) \/ MarkFailedRaises(q)
    BY <2>6, HiddenSteps
      DEF FindEmail, StopWaiting, StageFails, MarkFailedRaises, dbVars
  <2>7. CASE \/ \E scraped \in SUBSET (1 .. MaxLinks) : ResolveLinks(q, scraped)
             \/ \E risk \in [1 .. MaxLinks -> PageRisks] : AnalysePages(q, risk)
    BY <2>7, HiddenSteps DEF ResolveLinks, AnalysePages
  <2>8. QED
    BY <2>2, <2>3, <2>4, <2>5, <2>6, <2>7 DEF TaskStep, Stage
<1>3. QED
  BY <1>1, <1>2

-----------------------------------------------------------------------------
(***************************************************************************)
(* The refinement.                                                         *)
(***************************************************************************)
LEMMA InitFollows == Init => Lifecycle!Init
  BY LifecycleStates DEF Init, Lifecycle!Init, Lives, LifeOf

LEMMA NextFollows ==
  ASSUME ClientsWait, EvidenceInv, [Next]_vars
  PROVE  Lifecycle!Next \/ UNCHANGED Lives
<1>1. CASE \E q \in Requests : Begin(q) \/ Statement(q)
  BY <1>1, HiddenSteps DEF Begin, Submit, Read, Statement, ReanalyzeUnlink,
    ReanalyzeReset, ReviewUpdate, DeleteRow, dbVars
<1>2. CASE \E q \in Requests : Commit(q)
  BY <1>2, CommitFollows
<1>3. CASE \E q \in Requests : Stage(q) \/ Fault(q)
  BY <1>3, TaskFollows DEF TaskStep, Fault, Rollback, ClientsWait
<1>4. CASE Process \/ UNCHANGED vars
  BY <1>4, HiddenSteps DEF Process, BeginDrain, Drained, DrainTimesOut, Kill,
    Start, vars, dbVars
<1>5. QED
  BY <1>1, <1>2, <1>3, <1>4 DEF Next

\* FollowsLifecycle: as long as clients wait, whoever polls an email sees it
\* queued, then in the stages in order, then complete or failed, and again
\* only after a re-queue, whatever requests, tasks and restarts do.
THEOREM PipelineImplementsLifecycle ==
  ASSUME ClientsWait
  PROVE  Spec => FollowsLifecycle
<1>1. Init => Lifecycle!Init
  BY InitFollows
<1>2. EvidenceInv /\ [Next]_vars => [Lifecycle!Next]_Lives
  BY NextFollows
<1>3. QED
  BY <1>1, <1>2, EvidenceHolds, PTL
    DEF Spec, FollowsLifecycle, Lifecycle!Spec
=============================================================================
