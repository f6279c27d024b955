---------------------- MODULE InferencePipelineProofs ----------------------
(***************************************************************************)
(* Proofs about InferencePipeline, for every set of emails and requests,   *)
(* every bound on the links and every set of answers.                      *)
(***************************************************************************)
EXTENDS InferencePipeline, TLAPS

-----------------------------------------------------------------------------
(***************************************************************************)
(* Parts of the inductive invariants.                                      *)
(***************************************************************************)

\* Before it has spawned its task a request has none; what a request is about
\* is settled when it is made.
RequestsMatchTasks ==
  \A q \in Requests :
    /\ txn[q] = "idle" <=> target[q] = NoEmail
    /\ txn[q] \in {"idle", "open", "unlinked"} => pc[q] = "none"
    /\ op[q] \in {"review", "delete"} => pc[q] = "none"

\* A task that has passed stage 1 knows its classification.
TasksKnowClass ==
  \A q \in Requests :
    pc[q] \in {"toResolve", "resolving", "toAnalyse", "analysing",
              "toAggregate", "finalising"} => mem[q].class \in Classes

\* CompleteHasVerdict, also for ids that have no row (yet, or any more).
VerdictStays ==
  \A e \in Emails : row[e].status = "complete" =>
    /\ row[e].finalClass # Null
    /\ row[e].trigger # Null
    /\ row[e].stage = "done"

\* Until a submit commits its row is not stored, and only it is about that id.
SubmitsAreNew ==
  \A p \in Requests : (op[p] = "submit" /\ txn[p] = "written") =>
    /\ target[p] \notin stored
    /\ \A q \in Requests : target[q] = target[p] => q = p

\* The task of a request that has not committed cannot end: a submit's task
\* waits for the row, a re-queue's waits for the lock on it.
TasksWaitForCommit ==
  \A q \in Requests : txn[q] = "written" =>
    /\ op[q] = "submit" => pc[q] = "waiting"
    /\ (op[q] = "reanalyze" /\ target[q] \in stored) =>
         pc[q] \in {"waiting", "toClassify", "failing"}

-----------------------------------------------------------------------------
(***************************************************************************)
(* Type correctness.                                                       *)
(***************************************************************************)

\* The verdict of the rules is a class and a trigger.
LEMMA VerdictType ==
  ASSUME NEW class \in Classes, NEW n, NEW found, NEW early
  PROVE  /\ Trigger(class, n, found, early) \in Triggers
         /\ FinalClass(class, Trigger(class, n, found, early)) \in Classes
  BY DEF Trigger, FinalClass, Triggers, Classes

\* Without a classification in memory the verdict may be null, no worse.
LEMMA VerdictColumns ==
  ASSUME NEW class \in Classes \cup {Null}, NEW n, NEW found, NEW early
  PROVE  /\ Trigger(class, n, found, early) \in Triggers
         /\ FinalClass(class, Trigger(class, n, found, early))
              \in Classes \cup {Null}
  BY DEF Trigger, FinalClass, Triggers, Classes

LEMMA QueuedRowType == QueuedRow \in Row
  BY BoundAssumption DEF QueuedRow, Row, Statuses, Stages

LEMMA NoMemoryType == NoMemory \in Memory
  BY BoundAssumption DEF NoMemory, Memory

\* An UPDATE keeps the table well typed.
LEMMA UpdateType ==
  ASSUME NEW e, NEW r, TypeOK, Update(e, r), e \in stored => r \in Row
  PROVE  row' \in [Emails -> Row]
  BY DEF TypeOK, Update

LEMMA TypeNext == TypeOK /\ RequestsMatchTasks /\ [Next]_vars => TypeOK'
<1> SUFFICES ASSUME TypeOK, RequestsMatchTasks, [Next]_vars PROVE TypeOK'
  OBVIOUS
<1> USE DEF dbVars, reqVars
<1>1. ASSUME NEW q \in Requests, Begin(q) PROVE TypeOK'
  <2>1. ASSUME NEW e \in Emails, Submit(q, e) PROVE TypeOK'
    BY <2>1 DEF Submit, TypeOK, TxnStates, Running, AllOps
  <2>2. ASSUME NEW e \in Emails, NEW o \in AllOps, Read(q, o, e) PROVE TypeOK'
    BY <2>2 DEF Read, TypeOK, TxnStates
  <2>3. QED
    BY <1>1, <2>1, <2>2 DEF Begin
<1>2. ASSUME NEW q \in Requests, Statement(q) PROVE TypeOK'
  <2>1. LinksOf(target[q]) \subseteq LinkIds
    BY DEF LinksOf, TypeOK
  <2>2. QED
    BY <1>2, <2>1 DEF Statement, ReanalyzeUnlink, ReanalyzeReset, ReviewUpdate,
      DeleteRow, TypeOK, TxnStates, Running
<1>3. ASSUME NEW q \in Requests, Commit(q) PROVE TypeOK'
  <2>1. CASE CommitSubmit(q)
    <3>1. target[q] \in Emails
      BY <2>1 DEF CommitSubmit, RequestsMatchTasks, TypeOK
    <3>2. QED
      BY <2>1, <3>1 DEF CommitSubmit, End, TypeOK, TxnStates
  <2>2. CASE CommitReanalyze(q)
    <3> DEFINE r == Reset(row[target[q]])
    <3>1. target[q] \in stored => r \in Row
      <4>1. target[q] \in stored => row[target[q]].review \in BOOLEAN
        BY DEF TypeOK, Row
      <4>2. QED
        BY <4>1, QueuedRowType DEF Reset, Row
    <3>2. row' = IF target[q] \in stored THEN [row EXCEPT ![target[q]] = r]
                                         ELSE row
      BY <2>2 DEF CommitReanalyze
    <3> HIDE DEF r
    <3>3. row' \in [Emails -> Row]
      BY <3>1, <3>2 DEF TypeOK
    <3>4. QED
      BY <2>2, <3>3 DEF CommitReanalyze, End, DropLinks, TypeOK, TxnStates
  <2>3. CASE CommitReview(q)
    <3>1. row' \in [Emails -> Row]
      <4>1. ASSUME NEW e \in Emails PROVE [row[e] EXCEPT !.review = TRUE] \in Row
        BY DEF TypeOK, Row
      <4>2. row' = [row EXCEPT ![target[q]] =
                      [row[target[q]] EXCEPT !.review = TRUE]]
        BY <2>3 DEF CommitReview
      <4>3. QED
        BY <4>1, <4>2 DEF TypeOK
    <3>2. QED
      BY <2>3, <3>1 DEF CommitReview, End, TypeOK, TxnStates
  <2>4. CASE CommitDelete(q)
    <3>1. row' \in [Emails -> Row]
      BY <2>4, QueuedRowType DEF CommitDelete, TypeOK
    <3>2. QED
      BY <2>4, <3>1 DEF CommitDelete, End, DropLinks, TypeOK, TxnStates
  <2>5. QED
    BY <1>3, <2>1, <2>2, <2>3, <2>4 DEF Commit
<1>4. ASSUME NEW q \in Requests, Stage(q) PROVE TypeOK'
  <2>1. /\ target[q] \in stored => row[target[q]] \in Row
        /\ mem[q] \in Memory
    BY DEF TypeOK
  <2>2. CASE FindEmail(q) \/ StopWaiting(q)
    BY <2>2 DEF FindEmail, StopWaiting, GoTo, TypeOK, Running
  <2>3. ASSUME NEW from, NEW stage \in Stages, NEW to \in Running,
               SetStage(q, from, stage, to)
        PROVE  TypeOK'
    <3> DEFINE r == [row[target[q]] EXCEPT !.status = "running",
                                           !.stage = stage]
    <3>1. target[q] \in stored => r \in Row
      BY <2>1 DEF Row, Statuses
    <3>2. Update(target[q], r)
      BY <2>3 DEF SetStage
    <3>3. row' \in [Emails -> Row]
      BY <3>1, <3>2, UpdateType
    <3>4. QED
      BY <2>3, <3>3 DEF SetStage, GoTo, TypeOK
  <2>4. ASSUME NEW answer \in Answers, Classify(q, answer) PROVE TypeOK'
    <3> DEFINE r == [row[target[q]] EXCEPT
                       !.class = answer.class,
                       !.confidence = answer.confidence,
                       !.linkCount = answer.linkCount]
    <3>1. /\ answer.class \in Classes
          /\ answer.confidence \in Confidences
          /\ answer.linkCount \in 0 .. MaxLinks
      BY AnswerAssumption
    <3>2. target[q] \in stored => r \in Row
      BY <2>1, <3>1 DEF Row
    <3>3. Update(target[q], r)
      BY <2>4 DEF Classify
    <3>4. row' \in [Emails -> Row]
      BY <3>2, <3>3, UpdateType
    <3>5. mem' \in [Requests -> Memory]
      <4> DEFINE m == [mem[q] EXCEPT !.class = answer.class,
                                     !.confidence = answer.confidence,
                                     !.linkCount = answer.linkCount]
      <4>1. m \in Memory
        BY <2>1, <3>1 DEF Memory
      <4>2. mem' = [mem EXCEPT ![q] = m]
        BY <2>4 DEF Classify
      <4>3. QED
        BY <4>1, <4>2 DEF TypeOK
    <3>6. QED
      BY <2>4, <3>4, <3>5 DEF Classify, GoTo, TypeOK, Running
  <2>5. ASSUME NEW scraped \in SUBSET (1 .. MaxLinks), ResolveLinks(q, scraped)
        PROVE  TypeOK'
    <3>1. NewLinks(q) \subseteq LinkIds
      BY <2>1, BoundAssumption DEF NewLinks, LinkIds, Memory
    <3>2. mem' \in [Requests -> Memory]
      <4> DEFINE m == [mem[q] EXCEPT !.scraped = scraped]
      <4>1. m \in Memory
        BY <2>1 DEF Memory
      <4>2. mem' = [mem EXCEPT ![q] = m] \/ mem' = mem
        BY <2>5 DEF ResolveLinks
      <4>3. QED
        BY <4>1, <4>2 DEF TypeOK
    <3>3. QED
      BY <2>5, <3>1, <3>2 DEF ResolveLinks, GoTo, TypeOK, Running
  <2>6. ASSUME NEW risk \in [1 .. MaxLinks -> PageRisks], AnalysePages(q, risk)
        PROVE  TypeOK'
    <3> DEFINE analysed == {q} \X mem[q].scraped
    <3>1. \A l \in analysed : l \in LinkIds /\ risk[l[2]] \in OptRisks
      BY <2>1, AnswerAssumption DEF Memory, LinkIds
    <3>2. {risk[i] : i \in mem[q].scraped} \subseteq OptRisks
      BY <2>1, AnswerAssumption DEF Memory
    <3>3. pages' \subseteq LinkIds \X OptRisks
      BY <2>6, <3>1 DEF AnalysePages, PageRows, TypeOK
    <3>4. mem' \in [Requests -> Memory]
      <4> DEFINE m == [mem[q] EXCEPT !.found = {risk[i] : i \in mem[q].scraped}]
      <4>1. m \in Memory
        BY <2>1, <3>2 DEF Memory
      <4>2. mem' = [mem EXCEPT ![q] = m] \/ mem' = mem
        BY <2>6 DEF AnalysePages
      <4>3. QED
        BY <4>1, <4>2 DEF TypeOK
    <3>5. QED
      BY <2>6, <3>3, <3>4 DEF AnalysePages, GoTo, TypeOK, Running
  <2>7. CASE StoreVerdict(q)
    <3> DEFINE m == mem[q]
               trigger == Trigger(m.class, m.linkCount, m.found,
                                  EarlyExit(m.class, m.confidence))
               r == [row[target[q]] EXCEPT
                       !.finalClass = FinalClass(m.class, trigger),
                       !.trigger = trigger,
                       !.status = "complete",
                       !.stage = "done"]
    <3>1. m.class \in Classes \cup {Null}
      BY <2>1 DEF Memory
    <3>2. /\ trigger \in Triggers
          /\ FinalClass(m.class, trigger) \in Classes \cup {Null}
      BY <3>1, VerdictColumns
    <3> HIDE DEF m, trigger
    <3>3. target[q] \in stored => r \in Row
      BY <2>1, <3>2 DEF Row, Statuses, Stages
    <3>4. Update(target[q], r)
      BY <2>7 DEF StoreVerdict, m, trigger
    <3>5. row' \in [Emails -> Row]
      BY <3>3, <3>4, UpdateType
    <3>6. QED
      BY <2>7, <3>5, NoMemoryType
         DEF StoreVerdict, Finish, GoTo, TypeOK, Ended
  <2>8. CASE MarkFailed(q)
    <3> DEFINE r == Failed(row[target[q]])
    <3>1. target[q] \in stored => r \in Row
      BY <2>1 DEF Failed, Row, Statuses
    <3>2. Update(target[q], r)
      BY <2>8 DEF MarkFailed
    <3>3. row' \in [Emails -> Row]
      BY <3>1, <3>2, UpdateType
    <3>4. QED
      BY <2>8, <3>3, NoMemoryType DEF MarkFailed, Finish, GoTo, TypeOK, Ended
  <2>9. QED
    BY <1>4, <2>2, <2>3, <2>4, <2>5, <2>6, <2>7, <2>8
       DEF Stage, StartClassification, StartLinkResolution, StartPageAnalysis,
           StartAggregation, Stages, Running
<1>5. ASSUME NEW q \in Requests, Fault(q) PROVE TypeOK'
  BY <1>5, NoMemoryType DEF Fault, Rollback, End, StageFails, MarkFailedRaises, Finish, GoTo, TypeOK,
    TxnStates, Running, Ended
<1>6. CASE Process
  BY <1>6, NoMemoryType DEF Process, BeginDrain, Drained, DrainTimesOut, Kill, Start, CancelTasks,
    TypeOK, TxnStates, Ended
<1>7. CASE UNCHANGED vars
  BY <1>7 DEF vars, TypeOK
<1>8. QED
  BY <1>1, <1>2, <1>3, <1>4, <1>5, <1>6, <1>7 DEF Next

\* A task step moves the task, and nothing of the requests.
LEMMA TaskFrame ==
  ASSUME NEW q \in Requests, Stage(q) \/ StageFails(q) \/ MarkFailedRaises(q)
  PROVE  /\ pc[q] \in Running
         /\ \E label : pc' = [pc EXCEPT ![q] = label]
         /\ UNCHANGED <<reqVars, phase>>
  BY DEF Stage, FindEmail, StopWaiting, StartClassification, Classify,
    StartLinkResolution, ResolveLinks, StartPageAnalysis, AnalysePages,
    StartAggregation, StoreVerdict, MarkFailed, StageFails, MarkFailedRaises,
    SetStage, Finish, GoTo, Live, Running

LEMMA RequestsInit == Init => TypeOK /\ RequestsMatchTasks
<1>1. Init => TypeOK
  BY QueuedRowType, NoMemoryType DEF Init, TypeOK, AllOps, TxnStates
<1>2. Init => RequestsMatchTasks
  BY DEF Init, RequestsMatchTasks
<1>3. QED
  BY <1>1, <1>2

LEMMA RequestsNext ==
  TypeOK /\ RequestsMatchTasks /\ [Next]_vars => RequestsMatchTasks'
<1> SUFFICES ASSUME TypeOK, RequestsMatchTasks, [Next]_vars
             PROVE  RequestsMatchTasks'
  OBVIOUS
<1> USE DEF dbVars, reqVars
<1>1. ASSUME NEW q \in Requests, Begin(q) PROVE RequestsMatchTasks'
  <2>1. ASSUME NEW e \in Emails, Submit(q, e) PROVE RequestsMatchTasks'
    BY <2>1, EmailAssumption DEF Submit, TypeOK, RequestsMatchTasks
  <2>2. ASSUME NEW e \in Emails, NEW o \in AllOps, Read(q, o, e)
        PROVE  RequestsMatchTasks'
    BY <2>2, EmailAssumption DEF Read, TypeOK, RequestsMatchTasks
  <2>3. QED
    BY <1>1, <2>1, <2>2 DEF Begin
<1>2. ASSUME NEW q \in Requests, Statement(q) PROVE RequestsMatchTasks'
  BY <1>2 DEF Statement, ReanalyzeUnlink, ReanalyzeReset, ReviewUpdate,
    DeleteRow, TypeOK, RequestsMatchTasks
<1>3. ASSUME NEW q \in Requests, Commit(q) \/ Rollback(q)
      PROVE  RequestsMatchTasks'
  BY <1>3 DEF Commit, CommitSubmit, CommitReanalyze, CommitReview,
    CommitDelete, Rollback, End, Open, TypeOK, RequestsMatchTasks
<1>4. ASSUME NEW q \in Requests,
             Stage(q) \/ StageFails(q) \/ MarkFailedRaises(q)
      PROVE  RequestsMatchTasks'
  BY <1>4, TaskFrame DEF Running, TypeOK, RequestsMatchTasks
<1>5. CASE Process
  BY <1>5 DEF Process, BeginDrain, Drained, DrainTimesOut, Kill, Start,
    CancelTasks, Open, Live, Running, TypeOK, RequestsMatchTasks
<1>6. CASE UNCHANGED vars
  BY <1>6 DEF vars, RequestsMatchTasks
<1>7. QED
  BY <1>1, <1>2, <1>3, <1>4, <1>5, <1>6 DEF Next, Fault

\* The two are inductive together.
LEMMA Basics == Spec => [](TypeOK /\ RequestsMatchTasks)
  BY RequestsInit, TypeNext, RequestsNext, PTL DEF Spec

\* Type correctness: whatever requests, tasks and restarts do, every column,
\* task and transaction keeps a value of its kind.
THEOREM TypeCorrect == Spec => []TypeOK
  BY Basics, PTL


-----------------------------------------------------------------------------
(***************************************************************************)
(* Referential integrity.                                                  *)
(***************************************************************************)

LEMMA OrphansNext ==
  TypeOK /\ RequestsMatchTasks /\ NoOrphanRows /\ [Next]_vars => NoOrphanRows'
<1> SUFFICES ASSUME TypeOK, RequestsMatchTasks, NoOrphanRows, [Next]_vars
             PROVE  NoOrphanRows'
  OBVIOUS
<1> USE DEF dbVars, reqVars
<1>1. ASSUME NEW q \in Requests, Begin(q) PROVE NoOrphanRows'
  <2>1. PICK e \in Emails : target' = [target EXCEPT ![q] = e]
    BY <1>1 DEF Begin, Submit, Read
  <2>2. target[q] = NoEmail /\ UNCHANGED dbVars
    BY <1>1 DEF Begin, Submit, Read, RequestsMatchTasks
  <2>3. \A l \in links : l[1] \in Requests /\ l[1] # q
    BY <2>2, EmailAssumption DEF NoOrphanRows, TypeOK, LinkIds
  <2>4. QED
    BY <2>1, <2>2, <2>3 DEF NoOrphanRows, TypeOK
<1>2. ASSUME NEW q \in Requests, Statement(q) PROVE NoOrphanRows'
  BY <1>2 DEF Statement, ReanalyzeUnlink, ReanalyzeReset, ReviewUpdate,
    DeleteRow, NoOrphanRows
<1>3. ASSUME NEW q \in Requests, Commit(q) PROVE NoOrphanRows'
  <2>1. ASSUME NEW ls, DropLinks(ls), UNCHANGED target,
               \A l \in links \ ls : target[l[1]] \in stored'
        PROVE  NoOrphanRows'
    BY <2>1 DEF DropLinks, PagesOf, NoOrphanRows
  <2>2. CASE CommitReanalyze(q)
    BY <2>1, <2>2 DEF CommitReanalyze, End, NoOrphanRows
  <2>3. CASE CommitDelete(q)
    BY <2>1, <2>3 DEF CommitDelete, End, LinksOf, NoOrphanRows
  <2>4. CASE CommitSubmit(q) \/ CommitReview(q)
    BY <2>4 DEF CommitSubmit, CommitReview, End, NoOrphanRows
  <2>5. QED
    BY <1>3, <2>2, <2>3, <2>4 DEF Commit
<1>4. ASSUME NEW q \in Requests, Stage(q) PROVE NoOrphanRows'
  <2>1. UNCHANGED <<target, stored>>
    BY <1>4 DEF Stage, FindEmail, StopWaiting, StartClassification, Classify,
      StartLinkResolution, ResolveLinks, StartPageAnalysis, AnalysePages,
      StartAggregation, StoreVerdict, MarkFailed, SetStage
  <2>2. ASSUME NEW scraped, ResolveLinks(q, scraped) PROVE NoOrphanRows'
    BY <2>1, <2>2 DEF ResolveLinks, NewLinks, NoOrphanRows
  <2>3. ASSUME NEW risk, AnalysePages(q, risk) PROVE NoOrphanRows'
    BY <2>1, <2>3 DEF AnalysePages, PageRows, NoOrphanRows
  <2>4. CASE UNCHANGED <<links, pages>>
    BY <2>1, <2>4 DEF NoOrphanRows
  <2>5. QED
    BY <1>4, <2>2, <2>3, <2>4 DEF Stage, FindEmail, StopWaiting, Classify,
      StartClassification, StartLinkResolution, StartPageAnalysis,
      StartAggregation, StoreVerdict, MarkFailed, SetStage
<1>5. ASSUME NEW q \in Requests, Fault(q) PROVE NoOrphanRows'
  BY <1>5 DEF Fault, Rollback, End, StageFails, MarkFailedRaises, NoOrphanRows
<1>6. CASE Process
  BY <1>6 DEF Process, BeginDrain, Drained, DrainTimesOut, Kill, Start,
    NoOrphanRows
<1>7. CASE UNCHANGED vars
  BY <1>7 DEF vars, NoOrphanRows
<1>8. QED
  BY <1>1, <1>2, <1>3, <1>4, <1>5, <1>6, <1>7 DEF Next

\* Whatever deletes, re-queues, late tasks and rollbacks overlap, no link is
\* left without its email and no page analysis without its link.
THEOREM NoOrphans == Spec => []NoOrphanRows
<1>1. Init => NoOrphanRows
  BY DEF Init, NoOrphanRows
<1>2. QED
  BY <1>1, Basics, OrphansNext, PTL DEF Spec

-----------------------------------------------------------------------------
(***************************************************************************)
(* A complete email has a verdict.                                         *)
(***************************************************************************)

LEMMA TasksKnowNext ==
  TypeOK /\ TasksKnowClass /\ [Next]_vars => TasksKnowClass'
<1> SUFFICES ASSUME TypeOK, TasksKnowClass, [Next]_vars PROVE TasksKnowClass'
  OBVIOUS
<1> USE DEF dbVars, reqVars
<1>1. ASSUME NEW q \in Requests, Begin(q) \/ Statement(q)
      PROVE  TasksKnowClass'
  BY <1>1 DEF Begin, Submit, Read, Statement, ReanalyzeUnlink,
    ReanalyzeReset, ReviewUpdate, DeleteRow, TypeOK, TasksKnowClass
<1>2. ASSUME NEW q \in Requests, Commit(q) \/ Rollback(q)
      PROVE  TasksKnowClass'
  BY <1>2 DEF Commit, CommitSubmit, CommitReanalyze, CommitReview,
    CommitDelete, Rollback, End, TasksKnowClass
<1>3. ASSUME NEW q \in Requests, Stage(q) PROVE TasksKnowClass'
  <2>1. ASSUME NEW answer \in Answers, Classify(q, answer)
        PROVE  TasksKnowClass'
    <3>1. answer.class \in Classes
      BY AnswerAssumption
    <3>2. \A p \in Requests : mem'[p].class = IF p = q THEN answer.class
                                                       ELSE mem[p].class
      BY <2>1 DEF Classify, TypeOK, Memory
    <3>3. QED
      BY <2>1, <3>1, <3>2 DEF Classify, GoTo, TypeOK, TasksKnowClass
  <2>2. ASSUME NEW scraped, ResolveLinks(q, scraped) PROVE TasksKnowClass'
    <3>1. \A p \in Requests : mem'[p].class = mem[p].class
      <4>1. mem' = mem \/ mem' = [mem EXCEPT ![q] =
                                   [mem[q] EXCEPT !.scraped = scraped]]
        BY <2>2 DEF ResolveLinks
      <4>2. QED
        BY <4>1 DEF TypeOK, Memory
    <3>2. QED
      BY <2>2, <3>1 DEF ResolveLinks, GoTo, TypeOK, TasksKnowClass
  <2>3. ASSUME NEW risk, AnalysePages(q, risk) PROVE TasksKnowClass'
    <3>1. \A p \in Requests : mem'[p].class = mem[p].class
      <4>1. mem' = mem \/ mem' = [mem EXCEPT ![q] =
                                   [mem[q] EXCEPT !.found = {risk[i] : i \in mem[q].scraped}]]
        BY <2>3 DEF AnalysePages
      <4>2. QED
        BY <4>1 DEF TypeOK, Memory
    <3>2. QED
      BY <2>3, <3>1 DEF AnalysePages, GoTo, TypeOK, TasksKnowClass
  <2>4. CASE FindEmail(q) \/ StopWaiting(q) \/ StoreVerdict(q) \/ MarkFailed(q)
    BY <2>4 DEF FindEmail, StopWaiting, StoreVerdict, MarkFailed, Finish,
      GoTo, TypeOK, TasksKnowClass
  <2>5. CASE \/ StartClassification(q) \/ StartLinkResolution(q)
             \/ StartPageAnalysis(q) \/ StartAggregation(q)
    BY <2>5 DEF StartClassification, StartLinkResolution, StartPageAnalysis,
      StartAggregation, SetStage, GoTo, TypeOK, TasksKnowClass
  <2>6. QED
    BY <1>3, <2>1, <2>2, <2>3, <2>4, <2>5 DEF Stage
<1>4. ASSUME NEW q \in Requests, StageFails(q) \/ MarkFailedRaises(q)
      PROVE  TasksKnowClass'
  BY <1>4 DEF StageFails, MarkFailedRaises, Finish, GoTo, TypeOK,
    TasksKnowClass
<1>5. CASE Process
  BY <1>5 DEF Process, BeginDrain, Drained, DrainTimesOut, Kill, Start,
    CancelTasks, Live, Running, TypeOK, TasksKnowClass
<1>6. CASE UNCHANGED vars
  BY <1>6 DEF vars, TasksKnowClass
<1>7. QED
  BY <1>1, <1>2, <1>3, <1>4, <1>5, <1>6 DEF Next, Fault

\* The UPDATEs of the tasks: one row at most changes, into the new one.
LEMMA VerdictUpdate ==
  ASSUME NEW e, NEW r, TypeOK, VerdictStays, Update(e, r),
         (e \in stored /\ r.status = "complete") =>
           r.finalClass # Null /\ r.trigger # Null /\ r.stage = "done"
  PROVE  VerdictStays'
  BY DEF TypeOK, VerdictStays, Update

LEMMA VerdictNext ==
  TypeOK /\ TasksKnowClass /\ VerdictStays /\ [Next]_vars => VerdictStays'
<1> SUFFICES ASSUME TypeOK, TasksKnowClass, VerdictStays, [Next]_vars
             PROVE  VerdictStays'
  OBVIOUS
<1> USE DEF dbVars, reqVars
<1>1. ASSUME NEW q \in Requests, Commit(q) PROVE VerdictStays'
  <2>1. CASE CommitReanalyze(q)
    BY <2>1 DEF CommitReanalyze, Reset, TypeOK, VerdictStays, QueuedRow
  <2>2. CASE CommitReview(q)
    <3>1. \A e \in Emails : \/ row'[e] = row[e]
                            \/ row'[e] = [row[e] EXCEPT !.review = TRUE]
      BY <2>2 DEF CommitReview, TypeOK
    <3>2. \A e \in Emails : /\ row'[e].status = row[e].status
                            /\ row'[e].finalClass = row[e].finalClass
                            /\ row'[e].trigger = row[e].trigger
                            /\ row'[e].stage = row[e].stage
      BY <3>1 DEF TypeOK, Row
    <3>3. QED
      BY <3>2 DEF VerdictStays
  <2>3. CASE CommitDelete(q)
    BY <2>3 DEF CommitDelete, TypeOK, VerdictStays, QueuedRow
  <2>4. CASE CommitSubmit(q)
    BY <2>4 DEF CommitSubmit, VerdictStays
  <2>5. QED
    BY <1>1, <2>1, <2>2, <2>3, <2>4 DEF Commit
<1>2. ASSUME NEW q \in Requests, Stage(q) PROVE VerdictStays'
  <2>1. target[q] \in stored => row[target[q]] \in Row
    BY DEF TypeOK
  <2>2. ASSUME NEW from, NEW stage, NEW to, SetStage(q, from, stage, to)
        PROVE  VerdictStays'
    <3> DEFINE r == [row[target[q]] EXCEPT !.status = "running",
                                           !.stage = stage]
    <3>1. target[q] \in stored => r.status # "complete"
      BY <2>1 DEF Row
    <3>2. Update(target[q], r)
      BY <2>2 DEF SetStage
    <3> HIDE DEF r
    <3>3. QED
      BY <3>1, <3>2, VerdictUpdate
  <2>3. ASSUME NEW answer \in Answers, Classify(q, answer) PROVE VerdictStays'
    <3> DEFINE r == [row[target[q]] EXCEPT
                       !.class = answer.class,
                       !.confidence = answer.confidence,
                       !.linkCount = answer.linkCount]
    <3>1. target[q] \in stored => /\ r.status = row[target[q]].status
                                  /\ r.finalClass = row[target[q]].finalClass
                                  /\ r.trigger = row[target[q]].trigger
                                  /\ r.stage = row[target[q]].stage
      BY <2>1 DEF Row
    <3>2. Update(target[q], r)
      BY <2>3 DEF Classify
    <3> HIDE DEF r
    <3>3. QED
      BY <3>1, <3>2, VerdictUpdate DEF VerdictStays, TypeOK
  <2>4. CASE StoreVerdict(q)
    <3> DEFINE m == mem[q]
               trigger == Trigger(m.class, m.linkCount, m.found,
                                  EarlyExit(m.class, m.confidence))
               r == [row[target[q]] EXCEPT
                       !.finalClass = FinalClass(m.class, trigger),
                       !.trigger = trigger,
                       !.status = "complete",
                       !.stage = "done"]
    <3>1. m.class \in Classes
      BY <2>4 DEF StoreVerdict, TasksKnowClass
    <3>2. trigger \in Triggers /\ FinalClass(m.class, trigger) \in Classes
      BY <3>1, VerdictType
    <3>3. Update(target[q], r)
      BY <2>4 DEF StoreVerdict
    <3> HIDE DEF m, trigger
    <3>4. target[q] \in stored =>
            r.finalClass # Null /\ r.trigger # Null /\ r.stage = "done"
      BY <2>1, <3>2 DEF Row, Classes, Triggers, Null
    <3> HIDE DEF r
    <3>5. QED
      BY <3>3, <3>4, VerdictUpdate
  <2>5. CASE MarkFailed(q)
    <3> DEFINE r == Failed(row[target[q]])
    <3>1. target[q] \in stored => r.status # "complete"
      BY <2>1 DEF Failed, Row
    <3>2. Update(target[q], r)
      BY <2>5 DEF MarkFailed
    <3> HIDE DEF r
    <3>3. QED
      BY <3>1, <3>2, VerdictUpdate
  <2>6. CASE UNCHANGED row
    BY <2>6 DEF VerdictStays
  <2>7. QED
    BY <1>2, <2>2, <2>3, <2>4, <2>5, <2>6 DEF Stage, FindEmail, StopWaiting,
      ResolveLinks, AnalysePages, StartClassification, StartLinkResolution,
      StartPageAnalysis, StartAggregation
<1>3. CASE UNCHANGED row
  BY <1>3 DEF VerdictStays
<1>4. QED
  BY <1>1, <1>2, <1>3 DEF Next, Begin, Submit, Read, Statement,
    ReanalyzeUnlink, ReanalyzeReset, ReviewUpdate, DeleteRow, Fault, Rollback,
    StageFails, MarkFailedRaises, Process, BeginDrain, Drained,
    DrainTimesOut, Kill, Start, vars

\* Any number of runs and requests may overlap, crash and be rolled back: an
\* email that clients see as complete has a verdict.
THEOREM CompleteIsJudged == Spec => []CompleteHasVerdict
<1>1. Init => TasksKnowClass /\ VerdictStays
  BY DEF Init, TasksKnowClass, VerdictStays, QueuedRow
<1>2. TypeOK /\ VerdictStays => CompleteHasVerdict
  BY DEF TypeOK, VerdictStays, CompleteHasVerdict
<1>3. QED
  BY <1>1, <1>2, Basics, TasksKnowNext, VerdictNext, PTL DEF Spec


-----------------------------------------------------------------------------
(***************************************************************************)
(* A manual review is kept.                                                *)
(***************************************************************************)

\* What one step does to the reviews.
KeepsReviews == \A e \in stored \cap stored' : row[e].review => row'[e].review

LEMMA ReviewUpdateKept ==
  ASSUME NEW e, NEW r, TypeOK, Update(e, r),
         e \in stored => r.review = row[e].review
  PROVE  KeepsReviews
  BY DEF TypeOK, Update, KeepsReviews

LEMMA ReviewStep == TypeOK /\ [Next]_vars => KeepsReviews
<1> SUFFICES ASSUME TypeOK, [Next]_vars PROVE KeepsReviews
  OBVIOUS
<1> USE DEF dbVars, reqVars
<1>1. ASSUME NEW q \in Requests, Commit(q) PROVE KeepsReviews
  <2>1. CASE CommitReanalyze(q)
    <3> DEFINE r == Reset(row[target[q]])
    <3>1. r.review = row[target[q]].review
      BY DEF Reset, QueuedRow
    <3>2. row' = IF target[q] \in stored THEN [row EXCEPT ![target[q]] = r]
                                         ELSE row
      BY <2>1 DEF CommitReanalyze
    <3> HIDE DEF r
    <3>3. QED
      BY <3>1, <3>2 DEF KeepsReviews, TypeOK
  <2>2. CASE CommitReview(q)
    <3>1. row' = [row EXCEPT ![target[q]] =
                    [row[target[q]] EXCEPT !.review = TRUE]]
      BY <2>2 DEF CommitReview
    <3>2. target[q] \in Emails => [row[target[q]] EXCEPT !.review = TRUE].review
      BY DEF TypeOK, Row
    <3>3. QED
      BY <3>1, <3>2 DEF KeepsReviews, TypeOK
  <2>3. CASE CommitDelete(q)
    BY <2>3 DEF CommitDelete, TypeOK, KeepsReviews
  <2>4. CASE CommitSubmit(q)
    BY <2>4 DEF CommitSubmit, KeepsReviews
  <2>5. QED
    BY <1>1, <2>1, <2>2, <2>3, <2>4 DEF Commit
<1>2. ASSUME NEW q \in Requests, Stage(q) PROVE KeepsReviews
  <2>1. target[q] \in stored => row[target[q]] \in Row
    BY DEF TypeOK
  <2>2. ASSUME NEW from, NEW stage, NEW to, SetStage(q, from, stage, to)
        PROVE  KeepsReviews
    <3> DEFINE r == [row[target[q]] EXCEPT !.status = "running",
                                           !.stage = stage]
    <3>1. target[q] \in stored => r.review = row[target[q]].review
      BY <2>1 DEF Row
    <3>2. Update(target[q], r)
      BY <2>2 DEF SetStage
    <3> HIDE DEF r
    <3>3. QED
      BY <3>1, <3>2, ReviewUpdateKept
  <2>3. ASSUME NEW answer, Classify(q, answer) PROVE KeepsReviews
    <3> DEFINE r == [row[target[q]] EXCEPT
                       !.class = answer.class,
                       !.confidence = answer.confidence,
                       !.linkCount = answer.linkCount]
    <3>1. target[q] \in stored => r.review = row[target[q]].review
      BY <2>1 DEF Row
    <3>2. Update(target[q], r)
      BY <2>3 DEF Classify
    <3> HIDE DEF r
    <3>3. QED
      BY <3>1, <3>2, ReviewUpdateKept
  <2>4. CASE StoreVerdict(q)
    <3> DEFINE m == mem[q]
               trigger == Trigger(m.class, m.linkCount, m.found,
                                  EarlyExit(m.class, m.confidence))
               r == [row[target[q]] EXCEPT
                       !.finalClass = FinalClass(m.class, trigger),
                       !.trigger = trigger,
                       !.status = "complete",
                       !.stage = "done"]
    <3>1. Update(target[q], r)
      BY <2>4 DEF StoreVerdict
    <3> HIDE DEF m, trigger
    <3>2. target[q] \in stored => r.review = row[target[q]].review
      BY <2>1 DEF Row
    <3> HIDE DEF r
    <3>3. QED
      BY <3>1, <3>2, ReviewUpdateKept
  <2>5. CASE MarkFailed(q)
    <3> DEFINE r == Failed(row[target[q]])
    <3>1. target[q] \in stored => r.review = row[target[q]].review
      BY <2>1 DEF Failed, Row
    <3>2. Update(target[q], r)
      BY <2>5 DEF MarkFailed
    <3> HIDE DEF r
    <3>3. QED
      BY <3>1, <3>2, ReviewUpdateKept
  <2>6. CASE UNCHANGED row
    BY <2>6 DEF KeepsReviews
  <2>7. QED
    BY <1>2, <2>2, <2>3, <2>4, <2>5, <2>6 DEF Stage, FindEmail, StopWaiting,
      ResolveLinks, AnalysePages, StartClassification, StartLinkResolution,
      StartPageAnalysis, StartAggregation
<1>3. CASE UNCHANGED row
  BY <1>3 DEF KeepsReviews
<1>4. QED
  BY <1>1, <1>2, <1>3 DEF Next, Begin, Submit, Read, Statement,
    ReanalyzeUnlink, ReanalyzeReset, ReviewUpdate, DeleteRow, Fault, Rollback,
    StageFails, MarkFailedRaises, Process, BeginDrain, Drained,
    DrainTimesOut, Kill, Start, vars

\* A review outlives every run and re-queue that overlaps with it: the tasks
\* write other columns of the row, and reanalyze leaves the review columns.
THEOREM ReviewsKept == Spec => ReviewSurvives
  BY Basics, ReviewStep, PTL DEF Spec, ReviewSurvives, KeepsReviews

-----------------------------------------------------------------------------
(***************************************************************************)
(* Nothing is stranded, as long as submits commit in time, _mark_failed    *)
(* does not raise and the process lives.                                   *)
(***************************************************************************)

\* The faults that strand emails.
Stranding == {"late", "mark", "shutdown", "kill"}

\* Every stored email was submitted by one of the requests.
StoredWereSubmitted ==
  \A e \in stored : \E q \in Requests : target[q] = e

SafeInv ==
  /\ TypeOK
  /\ RequestsMatchTasks
  /\ phase = "serving"
  /\ StoredWereSubmitted
  /\ SubmitsAreNew
  /\ TasksWaitForCommit
  /\ NothingStranded

\* A step that leaves stored, target and the transactions alone.
LEMMA TaskStepSafe ==
  ASSUME Faults \cap Stranding = {}, SafeInv, NEW q \in Requests,
         Stage(q) \/ StageFails(q)
  PROVE  SafeInv'
<1> USE DEF dbVars, reqVars
<1>1. TypeOK' /\ RequestsMatchTasks'
  <2>1. [Next]_vars
    BY DEF Next, Fault
  <2>2. QED
    BY <2>1, TypeNext, RequestsNext DEF SafeInv
<1>2. UNCHANGED <<stored, op, target, txn, phase>>
  BY DEF Stage, FindEmail, StopWaiting, StartClassification, Classify,
    StartLinkResolution, ResolveLinks, StartPageAnalysis, AnalysePages,
    StartAggregation, StoreVerdict, MarkFailed, StageFails, SetStage
<1>3. /\ "late" \notin Faults
      /\ TypeOK
      /\ txn[q] = "written" => /\ op[q] = "submit" => pc[q] = "waiting"
                               /\ op[q] \in {"submit", "reanalyze"}
      /\ (txn[q] = "written" /\ op[q] = "submit") => target[q] \notin stored
  BY TaskFrame DEF SafeInv, Stranding, TasksWaitForCommit, SubmitsAreNew,
    RequestsMatchTasks, TypeOK, AllOps, Running
<1>4. (txn[q] = "written" /\ op[q] = "submit") => pc'[q] = "waiting"
  BY <1>3 DEF Stage, FindEmail, StopWaiting, StartClassification, Classify,
    StartLinkResolution, ResolveLinks, StartPageAnalysis, AnalysePages,
    StartAggregation, StoreVerdict, MarkFailed, StageFails, SetStage, Open
<1>5. (txn[q] = "written" /\ op[q] = "reanalyze" /\ target[q] \in stored) =>
        pc'[q] \in {"waiting", "toClassify", "failing"}
  <2>1. SUFFICES ASSUME txn[q] = "written", op[q] = "reanalyze",
                        target[q] \in stored
                 PROVE  pc'[q] \in {"waiting", "toClassify", "failing"}
    OBVIOUS
  <2>2. Locked(target[q])
    BY <2>1 DEF Locked
  <2>3. pc[q] \in {"waiting", "toClassify", "failing"}
    BY <2>1 DEF SafeInv, TasksWaitForCommit
  <2>4. QED
    BY <2>2, <2>3, <1>3 DEF Stage, FindEmail, StopWaiting, GoTo,
      StartClassification, Classify, StartLinkResolution, ResolveLinks,
      StartPageAnalysis, AnalysePages, StartAggregation, StoreVerdict,
      MarkFailed, StageFails, SetStage, Update, TypeOK
<1>6. TasksWaitForCommit'
  <2>1. \A p \in Requests : p # q => pc'[p] = pc[p]
    BY TaskFrame DEF SafeInv, TypeOK
  <2>2. QED
    BY <1>2, <1>4, <1>5, <2>1 DEF SafeInv, TasksWaitForCommit
<1>7. NothingStranded'
  <2>1. ASSUME NEW e \in stored, row'[e].status \notin Terminal
        PROVE  \E p \in Requests : target[p] = e /\ pc'[p] \in Running
    <3>1. CASE target[q] = e
      <4>1. ~StoreVerdict(q)
        <5> SUFFICES ASSUME StoreVerdict(q) PROVE FALSE
          OBVIOUS
        <5> DEFINE m == mem[q]
                   trigger == Trigger(m.class, m.linkCount, m.found,
                                      EarlyExit(m.class, m.confidence))
                   r == [row[target[q]] EXCEPT
                           !.finalClass = FinalClass(m.class, trigger),
                           !.trigger = trigger,
                           !.status = "complete",
                           !.stage = "done"]
        <5>1. Update(target[q], r)
          BY DEF StoreVerdict
        <5> HIDE DEF m, trigger
        <5>2. r.status = "complete"
          BY <3>1, <1>3 DEF TypeOK, Row
        <5> HIDE DEF r
        <5>3. row'[e].status = "complete"
          BY <3>1, <5>1, <5>2, <1>3 DEF Update, TypeOK
        <5>4. QED
          BY <2>1, <5>3 DEF Terminal
      <4>2. ~MarkFailed(q)
        BY <2>1, <3>1, <1>3 DEF MarkFailed, Failed, Update, TypeOK, Row, Terminal
      <4>3. pc'[q] \in Running
        BY <4>1, <4>2, <1>3 DEF Stage, FindEmail, StopWaiting, Classify,
          ResolveLinks, AnalysePages, StartClassification, SetStage, GoTo,
          StartLinkResolution, StartPageAnalysis, StartAggregation,
          StageFails, Running, TypeOK
      <4>4. QED
        BY <3>1, <4>3
    <3>2. CASE target[q] # e
      <4>1. row'[e] = row[e]
        BY <3>2, <1>3 DEF Stage, FindEmail, StopWaiting, Classify,
          ResolveLinks, AnalysePages, StartClassification, SetStage, Update,
          StartLinkResolution, StartPageAnalysis, StartAggregation,
          StoreVerdict, MarkFailed, StageFails, TypeOK
      <4>2. PICK p \in Requests : target[p] = e /\ Live(p)
        BY <2>1, <4>1 DEF SafeInv, NothingStranded
      <4>3. pc'[p] = pc[p]
        BY <3>2, <4>2, <1>3, TaskFrame DEF TypeOK
      <4>4. QED
        BY <4>2, <4>3 DEF Live
    <3>3. QED
      BY <3>1, <3>2
  <2>2. QED
    BY <1>2, <2>1 DEF NothingStranded, Live
<1>8. QED
  BY <1>1, <1>2, <1>6, <1>7 DEF SafeInv, StoredWereSubmitted, SubmitsAreNew

\* The other steps, where no task moves on.
LEMMA RequestStepSafe ==
  ASSUME Faults \cap Stranding = {}, SafeInv, NEW q \in Requests,
         Begin(q) \/ Statement(q) \/ Commit(q) \/ Rollback(q)
  PROVE  SafeInv'
<1> USE DEF dbVars, reqVars
<1>1. TypeOK' /\ RequestsMatchTasks'
  <2>1. [Next]_vars
    BY DEF Next, Fault
  <2>2. QED
    BY <2>1, TypeNext, RequestsNext DEF SafeInv
<1>2. TypeOK /\ RequestsMatchTasks
  BY DEF SafeInv
<1>3. UNCHANGED phase
  BY DEF Begin, Submit, Read, Statement, ReanalyzeUnlink, ReanalyzeReset,
    ReviewUpdate, DeleteRow, Commit, CommitSubmit, CommitReanalyze,
    CommitReview, CommitDelete, Rollback, End
<1>4. ASSUME NEW e \in Emails, Submit(q, e) PROVE SafeInv'
  <2>1. /\ UNCHANGED <<stored, row>>
        /\ op' = [op EXCEPT ![q] = "submit"]
        /\ target' = [target EXCEPT ![q] = e]
        /\ txn' = [txn EXCEPT ![q] = "written"]
        /\ pc' = [pc EXCEPT ![q] = "waiting"]
        /\ pc[q] = "none" /\ target[q] = NoEmail
        /\ \A p \in Requests : target[p] # e
    BY <1>2, <1>4 DEF Submit, RequestsMatchTasks
  <2>2. e \notin stored
    BY <2>1 DEF SafeInv, StoredWereSubmitted
  <2>3. StoredWereSubmitted' /\ SubmitsAreNew' /\ TasksWaitForCommit'
    BY <1>2, <2>1, <2>2, EmailAssumption DEF SafeInv, StoredWereSubmitted,
      SubmitsAreNew, TasksWaitForCommit, TypeOK
  <2>4. NothingStranded'
    BY <1>2, <2>1, EmailAssumption DEF SafeInv, NothingStranded, Live, TypeOK, Running
  <2>5. QED
    BY <1>1, <1>3, <2>3, <2>4 DEF SafeInv
<1>5. ASSUME NEW e \in Emails, NEW o \in AllOps, Read(q, o, e) PROVE SafeInv'
  <2>1. /\ UNCHANGED <<stored, row, pc>>
        /\ op' = [op EXCEPT ![q] = o]
        /\ target' = [target EXCEPT ![q] = e]
        /\ txn' = [txn EXCEPT ![q] = "open"]
        /\ target[q] = NoEmail /\ e \in stored
        /\ pc[q] = "none"
    BY <1>2, <1>5 DEF Read, RequestsMatchTasks
  <2>2. StoredWereSubmitted' /\ SubmitsAreNew' /\ TasksWaitForCommit'
    BY <1>2, <2>1, EmailAssumption DEF SafeInv, StoredWereSubmitted,
      SubmitsAreNew, TasksWaitForCommit, TypeOK
  <2>3. NothingStranded'
    BY <1>2, <2>1, EmailAssumption DEF SafeInv, NothingStranded, Live, TypeOK, Running
  <2>4. QED
    BY <1>1, <1>3, <2>2, <2>3 DEF SafeInv
<1>6. CASE Statement(q) \/ Rollback(q)
  <2>1. UNCHANGED <<stored, row, op, target>>
    BY <1>6 DEF Statement, ReanalyzeUnlink, ReanalyzeReset, ReviewUpdate,
      DeleteRow, Rollback, End
  <2>2. StoredWereSubmitted' /\ SubmitsAreNew' /\ TasksWaitForCommit'
    BY <1>2, <1>6, <2>1 DEF Statement, ReanalyzeUnlink, ReanalyzeReset,
      ReviewUpdate, DeleteRow, Rollback, End, SafeInv, StoredWereSubmitted,
      SubmitsAreNew, TasksWaitForCommit, TypeOK
  <2>3. \A p \in Requests : Live(p) => Live(p)'
    BY <1>2, <1>6 DEF Statement, ReanalyzeUnlink, ReanalyzeReset,
      ReviewUpdate, DeleteRow, Rollback, End, Live, Running, TypeOK
  <2>4. NothingStranded'
    BY <2>1, <2>3 DEF SafeInv, NothingStranded
  <2>5. QED
    BY <1>1, <1>3, <2>2, <2>4 DEF SafeInv
<1>7. CASE Commit(q)
  <2>1. /\ UNCHANGED <<op, target, pc>>
        /\ txn[q] = "written" /\ target[q] \in Emails
        /\ txn' = [txn EXCEPT ![q] = "committed"]
    BY <1>2, <1>7 DEF Commit, CommitSubmit, CommitReanalyze, CommitReview,
      CommitDelete, End, RequestsMatchTasks, TypeOK
  <2>2. CASE CommitSubmit(q)
    <3>1. UNCHANGED row /\ stored' = stored \cup {target[q]}
      BY <2>2 DEF CommitSubmit
    <3>2. op[q] = "submit" /\ pc[q] = "waiting"
      BY <2>1, <2>2 DEF CommitSubmit, SafeInv, TasksWaitForCommit
    <3>3. StoredWereSubmitted' /\ SubmitsAreNew' /\ TasksWaitForCommit'
      BY <1>2, <2>1, <3>1, <3>2 DEF SafeInv, StoredWereSubmitted,
        SubmitsAreNew, TasksWaitForCommit, TypeOK
    <3>4. NothingStranded'
      BY <2>1, <3>1, <3>2 DEF SafeInv, NothingStranded, Live, Running
    <3>5. QED
      BY <1>1, <1>3, <3>3, <3>4 DEF SafeInv
  <2>3. CASE ~CommitSubmit(q)
    <3>1. /\ stored' \subseteq stored
          /\ \A e \in stored' :
               \/ row'[e].status = row[e].status
               \/ e = target[q] /\ op[q] = "reanalyze"
      <4>1. CASE CommitReanalyze(q)
        BY <1>2, <4>1 DEF CommitReanalyze, TypeOK
      <4>2. CASE CommitReview(q)
        BY <1>2, <4>2 DEF CommitReview, TypeOK, Row
      <4>3. CASE CommitDelete(q)
        BY <1>2, <4>3 DEF CommitDelete, TypeOK
      <4>4. QED
        BY <1>7, <2>3, <4>1, <4>2, <4>3 DEF Commit
    <3>2. StoredWereSubmitted' /\ SubmitsAreNew' /\ TasksWaitForCommit'
      BY <1>2, <2>1, <3>1 DEF SafeInv, StoredWereSubmitted,
        SubmitsAreNew, TasksWaitForCommit, TypeOK
    <3>3. (op[q] = "reanalyze" /\ target[q] \in stored) => Live(q)
      BY <2>1 DEF SafeInv, TasksWaitForCommit, Live, Running
    <3>4. NothingStranded'
      BY <2>1, <3>1, <3>3 DEF SafeInv, NothingStranded, Live
    <3>5. QED
      BY <1>1, <1>3, <3>2, <3>4 DEF SafeInv
  <2>4. QED
    BY <2>2, <2>3
<1>8. QED
  BY <1>4, <1>5, <1>6, <1>7 DEF Begin

\* Every email that is not finished has a task at work on it, however many
\* requests overlap, fail or are rolled back and whatever stage raises.
THEOREM NoneStranded ==
  ASSUME Faults \cap Stranding = {}
  PROVE  Spec => []NothingStranded
<1>1. Init => SafeInv
  <2>1. Init => TypeOK /\ RequestsMatchTasks
    BY RequestsInit
  <2>2. QED
    BY <2>1 DEF Init, SafeInv, StoredWereSubmitted, SubmitsAreNew,
      TasksWaitForCommit, NothingStranded
<1>2. SafeInv /\ [Next]_vars => SafeInv'
  <2> SUFFICES ASSUME SafeInv, [Next]_vars PROVE SafeInv'
    OBVIOUS
  <2>1. ASSUME NEW q \in Requests, Stage(q) \/ StageFails(q) PROVE SafeInv'
    BY <2>1, TaskStepSafe
  <2>2. ASSUME NEW q \in Requests,
               Begin(q) \/ Statement(q) \/ Commit(q) \/ Rollback(q)
        PROVE  SafeInv'
    BY <2>2, RequestStepSafe
  <2>3. ~Process /\ \A q \in Requests : ~MarkFailedRaises(q)
    BY DEF Process, BeginDrain, Drained, DrainTimesOut, Kill, Start,
      MarkFailedRaises, SafeInv, Stranding
  <2>4. CASE UNCHANGED vars
    BY <2>4 DEF vars, SafeInv, TypeOK, RequestsMatchTasks,
      StoredWereSubmitted, SubmitsAreNew, TasksWaitForCommit,
      NothingStranded, Live
  <2>5. QED
    BY <2>1, <2>2, <2>3, <2>4 DEF Next, Fault
<1>3. SafeInv => NothingStranded
  BY DEF SafeInv
<1>4. QED
  BY <1>1, <1>2, <1>3, PTL DEF Spec

=============================================================================
