------------------------- MODULE InferencePipeline -------------------------
(***************************************************************************)
(* The life of an email in the inference module: the request transactions  *)
(* that create, re-queue, review and delete it, the background tasks that  *)
(* take it through the four stages, and the shutdown that drains them.     *)
(*                                                                         *)
(* A request runs in one transaction (get_db, or the session of the        *)
(* extension's submitter); its statements take row locks that it holds     *)
(* until it commits or rolls back, and it commits after it has spawned the *)
(* task.  A task writes each stage in a transaction of its own, which is   *)
(* one step here.  The database is PostgreSQL at READ COMMITTED: an UPDATE *)
(* waits for the lock on its row, and changes nothing if there is no row.  *)
(*                                                                         *)
(* submit and reanalyze spawn one task each, so a task has the name of its *)
(* request.  What the LLMs, the resolver and the scraper answer is chosen  *)
(* freely at the step that stores it.                                      *)
(***************************************************************************)
EXTENDS Integers, FiniteSets, Aggregation

CONSTANTS
  Emails,     \* the ids that new emails can get
  NoEmail,    \* the target of a request that has not been made yet
  Requests,   \* the requests clients make; each one is made at most once
  Ops,        \* the operations clients use
  MaxLinks,   \* bound on the links stage 1 finds in one email
  Answers,    \* what stage 1 may answer
  PageRisks,  \* the risk levels stage 3 may answer
  Faults,     \* what may go wrong
  Endless,    \* the calls, of a task at a place, whose answer never stops coming
  Exclusive   \* clients wait for a terminal status before they re-queue or
              \* delete an email, and make one such request at a time

AllOps    == {"submit", "reanalyze", "review", "delete"}
AllFaults == {"rollback",   \* a request fails after its statements
              "late",       \* a task gets past its wait before submit commits
              "stage",      \* a stage raises
              "mark",       \* _mark_failed itself raises
              "shutdown",   \* the application is stopped and started again
              "kill"}       \* the process dies and is started again

\* A confidence is only ever compared with EARLY_EXIT_CONFIDENCE.
Confidences == {"above", "notAbove"}

ASSUME EmailAssumption  == NoEmail \notin Emails
ASSUME BoundAssumption  == MaxLinks \in Nat
ASSUME AnswerAssumption ==
  /\ Answers \subseteq [class : Classes, confidence : Confidences,
                        linkCount : 0 .. MaxLinks]
  /\ PageRisks \subseteq OptRisks
\* Where a task waits for Groq, for the pages of links, and for Gemini.
Calling == {"classifying", "resolving", "analysing"}

ASSUME ChoiceAssumption == /\ Endless \subseteq Requests \X Calling
                           /\ Ops \subseteq AllOps
                           /\ Faults \subseteq AllFaults
                           /\ Exclusive \in BOOLEAN

VARIABLES
  stored,  \* the ids that have a committed row in table emails
  row,     \* the committed row of each id
  links,   \* table links: <<q, i>> is the i-th link that task q inserted
  pages,   \* table page_analysis: <<l, risk>>, one row for link l
  op,      \* what each request asks
  target,  \* the email each request is about
  txn,     \* how far the transaction of each request is
  doomed,  \* the link rows the transaction has deleted, not yet committed
  pc,      \* where the task of each request is
  mem,     \* what the task holds in memory
  phase    \* the application: serving, draining or stopped

vars == <<stored, row, links, pages, op, target, txn, doomed, pc, mem, phase>>
dbVars  == <<stored, row, links, pages>>
reqVars == <<op, target, txn, doomed>>

-----------------------------------------------------------------------------
(***************************************************************************)
(* Rows and tasks.                                                         *)
(***************************************************************************)
Statuses == {"pending", "running", "complete", "failed"}
Stages   == {"queued", "classification", "link_resolution", "page_analysis",
             "aggregation", "done"}
Terminal == {"complete", "failed"}

LinkIds == Requests \X (1 .. MaxLinks)

Row == [status       : Statuses,
        stage        : Stages,
        class        : Classes \cup {Null},
        confidence   : Confidences \cup {Null},
        linkCount    : 0 .. MaxLinks,
        finalClass   : Classes \cup {Null},
        trigger      : Triggers \cup {Null},
        error        : BOOLEAN,    \* pipeline_error is set
        review       : BOOLEAN]    \* manual_review_flag

\* The row submit inserts, and, but for the review, the row reanalyze resets.
QueuedRow ==
  [status |-> "pending", stage |-> "queued", class |-> Null,
   confidence |-> Null, linkCount |-> 0, finalClass |-> Null,
   trigger |-> Null, error |-> FALSE, review |-> FALSE]

Memory == [class      : Classes \cup {Null},
           confidence : Confidences \cup {Null},
           linkCount  : 0 .. MaxLinks,
           scraped    : SUBSET (1 .. MaxLinks),  \* links whose page was scraped
           found      : SUBSET OptRisks]         \* risk levels of the pages

NoMemory == [class |-> Null, confidence |-> Null, linkCount |-> 0,
             scraped |-> {}, found |-> {}]

TxnStates == {"idle", "open", "unlinked", "written", "committed", "aborted"}
Ended     == {"done", "failed", "cancelled"}
Running   == {"waiting", "toClassify", "classifying", "toResolve", "resolving",
              "toAnalyse", "analysing", "toAggregate", "finalising", "failing"}

TypeOK ==
  /\ stored \subseteq Emails
  /\ row \in [Emails -> Row]
  /\ links \subseteq LinkIds
  /\ pages \subseteq LinkIds \X OptRisks
  /\ op \in [Requests -> AllOps]
  /\ target \in [Requests -> Emails \cup {NoEmail}]
  /\ txn \in [Requests -> TxnStates]
  /\ doomed \in [Requests -> SUBSET LinkIds]
  /\ pc \in [Requests -> {"none"} \cup Running \cup Ended]
  /\ mem \in [Requests -> Memory]
  /\ phase \in {"serving", "draining", "stopped"}

Init ==
  /\ stored = {}
  /\ row = [e \in Emails |-> QueuedRow]
  /\ links = {}
  /\ pages = {}
  /\ op = [q \in Requests |-> "submit"]
  /\ target = [q \in Requests |-> NoEmail]
  /\ txn = [q \in Requests |-> "idle"]
  /\ doomed = [q \in Requests |-> {}]
  /\ pc = [q \in Requests |-> "none"]
  /\ mem = [q \in Requests |-> NoMemory]
  /\ phase = "serving"

LinksOf(e) == {l \in links : target[l[1]] = e}
PagesOf(ls) == {p \in pages : p[1] \in ls}

Open(q) == txn[q] \in {"open", "unlinked", "written"}
Live(q) == pc[q] \in Running

\* A transaction other than the inserting one holds the lock on the row.
Locked(e) == /\ e \in stored
             /\ \E q \in Requests : /\ target[q] = e
                                    /\ txn[q] = "written"
                                    /\ op[q] # "submit"

\* A DELETE of the row is not committed yet: inserting a link waits for it.
BeingDeleted(e) == /\ e \in stored
                   /\ \E q \in Requests : /\ target[q] = e
                                          /\ txn[q] = "written"
                                          /\ op[q] = "delete"

\* A DELETE of the link is not committed yet.
LinkLocked(l) == \E q \in Requests : Open(q) /\ l \in doomed[q]

-----------------------------------------------------------------------------
(***************************************************************************)
(* Requests.                                                               *)
(***************************************************************************)

\* A client that waits: see Exclusive.
ClientMay(o, e) ==
  (Exclusive /\ o \in {"reanalyze", "delete"}) =>
    /\ row[e].status \in Terminal
    /\ \A q \in Requests :
         (target[q] = e /\ op[q] \in {"reanalyze", "delete"}) => ~Open(q)

\* submit: the row is inserted, not committed, and the task is spawned.
Submit(q, e) ==
  /\ phase = "serving" /\ "submit" \in Ops
  /\ txn[q] = "idle"
  /\ \A p \in Requests : target[p] # e
  /\ op' = [op EXCEPT ![q] = "submit"]
  /\ target' = [target EXCEPT ![q] = e]
  /\ txn' = [txn EXCEPT ![q] = "written"]
  /\ pc' = [pc EXCEPT ![q] = "waiting"]
  /\ UNCHANGED <<dbVars, doomed, mem, phase>>

\* reanalyze, apply_manual_review and delete_email start by reading the row.
\* A missing row is a 404; a running pipeline or another body than the stored
\* one is a 409 of reanalyze.  None of these changes anything.
Read(q, o, e) ==
  /\ phase = "serving" /\ o \in Ops /\ o # "submit"
  /\ txn[q] = "idle"
  /\ e \in stored
  /\ o = "reanalyze" => row[e].status # "running"
  /\ ClientMay(o, e)
  /\ op' = [op EXCEPT ![q] = o]
  /\ target' = [target EXCEPT ![q] = e]
  /\ txn' = [txn EXCEPT ![q] = "open"]
  /\ UNCHANGED <<dbVars, doomed, pc, mem, phase>>

\* reanalyze: delete_all_for_email.
ReanalyzeUnlink(q) ==
  /\ op[q] = "reanalyze" /\ txn[q] = "open"
  /\ \A l \in LinksOf(target[q]) : ~LinkLocked(l)
  /\ doomed' = [doomed EXCEPT ![q] = LinksOf(target[q])]
  /\ txn' = [txn EXCEPT ![q] = "unlinked"]
  /\ UNCHANGED <<dbVars, op, target, pc, mem, phase>>

\* reanalyze: the UPDATE that resets the row, then the task is spawned.  The
\* status is not read again.
ReanalyzeReset(q) ==
  /\ op[q] = "reanalyze" /\ txn[q] = "unlinked"
  /\ ~Locked(target[q])
  /\ txn' = [txn EXCEPT ![q] = "written"]
  /\ pc' = [pc EXCEPT ![q] = "waiting"]
  /\ UNCHANGED <<dbVars, op, target, doomed, mem, phase>>

\* apply_manual_review: the UPDATE; the SELECT after it raises if the row is
\* gone, and the transaction is rolled back.
ReviewUpdate(q) ==
  /\ op[q] = "review" /\ txn[q] = "open"
  /\ ~Locked(target[q])
  /\ txn' = [txn EXCEPT ![q] = IF target[q] \in stored THEN "written"
                                                       ELSE "aborted"]
  /\ UNCHANGED <<dbVars, op, target, doomed, pc, mem, phase>>

\* delete_email: the DELETE of the email and, by cascade, of its links.
DeleteRow(q) ==
  /\ op[q] = "delete" /\ txn[q] = "open"
  /\ ~Locked(target[q])
  /\ \A l \in LinksOf(target[q]) : ~LinkLocked(l)
  /\ doomed' = [doomed EXCEPT ![q] = LinksOf(target[q])]
  /\ txn' = [txn EXCEPT ![q] = "written"]
  /\ UNCHANGED <<dbVars, op, target, pc, mem, phase>>

\* Mutants: the links of the earlier run stay; their page analyses stay.
DropNothing(ls)   == UNCHANGED <<links, pages>>
DropLinksOnly(ls) == links' = links \ ls /\ UNCHANGED pages

\* Deleting link rows deletes their page analyses (ON DELETE CASCADE).
DropLinks(ls) ==
  /\ links' = links \ ls
  /\ pages' = pages \ PagesOf(ls)

\* The transaction ends, and its locks with it.
End(q, state) ==
  /\ txn' = [txn EXCEPT ![q] = state]
  /\ doomed' = [doomed EXCEPT ![q] = {}]
  /\ UNCHANGED <<op, target, pc, mem, phase>>

CommitSubmit(q) ==
  /\ op[q] = "submit" /\ txn[q] = "written"
  /\ End(q, "committed")
  /\ stored' = stored \cup {target[q]}
  /\ UNCHANGED <<row, links, pages>>

\* Mutants: the UPDATE of reanalyze misses a column, or resets one too many.
ResetButStatus(r) == [QueuedRow EXCEPT !.review = r.review, !.status = r.status]
ResetButError(r)  == [QueuedRow EXCEPT !.review = r.review, !.error = r.error]
ResetReview(r)    == QueuedRow

\* reanalyze resets every column a run writes; the review stays.
Reset(r) == [QueuedRow EXCEPT !.review = r.review]

CommitReanalyze(q) ==
  /\ op[q] = "reanalyze" /\ txn[q] = "written"
  /\ End(q, "committed")
  /\ row' = IF target[q] \in stored
            THEN [row EXCEPT ![target[q]] = Reset(@)]
            ELSE row
  /\ DropLinks(doomed[q])
  /\ UNCHANGED stored

CommitReview(q) ==
  /\ op[q] = "review" /\ txn[q] = "written"
  /\ End(q, "committed")
  /\ row' = [row EXCEPT ![target[q]].review = TRUE]
  /\ UNCHANGED <<stored, links, pages>>

CommitDelete(q) ==
  /\ op[q] = "delete" /\ txn[q] = "written"
  /\ End(q, "committed")
  /\ stored' = stored \ {target[q]}
  /\ row' = [row EXCEPT ![target[q]] = QueuedRow]
  /\ DropLinks(LinksOf(target[q]))

\* A statement, building the response or the commit fails: the session rolls
\* back, but a task that was spawned runs on.
Rollback(q) ==
  /\ "rollback" \in Faults
  /\ Open(q)
  /\ End(q, "aborted")
  /\ UNCHANGED dbVars

-----------------------------------------------------------------------------
(***************************************************************************)
(* Tasks (pipeline_runner.run).                                            *)
(***************************************************************************)
GoTo(q, label) == pc' = [pc EXCEPT ![q] = label]

\* The task ends and its memory is gone.
Finish(q, state) ==
  /\ GoTo(q, state)
  /\ mem' = [mem EXCEPT ![q] = NoMemory]

\* UPDATE emails ... WHERE id = e: no row, no effect.
Update(e, newRow) ==
  /\ ~Locked(e)
  /\ row' = IF e \in stored THEN [row EXCEPT ![e] = newRow] ELSE row

\* _wait_for_email: the task polls until the row can be seen ...
FindEmail(q) ==
  /\ pc[q] = "waiting" /\ target[q] \in stored
  /\ GoTo(q, "toClassify")
  /\ UNCHANGED <<dbVars, reqVars, mem, phase>>

\* ... and goes on without it after 20 polls, 1 s.
StopWaiting(q) ==
  /\ pc[q] = "waiting" /\ target[q] \notin stored
  /\ Open(q) => "late" \in Faults
  /\ GoTo(q, "toClassify")
  /\ UNCHANGED <<dbVars, reqVars, mem, phase>>

\* httpx bounds each read, and nothing bounds a whole answer.  A run without
\* links has no page to wait for, one without pages does not ask Gemini.
Stuck(q) ==
  /\ <<q, pc[q]>> \in Endless
  /\ pc[q] = "resolving" => mem[q].linkCount > 0
  /\ pc[q] = "analysing" => mem[q].scraped # {}

SetStage(q, from, stage, to) ==
  /\ pc[q] = from
  /\ Update(target[q], [row[target[q]] EXCEPT !.status = "running",
                                              !.stage = stage])
  /\ GoTo(q, to)
  /\ UNCHANGED <<stored, links, pages, reqVars, mem, phase>>

StartClassification(q) ==
  SetStage(q, "toClassify", "classification", "classifying")
StartLinkResolution(q) ==
  SetStage(q, "toResolve", "link_resolution", "resolving")
\* Mutant: the stage of the step before, copied.
StartPageAnalysisAsResolution(q) ==
  SetStage(q, "toAnalyse", "link_resolution", "analysing")
StartPageAnalysis(q) ==
  SetStage(q, "toAnalyse", "page_analysis", "analysing")
StartAggregation(q) ==
  SetStage(q, "toAggregate", "aggregation", "finalising")

EarlyExit(class, confidence) == class = "phishing" /\ confidence = "above"

\* Stage 1: the answer of Groq is stored; phishing with a high confidence
\* goes straight to the verdict.
Classify(q, answer) ==
  /\ pc[q] = "classifying" /\ ~Stuck(q)
  /\ Update(target[q], [row[target[q]] EXCEPT
                          !.class = answer.class,
                          !.confidence = answer.confidence,
                          !.linkCount = answer.linkCount])
  /\ mem' = [mem EXCEPT ![q].class = answer.class,
                        ![q].confidence = answer.confidence,
                        ![q].linkCount = answer.linkCount]
  /\ GoTo(q, IF EarlyExit(answer.class, answer.confidence) THEN "finalising"
                                                           ELSE "toResolve")
  /\ UNCHANGED <<stored, links, pages, reqVars, phase>>

\* Mutant: links counted from 0 as in the code, one too many.
NewLinksFromZero(q) == {q} \X (0 .. mem[q].linkCount)
NewLinks(q) == {q} \X (1 .. mem[q].linkCount)

\* Stage 2: one row per link, whether it was resolved or not.  Inserting a
\* link of an email that is gone violates the foreign key.
ResolveLinks(q, scraped) ==
  /\ pc[q] = "resolving" /\ ~Stuck(q)
  /\ scraped \subseteq 1 .. mem[q].linkCount
  /\ ~BeingDeleted(target[q])
  /\ IF NewLinks(q) = {} \/ target[q] \in stored
     THEN /\ links' = links \cup NewLinks(q)
          /\ mem' = [mem EXCEPT ![q].scraped = scraped]
          /\ GoTo(q, "toAnalyse")
     ELSE /\ GoTo(q, "failing")
          /\ UNCHANGED <<links, mem>>
  /\ UNCHANGED <<stored, row, pages, reqVars, phase>>

\* Mutant: pages the LLM did not answer for are not stored.
AnsweredPageRows(q, risk) ==
  {<<<<q, i>>, risk[i]>> : i \in {j \in mem[q].scraped : risk[j] # Null}}

\* One page analysis per scraped page, even if the LLM did not answer for it.
PageRows(q, risk) == {<<<<q, i>>, risk[i]>> : i \in mem[q].scraped}

\* Stage 3.  The links must still be there.
AnalysePages(q, risk) ==
  /\ pc[q] = "analysing" /\ ~Stuck(q)
  /\ LET analysed == {q} \X mem[q].scraped
     IN  /\ \A l \in analysed : ~LinkLocked(l)
         /\ IF analysed \subseteq links
            THEN /\ pages' = pages \cup PageRows(q, risk)
                 /\ mem' = [mem EXCEPT ![q].found =
                              {risk[i] : i \in mem[q].scraped}]
                 /\ GoTo(q, "toAggregate")
            ELSE /\ GoTo(q, "failing")
                 /\ UNCHANGED <<pages, mem>>
  /\ UNCHANGED <<stored, row, links, reqVars, phase>>

\* Stage 4: the verdict is computed from the task's memory and stored
\* together with the status.
StoreVerdict(q) ==
  /\ pc[q] = "finalising"
  /\ LET m       == mem[q]
         trigger == Trigger(m.class, m.linkCount, m.found,
                            EarlyExit(m.class, m.confidence))
     IN  Update(target[q],
                [row[target[q]] EXCEPT
                   !.finalClass = FinalClass(m.class, trigger),
                   !.trigger = trigger,
                   !.status = "complete",
                   !.stage = "done"])
  /\ Finish(q, "done")
  /\ UNCHANGED <<stored, links, pages, reqVars, phase>>

\* Any step of the run raises, but for one that waits for an endless answer:
\* gather waits for the page, too, whatever the other links have raised.
StageFails(q) ==
  /\ "stage" \in Faults
  /\ Live(q) /\ pc[q] # "failing" /\ ~Stuck(q)
  /\ (pc[q] = "waiting" /\ Open(q)) => "late" \in Faults
  /\ GoTo(q, "failing")
  /\ UNCHANGED <<dbVars, reqVars, mem, phase>>

\* Mutants: the error is stored alone; only running emails are marked.
NoteError(r)       == [r EXCEPT !.error = TRUE]
FailedIfRunning(r) ==
  IF r.status = "running" THEN [r EXCEPT !.status = "failed", !.error = TRUE]
                          ELSE r

\* The status becomes failed, whatever it was; the stage stays.
Failed(r) == [r EXCEPT !.status = "failed", !.error = TRUE]

MarkFailed(q) ==
  /\ pc[q] = "failing"
  /\ Update(target[q], Failed(row[target[q]]))
  /\ Finish(q, "failed")
  /\ UNCHANGED <<stored, links, pages, reqVars, phase>>

\* _mark_failed logs its own exception and returns.
MarkFailedRaises(q) ==
  /\ "mark" \in Faults
  /\ pc[q] = "failing"
  /\ Finish(q, "failed")
  /\ UNCHANGED <<dbVars, reqVars, phase>>

-----------------------------------------------------------------------------
(***************************************************************************)
(* Shutdown and restart.                                                   *)
(***************************************************************************)

CancelTasks ==
  /\ pc' = [q \in Requests |-> IF Live(q) THEN "cancelled" ELSE pc[q]]
  /\ mem' = [q \in Requests |-> NoMemory]

\* The server lets open requests end, then the lifespan drains the tasks.
BeginDrain ==
  /\ "shutdown" \in Faults
  /\ phase = "serving"
  /\ \A q \in Requests : ~Open(q)
  /\ phase' = "draining"
  /\ UNCHANGED <<dbVars, reqVars, pc, mem>>

Drained ==
  /\ phase = "draining"
  /\ \A q \in Requests : ~Live(q)
  /\ phase' = "stopped"
  /\ UNCHANGED <<dbVars, reqVars, pc, mem>>

\* 30 s have passed: wait_for cancels the tasks, and run re-raises.
DrainTimesOut ==
  /\ phase = "draining"
  /\ \E q \in Requests : Live(q)
  /\ CancelTasks
  /\ phase' = "stopped"
  /\ UNCHANGED <<dbVars, reqVars>>

\* The process dies: open transactions are rolled back by the database.
Kill ==
  /\ "kill" \in Faults
  /\ phase # "stopped"
  /\ CancelTasks
  /\ txn' = [q \in Requests |-> IF Open(q) THEN "aborted" ELSE txn[q]]
  /\ doomed' = [q \in Requests |-> {}]
  /\ phase' = "stopped"
  /\ UNCHANGED <<dbVars, op, target>>

\* Starting up does not look at the emails.
Start ==
  /\ phase = "stopped"
  /\ phase' = "serving"
  /\ UNCHANGED <<dbVars, reqVars, pc, mem>>

-----------------------------------------------------------------------------
Begin(q) == \E e \in Emails : \/ Submit(q, e)
                              \/ \E o \in AllOps : Read(q, o, e)

Statement(q) ==
  ReanalyzeUnlink(q) \/ ReanalyzeReset(q) \/ ReviewUpdate(q) \/ DeleteRow(q)

Commit(q) ==
  \/ CommitSubmit(q)
  \/ CommitReanalyze(q)
  \/ CommitReview(q)
  \/ CommitDelete(q)

Stage(q) ==
  \/ FindEmail(q)
  \/ StopWaiting(q)
  \/ StartClassification(q)
  \/ \E answer \in Answers : Classify(q, answer)
  \/ StartLinkResolution(q)
  \/ \E scraped \in SUBSET (1 .. MaxLinks) : ResolveLinks(q, scraped)
  \/ StartPageAnalysis(q)
  \/ \E risk \in [1 .. MaxLinks -> PageRisks] : AnalysePages(q, risk)
  \/ StartAggregation(q)
  \/ StoreVerdict(q)
  \/ MarkFailed(q)

Fault(q) ==
  Rollback(q) \/ StageFails(q) \/ MarkFailedRaises(q)

Process == BeginDrain \/ Drained \/ DrainTimesOut \/ Kill \/ Start

Next ==
  \/ \E q \in Requests : \/ Begin(q)
                         \/ Statement(q)
                         \/ Commit(q)
                         \/ Stage(q)
                         \/ Fault(q)
  \/ Process

Spec == Init /\ [][Next]_vars

\* The event loop runs every ready coroutine, a statement gets its lock once
\* the holder has ended, and a call that is not in Endless is answered or timed
\* out (a stage of a task that is stuck is not enabled).  Clients need not make
\* requests, and nothing has to fail.
Fairness == \A q \in Requests : /\ WF_vars(Statement(q))
                                /\ WF_vars(Commit(q))
                                /\ WF_vars(Stage(q))

FairSpec == Spec /\ Fairness

-----------------------------------------------------------------------------
(***************************************************************************)
(* Properties.                                                             *)
(***************************************************************************)

\* A complete email has a verdict, and its stage is done, however many tasks
\* and requests work on it: the verdict and the status are stored by one
\* transaction and reset by one UPDATE.
CompleteHasVerdict ==
  \A e \in stored : row[e].status = "complete" =>
    /\ row[e].finalClass # Null
    /\ row[e].trigger # Null
    /\ row[e].stage = "done"

\* An email that is not finished has a task that is still at work on it.
\* (Without shutdowns, kills, late commits and failures of _mark_failed.)
NothingStranded ==
  \A e \in stored : row[e].status \notin Terminal =>
    \E q \in Requests : target[q] = e /\ Live(q)

\* A link row belongs to a stored email and a page analysis to a stored link.
NoOrphanRows ==
  /\ \A l \in links : target[l[1]] \in stored
  /\ \A p \in pages : p[1] \in links

\* The verdict of a complete email is the one the aggregation rules give for
\* what the database holds about it: the classification stored in its row and
\* the page analyses stored under its links.  (Clients wait, submit commits in
\* time and no request fails after its statements.)
VerdictMatchesEvidence ==
  \A e \in stored : row[e].status = "complete" =>
    LET r     == row[e]
        found == {p[2] : p \in PagesOf(LinksOf(e))}
    IN  /\ r.trigger = Trigger(r.class, r.linkCount, found,
                               EarlyExit(r.class, r.confidence))
        /\ r.finalClass = FinalClass(r.class, r.trigger)

\* A complete email has a link row for each link stage 1 counted, or none
\* after an early exit; nothing of an earlier run is left.  (As above.)
LinksMatchCount ==
  \A e \in stored : row[e].status = "complete" =>
    Cardinality(LinksOf(e)) =
      IF row[e].trigger = "early_exit" THEN 0 ELSE row[e].linkCount

\* The columns agree with the status: a verdict iff complete, an error iff
\* failed.  (As above.)
ColumnsMatchStatus ==
  \A e \in stored : /\ row[e].finalClass # Null <=> row[e].status = "complete"
                    /\ row[e].error <=> row[e].status = "failed"

\* A manual review is lost neither to the tasks that write the same row nor
\* to a re-queue.
ReviewSurvives ==
  [][\A e \in stored \cap stored' : row[e].review => row'[e].review]_vars

Unfinished(e) == e \in stored /\ row[e].status \notin Terminal

\* Every task of the email waits for an answer that never stops coming.
HeldUp(e) ==
  LET tasks == {q \in Requests : target[q] = e /\ Live(q)}
  IN  tasks # {} /\ \A q \in tasks : Stuck(q)

\* Every email that is stored is finished some day, or deleted, whatever
\* requests and runs overlap and whatever stage fails; nothing but endless
\* answers to all of its runs can hold it up.
EmailsSettle ==
  \A e \in Emails : Unfinished(e) ~> (~Unfinished(e) \/ HeldUp(e))

\* README: the drain on shutdown lets in-flight work finish cleanly.
DrainFinishesWork ==
  phase = "stopped" => \A e \in stored : row[e].status \in Terminal
=============================================================================
