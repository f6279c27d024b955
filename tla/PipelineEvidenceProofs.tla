----------------------- MODULE PipelineEvidenceProofs -----------------------
(***************************************************************************)
(* What the database holds about an email agrees with its status, for      *)
(* every set of emails and requests: the verdict is the one its evidence   *)
(* asks for, its links are those of the run that is shown, and the columns *)
(* of a run are set and reset together.                                    *)
(*                                                                         *)
(* The argument: while clients wait, at most one task writes to an email,  *)
(* so that the row, the links and the page analyses of the email are a     *)
(* function of where this task is and of what it remembers.                *)
(*                                                                         *)
(* At the end, what the rules of stage 4 make of any number of pages.      *)
(***************************************************************************)
EXTENDS InferencePipelineProofs, FiniteSetTheorems, FunctionTheorems

\* Clients wait for a terminal status, no request fails after its statements
\* and every submit commits within the 20 polls of its task.
ClientsWait == /\ Exclusive = TRUE
               /\ Faults \cap {"rollback", "late"} = {}

-----------------------------------------------------------------------------
(***************************************************************************)
(* The inductive invariant.                                                *)
(***************************************************************************)

\* A re-queue or a deletion that is under way.
Requeuing(q) == op[q] \in {"reanalyze", "delete"} /\ Open(q)

\* It is about a finished email; no task and no other such request is ...
RequeuesAreAlone ==
  \A q \in Requests : Requeuing(q) =>
    /\ target[q] \in stored
    /\ row[target[q]].status \in Terminal
    /\ \A p \in Requests : (p # q /\ target[p] = target[q]) =>
         ~Requeuing(p) /\ ~Live(p)

\* ... and a re-queue deletes every link of the earlier run.
RequeuesDropAll ==
  \A q \in Requests :
    (op[q] = "reanalyze" /\ txn[q] \in {"unlinked", "written"}) =>
      doomed[q] = LinksOf(target[q])

\* A task whose request has not committed stands by ...
TasksStandBy ==
  \A q \in Requests : (Live(q) /\ Open(q)) =>
    /\ pc[q] \in {"waiting", "toClassify", "failing"}
    /\ op[q] = "submit" => pc[q] = "waiting"

\* ... and before stage 1 has answered a task knows nothing.
FreshMemory ==
  \A q \in Requests :
    pc[q] \in {"none", "waiting", "toClassify", "classifying"} =>
      mem[q] = NoMemory

OneTaskPerEmail ==
  \A p, q \in Requests :
    (Live(p) /\ Live(q) /\ target[p] = target[q]) => p = q

\* Nobody writes to an id before its submit has committed.
NewRowsQueued ==
  \A e \in Emails :
    (\A q \in Requests :
       target[q] = e => (op[q] = "submit" /\ txn[q] = "written"))
      => row[e] = QueuedRow

\* The evidence: the risk levels stored under the links of an email.
Found(e) == {p[2] : p \in PagesOf(LinksOf(e))}

Early(q) == EarlyExit(mem[q].class, mem[q].confidence)

\* The status and the stage a task shows at each step.
Shown(q) ==
  IF pc[q] \in {"waiting", "toClassify"} THEN <<"pending", "queued">>
  ELSE IF pc[q] \in {"classifying", "toResolve"}
  THEN <<"running", "classification">>
  ELSE IF pc[q] \in {"resolving", "toAnalyse"}
  THEN <<"running", "link_resolution">>
  ELSE IF pc[q] \in {"analysing", "toAggregate"}
  THEN <<"running", "page_analysis">>
  ELSE <<"running", IF Early(q) THEN "classification" ELSE "aggregation">>

\* Steps at which a task knows the answer of stage 1; at which the links of
\* its email have been inserted, but for an early exit.
Knowing == {"toResolve", "resolving", "toAnalyse", "analysing",
            "toAggregate", "finalising"}
Linked  == {"toAnalyse", "analysing", "toAggregate", "finalising"}

\* The row of a running email is what its task has stored so far ...
TaskRow(q) ==
  LET r == row[target[q]]
  IN  /\ target[q] \in stored
      /\ r.status \in {"pending", "running"}
      /\ pc[q] # "failing" => <<r.status, r.stage>> = Shown(q)
      /\ pc[q] \in Knowing => /\ r.class = mem[q].class
                              /\ r.confidence = mem[q].confidence
                              /\ r.linkCount = mem[q].linkCount
                              /\ Early(q) => pc[q] = "finalising"

\* ... and so are its links and page analyses.
TaskLinks(q) ==
  pc[q] # "failing" =>
    /\ LinksOf(target[q]) =
         IF pc[q] \in Linked /\ ~Early(q) THEN NewLinks(q) ELSE {}
    /\ Found(target[q]) = mem[q].found
    /\ pc[q] \in {"toAggregate", "finalising"} \/ mem[q].found = {}
    /\ mem[q].scraped \subseteq 1 .. mem[q].linkCount

TasksShow ==
  \A q \in Requests : (Live(q) /\ ~Open(q)) => TaskRow(q) /\ TaskLinks(q)

\* The columns, the links and the page analyses of one email fit its status.
Fits(e) ==
  LET r == row[e]
  IN  /\ r.status = "pending" => r.stage = "queued"
      /\ r.status = "running" => r.stage \notin {"queued", "done"}
      /\ r.status = "failed" => r.stage # "done"
      /\ r.status = "complete" =>
           /\ r.stage = "done"
           /\ r.trigger = Trigger(r.class, r.linkCount, Found(e),
                                  EarlyExit(r.class, r.confidence))
           /\ r.finalClass = FinalClass(r.class, r.trigger)
           /\ Cardinality(LinksOf(e)) =
                IF r.trigger = "early_exit" THEN 0 ELSE r.linkCount
      /\ r.finalClass # Null <=> r.status = "complete"
      /\ r.error <=> r.status = "failed"

EmailsFit == \A e \in stored : Fits(e)

\* What is proved in InferencePipelineProofs, step by step ...
Basis == /\ TypeOK
         /\ RequestsMatchTasks
         /\ NoOrphanRows
         /\ TasksKnowClass

\* ... and what is added to it.
Agreement == /\ StoredWereSubmitted
             /\ SubmitsAreNew
             /\ RequeuesAreAlone
             /\ RequeuesDropAll
             /\ TasksStandBy
             /\ FreshMemory
             /\ OneTaskPerEmail
             /\ NewRowsQueued
             /\ TasksShow
             /\ EmailsFit

EvidenceInv == Basis /\ Agreement

-----------------------------------------------------------------------------
(***************************************************************************)
(* What a step leaves alone.                                               *)
(***************************************************************************)

\* A step that changes nothing of what is stored about e.
SameRecord(e) == /\ row'[e] = row[e]
                 /\ LinksOf(e)' = LinksOf(e)
                 /\ Found(e)' = Found(e)

\* An email whose record does not change still fits.
LEMMA RecordFits ==
  ASSUME NEW e, SameRecord(e), Fits(e)
  PROVE  Fits(e)'
  BY DEF SameRecord, Fits

\* A task that does not move, with an email whose record does not change,
\* still shows where it is.
LEMMA RecordShows ==
  ASSUME NEW q, NEW e, target[q] = e, target'[q] = e, SameRecord(e),
         pc'[q] = pc[q], mem'[q] = mem[q], e \in stored => e \in stored',
         TaskRow(q), TaskLinks(q)
  PROVE  TaskRow(q)' /\ TaskLinks(q)'
<1>1. /\ LinksOf(target[q]) = LinksOf(e) /\ Found(target[q]) = Found(e)
      /\ LinksOf(target[q])' = LinksOf(e)' /\ Found(target[q])' = Found(e)'
  BY DEF LinksOf, Found
<1>2. /\ Early(q)' = Early(q) /\ NewLinks(q)' = NewLinks(q)
      /\ Shown(q)' = Shown(q)
  BY DEF Early, NewLinks, Shown
<1>3. TaskRow(q)'
  BY <1>2 DEF TaskRow, SameRecord
<1>4. TaskLinks(q)'
  BY <1>1, <1>2 DEF TaskLinks, SameRecord
<1>5. QED
  BY <1>3, <1>4

\* The records as long as links, page analyses and targets stay.
LEMMA SameLinks ==
  ASSUME UNCHANGED <<links, pages, target>>, NEW e
  PROVE  LinksOf(e)' = LinksOf(e) /\ Found(e)' = Found(e)
  BY DEF LinksOf, Found, PagesOf

LEMMA BasisNext == Basis /\ [Next]_vars => Basis'
  BY TypeNext, RequestsNext, OrphansNext, TasksKnowNext DEF Basis

-----------------------------------------------------------------------------
(***************************************************************************)
(* Requests until they commit: the tables do not change.                   *)
(***************************************************************************)

\* A request is not the owner of a link before it is made.
LEMMA BeginRecord ==
  ASSUME Basis, NEW q \in Requests, Begin(q), NEW e
  PROVE  SameRecord(e)
<1>1. /\ UNCHANGED dbVars
      /\ target[q] = NoEmail
      /\ \A p \in Requests \ {q} : target'[p] = target[p]
      /\ target'[q] \in Emails
  BY DEF Begin, Submit, Read, Basis, TypeOK, RequestsMatchTasks
<1>2. ASSUME NEW l \in links
      PROVE  target'[l[1]] = target[l[1]]
  <2>1. l[1] \in Requests
    BY DEF Basis, TypeOK, LinkIds
  <2>2. target[l[1]] \in Emails
    BY DEF Basis, NoOrphanRows, TypeOK
  <2>3. QED
    BY <1>1, <2>1, <2>2, EmailAssumption
<1>3. LinksOf(e)' = LinksOf(e)
  BY <1>1, <1>2 DEF LinksOf, dbVars
<1>4. Found(e)' = Found(e)
  BY <1>1, <1>3 DEF Found, PagesOf, dbVars
<1>5. QED
  BY <1>1, <1>3, <1>4 DEF SameRecord, dbVars

\* What the steps of a request before its commit have in common.
RequestStep(q) ==
  /\ UNCHANGED <<stored, row, links, pages, mem>>
  /\ \A e : SameRecord(e)
  /\ \A p \in Requests \ {q} :
       /\ op'[p] = op[p] /\ target'[p] = target[p] /\ txn'[p] = txn[p]
       /\ doomed'[p] = doomed[p] /\ pc'[p] = pc[p]
  /\ target[q] \in {NoEmail, target'[q]}
  /\ target[q] = NoEmail \/ txn'[q] # "written" \/ op'[q] # "submit"
  /\ pc[q] = "none"
  /\ pc'[q] \in {"none", "waiting"}
  /\ Open(q)' \/ pc'[q] = "none"

LEMMA RequestFrame ==
  ASSUME EvidenceInv, NEW q \in Requests, RequestStep(q),
         NEW p \in Requests, p # q
  PROVE  /\ Open(p)' = Open(p)
         /\ Live(p)' = Live(p)
         /\ Requeuing(p)' = Requeuing(p)
         /\ LinksOf(target[p])' = LinksOf(target[p])
<1>1. Open(p)' = Open(p) /\ Live(p)' = Live(p) /\ Requeuing(p)' = Requeuing(p)
  BY DEF RequestStep, Open, Live, Requeuing
<1>2. PICK e : e = target[p]
  OBVIOUS
<1>3. LinksOf(e)' = LinksOf(e) /\ target'[p] = e
  BY <1>2 DEF RequestStep, SameRecord
<1>4. LinksOf(target[p])' = LinksOf(e)'
  BY <1>2, <1>3 DEF LinksOf
<1>5. QED
  BY <1>1, <1>2, <1>3, <1>4

LEMMA RequestStepAgrees ==
  ASSUME EvidenceInv, NEW q \in Requests, RequestStep(q)
  PROVE  /\ StoredWereSubmitted'
         /\ FreshMemory'
         /\ NewRowsQueued'
         /\ TasksShow'
         /\ EmailsFit'
<1>1. StoredWereSubmitted'
  BY EmailAssumption
    DEF EvidenceInv, Agreement, Basis, TypeOK, StoredWereSubmitted, RequestStep
<1>2. FreshMemory'
  BY DEF EvidenceInv, Agreement, FreshMemory, RequestStep
<1>3. NewRowsQueued'
  <2> SUFFICES ASSUME NEW e \in Emails,
                      \A p \in Requests : target'[p] = e =>
                        (op'[p] = "submit" /\ txn'[p] = "written")
               PROVE  row'[e] = QueuedRow
    BY DEF NewRowsQueued
  <2>1. target[q] # e
    BY EmailAssumption DEF RequestStep
  <2>2. \A p \in Requests : target[p] = e =>
                        (op[p] = "submit" /\ txn[p] = "written")
    BY <2>1 DEF RequestStep
  <2>3. QED
    BY <2>2 DEF EvidenceInv, Agreement, NewRowsQueued, RequestStep
<1>4. TasksShow'
  <2> SUFFICES ASSUME NEW p \in Requests, Live(p)', ~Open(p)'
               PROVE  TaskRow(p)' /\ TaskLinks(p)'
    BY DEF TasksShow
  <2>1. p # q
    BY DEF RequestStep, Live, Running
  <2>2. TaskRow(p) /\ TaskLinks(p)
    BY <2>1, RequestFrame DEF EvidenceInv, Agreement, TasksShow
  <2>3. PICK e : e = target[p]
    OBVIOUS
  <2>4. /\ target'[p] = e /\ pc'[p] = pc[p] /\ mem'[p] = mem[p]
        /\ SameRecord(e) /\ stored' = stored
    BY <2>1, <2>3 DEF RequestStep
  <2>5. QED
    BY <2>2, <2>3, <2>4, RecordShows
<1>5. EmailsFit'
  BY RecordFits DEF EvidenceInv, Agreement, EmailsFit, RequestStep
<1>6. QED
  BY <1>1, <1>2, <1>3, <1>4, <1>5

LEMMA SubmitAgrees ==
  ASSUME EvidenceInv, NEW q \in Requests, NEW e \in Emails, Submit(q, e)
  PROVE  Agreement'
<1>1. /\ UNCHANGED <<stored, row, links, pages, doomed, mem>>
      /\ \A p \in Requests : target[p] # e
      /\ op'[q] = "submit" /\ target'[q] = e /\ txn'[q] = "written"
      /\ pc'[q] = "waiting" /\ pc[q] = "none" /\ target[q] = NoEmail
      /\ \A p \in Requests \ {q} :
            /\ op'[p] = op[p] /\ target'[p] = target[p]
            /\ txn'[p] = txn[p] /\ pc'[p] = pc[p]
  BY DEF Submit, dbVars, EvidenceInv, Basis, TypeOK, RequestsMatchTasks
<1>2. \A d : SameRecord(d)
  BY BeginRecord DEF Begin, EvidenceInv
<1>3. Open(q)' /\ ~Requeuing(q)'
  BY <1>1 DEF Open, Requeuing
<1>4. RequestStep(q)
  BY <1>1, <1>2, <1>3 DEF RequestStep
<1>5. \A p \in Requests \ {q} : /\ Open(p)' = Open(p) /\ Live(p)' = Live(p)
                               /\ Requeuing(p)' = Requeuing(p)
                               /\ LinksOf(target[p])' = LinksOf(target[p])
  BY <1>4, RequestFrame
<1>6. e \notin stored
  BY <1>1 DEF EvidenceInv, Agreement, StoredWereSubmitted
<1>7. SubmitsAreNew'
  BY <1>1, <1>6 DEF EvidenceInv, Agreement, SubmitsAreNew
<1>8. RequeuesAreAlone'
  BY <1>1, <1>3, <1>5 DEF EvidenceInv, Agreement, RequeuesAreAlone
<1>9. RequeuesDropAll'
  BY <1>1, <1>5 DEF EvidenceInv, Agreement, RequeuesDropAll
<1>10. TasksStandBy'
  BY <1>1, <1>5 DEF EvidenceInv, Agreement, TasksStandBy
<1>11. OneTaskPerEmail'
  BY <1>1, <1>5 DEF EvidenceInv, Agreement, OneTaskPerEmail
<1>12. QED
  BY <1>4, <1>7, <1>8, <1>9, <1>10, <1>11, RequestStepAgrees DEF Agreement

\* A finished email has no task, unless it is being re-queued.
LEMMA FinishedIsQuiet ==
  ASSUME EvidenceInv, NEW e \in stored, row[e].status \in Terminal,
         \A p \in Requests : target[p] = e => ~Requeuing(p)
  PROVE  \A p \in Requests : target[p] = e => ~Live(p)
<1> SUFFICES ASSUME NEW p \in Requests, target[p] = e, Live(p)
             PROVE  FALSE
  OBVIOUS
<1>1. pc[p] \in Running
  BY DEF Live
<1>2. op[p] \notin {"review", "delete"}
  BY <1>1 DEF EvidenceInv, Basis, RequestsMatchTasks, Running
<1>3. CASE Open(p)
  <2>1. txn[p] = "written"
    BY <1>1, <1>3 DEF EvidenceInv, Basis, RequestsMatchTasks, Running, Open
  <2>2. op[p] # "submit"
    BY <2>1 DEF EvidenceInv, Agreement, SubmitsAreNew
  <2>3. QED
    BY <1>2, <1>3, <2>2 DEF EvidenceInv, Basis, TypeOK, AllOps, Requeuing
<1>4. CASE ~Open(p)
  BY <1>4 DEF EvidenceInv, Agreement, TasksShow, TaskRow, Terminal
<1>5. QED
  BY <1>3, <1>4

LEMMA ReadAgrees ==
  ASSUME ClientsWait, EvidenceInv, NEW q \in Requests, NEW o \in AllOps,
         NEW e \in Emails, Read(q, o, e)
  PROVE  Agreement'
<1>1. /\ UNCHANGED <<stored, row, links, pages, doomed, mem, pc>>
      /\ e \in stored /\ o # "submit"
      /\ op'[q] = o /\ target'[q] = e /\ txn'[q] = "open"
      /\ pc[q] = "none" /\ target[q] = NoEmail
      /\ \A p \in Requests \ {q} :
            /\ op'[p] = op[p] /\ target'[p] = target[p] /\ txn'[p] = txn[p]
  BY DEF Read, dbVars, EvidenceInv, Basis, TypeOK, RequestsMatchTasks
<1>2. \A d : SameRecord(d)
  BY BeginRecord DEF Begin, EvidenceInv
<1>3. Open(q)' /\ ~Live(q)'
  BY <1>1 DEF Open, Live, Running
<1>4. RequestStep(q)
  BY <1>1, <1>2, <1>3 DEF RequestStep
<1>5. \A p \in Requests \ {q} : /\ Open(p)' = Open(p) /\ Live(p)' = Live(p)
                               /\ Requeuing(p)' = Requeuing(p)
                               /\ LinksOf(target[p])' = LinksOf(target[p])
  BY <1>4, RequestFrame
<1>6. o \in {"reanalyze", "delete"} =>
        /\ row[e].status \in Terminal
        /\ \A p \in Requests : target[p] = e => ~Requeuing(p)
  BY DEF ClientsWait, Read, ClientMay, Requeuing
<1>7. o \in {"reanalyze", "delete"} =>
        \A p \in Requests : target[p] = e => ~Live(p)
  BY <1>1, <1>6, FinishedIsQuiet
<1>8. Requeuing(q)' <=> o \in {"reanalyze", "delete"}
  BY <1>1, <1>3 DEF Requeuing
<1>9. SubmitsAreNew'
  BY <1>1 DEF EvidenceInv, Agreement, SubmitsAreNew
<1>10. RequeuesAreAlone'
  BY <1>1, <1>3, <1>5, <1>6, <1>7, <1>8
    DEF EvidenceInv, Agreement, RequeuesAreAlone
<1>11. RequeuesDropAll'
  BY <1>1, <1>5 DEF EvidenceInv, Agreement, RequeuesDropAll
<1>12. TasksStandBy'
  BY <1>1, <1>3, <1>5 DEF EvidenceInv, Agreement, TasksStandBy
<1>13. OneTaskPerEmail'
  BY <1>1, <1>3, <1>5 DEF EvidenceInv, Agreement, OneTaskPerEmail
<1>14. QED
  BY <1>4, <1>9, <1>10, <1>11, <1>12, <1>13, RequestStepAgrees DEF Agreement

LEMMA StatementAgrees ==
  ASSUME EvidenceInv, NEW q \in Requests, Statement(q)
  PROVE  Agreement'
<1> DEFINE Changed == /\ UNCHANGED <<stored, row, links, pages, mem, op, target>>
                      /\ \A p \in Requests \ {q} :
                           /\ txn'[p] = txn[p] /\ doomed'[p] = doomed[p]
                           /\ pc'[p] = pc[p]
<1>1. /\ Changed
      /\ pc[q] = "none" /\ pc'[q] \in {"none", "waiting"}
      /\ op[q] # "submit" /\ Open(q)
      /\ pc'[q] = "waiting" => op[q] = "reanalyze" /\ txn'[q] = "written"
      /\ Open(q)' \/ (op[q] = "review" /\ pc'[q] = "none")
      /\ op[q] = "reanalyze" =>
           doomed'[q] = IF txn[q] = "open" THEN LinksOf(target[q])
                                           ELSE doomed[q]
      /\ op[q] = "reanalyze" => txn[q] \in {"open", "unlinked"}
  <2> USE DEF EvidenceInv, Basis, TypeOK, RequestsMatchTasks, dbVars, Open
  <2>1. CASE ReanalyzeUnlink(q)
    BY <2>1 DEF ReanalyzeUnlink
  <2>2. CASE ReanalyzeReset(q)
    BY <2>2 DEF ReanalyzeReset
  <2>3. CASE ReviewUpdate(q)
    BY <2>3 DEF ReviewUpdate
  <2>4. CASE DeleteRow(q)
    BY <2>4 DEF DeleteRow
  <2>5. QED
    BY <2>1, <2>2, <2>3, <2>4 DEF Statement
<1>2. \A d : SameRecord(d)
  BY <1>1, SameLinks DEF SameRecord
<1>3. /\ Requeuing(q)' = Requeuing(q)
      /\ Live(q)' => Requeuing(q)
      /\ ~Live(q)
      /\ Live(q)' => pc'[q] = "waiting" /\ Open(q)'
  BY <1>1 DEF Requeuing, Live, Running
<1>4. RequestStep(q)
  BY <1>1, <1>2 DEF RequestStep
<1>5. \A p \in Requests \ {q} : /\ Open(p)' = Open(p) /\ Live(p)' = Live(p)
                               /\ Requeuing(p)' = Requeuing(p)
                               /\ LinksOf(target[p])' = LinksOf(target[p])
  BY <1>4, RequestFrame
<1>6. SubmitsAreNew'
  BY <1>1 DEF EvidenceInv, Agreement, SubmitsAreNew
<1>7. RequeuesAreAlone'
  <2> SUFFICES ASSUME NEW p \in Requests, Requeuing(p)'
               PROVE  /\ target[p] \in stored
                      /\ row[target[p]].status \in Terminal
                      /\ \A r \in Requests : (r # p /\ target[r] = target[p]) =>
                           ~Requeuing(r)' /\ ~Live(r)'
    BY <1>1 DEF RequeuesAreAlone
  <2>1. Requeuing(p)
    BY <1>3, <1>5
  <2>2. QED
    BY <1>3, <1>5, <2>1 DEF EvidenceInv, Agreement, RequeuesAreAlone
<1>8. RequeuesDropAll'
  <2>1. LinksOf(target[q])' = LinksOf(target[q])
    BY <1>1 DEF LinksOf
  <2>2. QED
    BY <1>1, <1>5, <2>1 DEF EvidenceInv, Agreement, RequeuesDropAll
<1>9. TasksStandBy'
  BY <1>1, <1>3, <1>5 DEF EvidenceInv, Agreement, TasksStandBy
<1>10. OneTaskPerEmail'
  BY <1>1, <1>3, <1>5
    DEF EvidenceInv, Agreement, OneTaskPerEmail, RequeuesAreAlone
<1>11. QED
  BY <1>4, <1>6, <1>7, <1>8, <1>9, <1>10, RequestStepAgrees DEF Agreement

-----------------------------------------------------------------------------
(***************************************************************************)
(* Tasks.                                                                  *)
(***************************************************************************)
TaskStep(q) == Stage(q) \/ StageFails(q) \/ MarkFailedRaises(q)

\* What the steps of a task have in common; e is its email.
TaskEffect(q, e) ==
  /\ UNCHANGED <<stored, op, target, txn, doomed>>
  /\ Live(q)
  /\ \A p \in Requests \ {q} : pc'[p] = pc[p] /\ mem'[p] = mem[p]
  /\ \A d \in Emails : d # e \/ Open(q) => SameRecord(d)
  /\ pc'[q] \in {"none", "waiting", "toClassify", "classifying"} =>
       mem'[q] = NoMemory
  /\ Open(q) => /\ op[q] # "submit"
                /\ pc'[q] \in {"toClassify", "failing", "failed"}
  /\ ~Open(q) => /\ Fits(e)'
                 /\ Live(q)' => TaskRow(q)' /\ TaskLinks(q)'

LEMMA TaskEffectAgrees ==
  ASSUME EvidenceInv, NEW q \in Requests, NEW e \in Emails, target[q] = e,
         TaskEffect(q, e)
  PROVE  Agreement'
<1>1. \A p \in Requests : /\ Open(p)' = Open(p)
                          /\ Requeuing(p)' = Requeuing(p)
                          /\ Live(p)' => Live(p)
                          /\ p # q => Live(p)' = Live(p)
  BY DEF TaskEffect, Open, Requeuing, Live
<1>2. ASSUME NEW p \in Requests, Requeuing(p)
      PROVE  /\ target[p] \in stored /\ target[p] \in Emails
             /\ row'[target[p]] = row[target[p]]
             /\ LinksOf(target[p])' = LinksOf(target[p])
  <2>1. target[p] \in stored /\ target[p] \in Emails
    BY <1>2 DEF EvidenceInv, Basis, TypeOK, Agreement, RequeuesAreAlone
  <2>2. target[p] # e \/ Open(q)
    BY <1>2 DEF EvidenceInv, Agreement, RequeuesAreAlone, TaskEffect, Requeuing
  <2>3. PICK d \in Emails : d = target[p]
    BY <2>1
  <2>4. SameRecord(d)
    BY <2>2, <2>3 DEF TaskEffect
  <2>5. LinksOf(target[p])' = LinksOf(d)'
    BY <2>3 DEF LinksOf, TaskEffect
  <2>6. QED
    BY <2>1, <2>3, <2>4, <2>5 DEF SameRecord
<1>3. StoredWereSubmitted' /\ SubmitsAreNew'
  BY DEF EvidenceInv, Agreement, StoredWereSubmitted, SubmitsAreNew, TaskEffect
<1>4. RequeuesAreAlone'
  <2> SUFFICES ASSUME NEW p \in Requests, Requeuing(p)'
               PROVE  /\ target[p] \in stored
                      /\ row'[target[p]].status \in Terminal
                      /\ \A r \in Requests : (r # p /\ target[r] = target[p]) =>
                           ~Requeuing(r)' /\ ~Live(r)'
    BY DEF RequeuesAreAlone, TaskEffect
  <2>1. Requeuing(p)
    BY <1>1
  <2>2. QED
    BY <1>1, <1>2, <2>1 DEF EvidenceInv, Agreement, RequeuesAreAlone
<1>5. RequeuesDropAll'
  <2> SUFFICES ASSUME NEW p \in Requests, op[p] = "reanalyze",
                      txn[p] \in {"unlinked", "written"}
               PROVE  doomed[p] = LinksOf(target[p])'
    BY DEF RequeuesDropAll, TaskEffect
  <2>1. Requeuing(p)
    BY DEF Requeuing, Open
  <2>2. QED
    BY <1>2, <2>1 DEF EvidenceInv, Agreement, RequeuesDropAll
<1>6. TasksStandBy'
  BY <1>1 DEF EvidenceInv, Agreement, TasksStandBy, TaskEffect, Live, Running
<1>7. FreshMemory'
  BY DEF EvidenceInv, Agreement, FreshMemory, TaskEffect
<1>8. OneTaskPerEmail'
  BY <1>1 DEF EvidenceInv, Agreement, OneTaskPerEmail, TaskEffect
<1>9. NewRowsQueued'
  <2> SUFFICES ASSUME NEW d \in Emails,
                      \A p \in Requests : target[p] = d =>
                        (op[p] = "submit" /\ txn[p] = "written")
               PROVE  row'[d] = QueuedRow
    BY DEF NewRowsQueued, TaskEffect
  <2>1. row[d] = QueuedRow
    BY DEF EvidenceInv, Agreement, NewRowsQueued
  <2>2. d # e \/ Open(q)
    BY DEF Open
  <2>3. QED
    BY <2>1, <2>2 DEF TaskEffect, SameRecord
<1>10. TasksShow'
  <2> SUFFICES ASSUME NEW p \in Requests, Live(p)', ~Open(p)'
               PROVE  TaskRow(p)' /\ TaskLinks(p)'
    BY DEF TasksShow
  <2>1. CASE p = q
    BY <1>1, <2>1 DEF TaskEffect
  <2>2. CASE p # q
    <3>1. Live(p) /\ ~Open(p)
      BY <1>1, <2>2
    <3>2. TaskRow(p) /\ TaskLinks(p)
      BY <3>1 DEF EvidenceInv, Agreement, TasksShow
    <3>3. PICK d \in Emails : d = target[p]
      BY <3>2 DEF TaskRow, EvidenceInv, Basis, TypeOK
    <3>4. d # e
      BY <2>2, <3>1, <3>3 DEF TaskEffect, EvidenceInv, Agreement, OneTaskPerEmail
    <3>5. /\ target'[p] = d /\ pc'[p] = pc[p] /\ mem'[p] = mem[p]
          /\ SameRecord(d) /\ stored' = stored
      BY <2>2, <3>3, <3>4 DEF TaskEffect
    <3>6. QED
      BY <3>2, <3>3, <3>5, RecordShows
  <2>3. QED
    BY <2>1, <2>2
<1>11. EmailsFit'
  <2> SUFFICES ASSUME NEW d \in stored
               PROVE  Fits(d)'
    BY DEF EmailsFit, TaskEffect
  <2>1. d \in Emails /\ Fits(d)
    BY DEF EvidenceInv, Basis, TypeOK, Agreement, EmailsFit
  <2>2. CASE d = e /\ ~Open(q)
    BY <2>2 DEF TaskEffect
  <2>3. CASE d # e \/ Open(q)
    BY <2>1, <2>3, RecordFits DEF TaskEffect
  <2>4. QED
    BY <2>2, <2>3
<1>12. QED
  BY <1>3, <1>4, <1>5, <1>6, <1>7, <1>8, <1>9, <1>10, <1>11 DEF Agreement

\* While its request is open a task can neither write nor go far.
LEMMA StandByEffect ==
  ASSUME ClientsWait, EvidenceInv, NEW q \in Requests, NEW e \in Emails,
         target[q] = e, Open(q), TaskStep(q)
  PROVE  TaskEffect(q, e)
<1>1. /\ pc[q] \in {"waiting", "toClassify", "failing"} /\ Live(q)
      /\ op[q] = "submit" => pc[q] = "waiting"
  BY TaskFrame DEF TaskStep, Live, EvidenceInv, Agreement, TasksStandBy
<1>2. txn[q] = "written" /\ op[q] \in {"submit", "reanalyze"}
  BY <1>1 DEF Live, Running, Open, EvidenceInv, Basis, RequestsMatchTasks,
    TypeOK, AllOps
<1>3. op[q] = "submit" => e \notin stored
  BY <1>2 DEF EvidenceInv, Agreement, SubmitsAreNew
<1>4. op[q] = "reanalyze" => e \in stored /\ Locked(e)
  BY <1>2 DEF Requeuing, Open, Locked, EvidenceInv, Agreement,
    RequeuesAreAlone
<1>5. "late" \notin Faults
  BY DEF ClientsWait
<1>6. /\ UNCHANGED <<dbVars, reqVars>>
      /\ op[q] # "submit"
      /\ \/ pc' = [pc EXCEPT ![q] = "toClassify"] /\ mem' = mem
            /\ pc[q] = "waiting"
         \/ pc' = [pc EXCEPT ![q] = "failing"] /\ mem' = mem
         \/ /\ pc' = [pc EXCEPT ![q] = "failed"]
            /\ mem' = [mem EXCEPT ![q] = NoMemory]
  <2>1. CASE FindEmail(q)
    BY <1>2, <1>3, <2>1 DEF FindEmail, GoTo
  <2>2. CASE StopWaiting(q)
    BY <1>5, <2>2 DEF StopWaiting
  <2>3. CASE StartClassification(q)
    BY <1>1, <1>2, <1>4, <2>3 DEF StartClassification, SetStage, Update
  <2>4. CASE MarkFailed(q)
    BY <1>1, <1>2, <1>4, <2>4 DEF MarkFailed, Update
  <2>5. CASE StageFails(q)
    BY <1>1, <1>2, <1>5, <2>5 DEF StageFails, GoTo
  <2>6. CASE MarkFailedRaises(q)
    BY <1>1, <1>2, <2>6 DEF MarkFailedRaises, Finish, GoTo
  <2>7. CASE \/ \E answer \in Answers : Classify(q, answer)
             \/ StartLinkResolution(q) \/ StartPageAnalysis(q)
             \/ StartAggregation(q) \/ StoreVerdict(q)
    BY <1>1, <2>7 DEF Classify, StartLinkResolution, StartPageAnalysis,
      StartAggregation, StoreVerdict, SetStage
  <2>8. CASE \/ \E scraped \in SUBSET (1 .. MaxLinks) : ResolveLinks(q, scraped)
             \/ \E risk \in [1 .. MaxLinks -> PageRisks] : AnalysePages(q, risk)
    BY <1>1, <2>8 DEF ResolveLinks, AnalysePages
  <2>9. QED
    BY <2>1, <2>2, <2>3, <2>4, <2>5, <2>6, <2>7, <2>8 DEF TaskStep, Stage
<1>7. \A d : SameRecord(d)
  BY <1>6, SameLinks DEF SameRecord, dbVars, reqVars
<1>8. \A p \in Requests \ {q} : pc'[p] = pc[p] /\ mem'[p] = mem[p]
  BY <1>6 DEF EvidenceInv, Basis, TypeOK
<1>9. /\ pc'[q] \in {"toClassify", "failing", "failed"}
      /\ pc'[q] = "toClassify" => mem'[q] = NoMemory
  BY <1>6 DEF EvidenceInv, Basis, TypeOK, Agreement, FreshMemory
<1>10. QED
  BY <1>1, <1>6, <1>7, <1>8, <1>9 DEF TaskEffect, dbVars, reqVars

\* A task that writes: its email, and what is known about it before the step.
Writing(q, e) ==
  /\ EvidenceInv
  /\ q \in Requests /\ e \in Emails /\ target[q] = e
  /\ Live(q) /\ ~Open(q)

LEMMA WritingFacts ==
  ASSUME NEW q, NEW e, Writing(q, e)
  PROVE  /\ e \in stored /\ row[e] \in Row /\ mem[q] \in Memory
         /\ row \in [Emails -> Row] /\ mem \in [Requests -> Memory]
         /\ pc \in [Requests -> {"none"} \cup Running \cup Ended]
         /\ TaskRow(q) /\ TaskLinks(q) /\ Fits(e)
         /\ row[e].status \in {"pending", "running"}
         /\ row[e].finalClass = Null /\ ~row[e].error
         /\ \A d \in Emails, l \in links :
              l \in LinksOf(d) <=> target[l[1]] = d
<1>1. /\ row \in [Emails -> Row] /\ mem \in [Requests -> Memory]
      /\ pc \in [Requests -> {"none"} \cup Running \cup Ended]
      /\ row[e] \in Row /\ mem[q] \in Memory
  BY DEF Writing, EvidenceInv, Basis, TypeOK
<1>2. TaskRow(q) /\ TaskLinks(q)
  BY DEF Writing, EvidenceInv, Agreement, TasksShow
<1>3. e \in stored /\ row[e].status \in {"pending", "running"}
  BY <1>2 DEF TaskRow, Writing
<1>4. Fits(e)
  BY <1>3 DEF Writing, EvidenceInv, Agreement, EmailsFit
<1>5. row[e].finalClass = Null /\ row[e].error = FALSE
  BY <1>1, <1>3, <1>4 DEF Fits, Row
<1>6. QED
  BY <1>1, <1>2, <1>3, <1>4, <1>5 DEF LinksOf

\* An UPDATE of its row touches no other email, no link and no page.
LEMMA UpdateEffect ==
  ASSUME NEW q, NEW e, Writing(q, e), NEW r, Update(e, r),
         UNCHANGED <<stored, links, pages, reqVars>>
  PROVE  /\ row'[e] = r
         /\ LinksOf(e)' = LinksOf(e)
         /\ Found(e)' = Found(e)
         /\ \A d \in Emails : d # e => SameRecord(d)
<1>1. row' = [row EXCEPT ![e] = r]
  BY WritingFacts DEF Update
<1>2. \A d \in Emails : row'[d] = IF d = e THEN r ELSE row[d]
  BY <1>1, WritingFacts
<1>3. \A d : LinksOf(d)' = LinksOf(d) /\ Found(d)' = Found(d)
  BY SameLinks DEF reqVars
<1>4. QED
  BY <1>2, <1>3 DEF SameRecord, Writing

\* What is left to show for a step of a writing task.
LEMMA WritingEffect ==
  ASSUME NEW q, NEW e, Writing(q, e), TaskStep(q), stored' = stored,
         \A d \in Emails : d # e => SameRecord(d),
         \A p \in Requests \ {q} : mem'[p] = mem[p],
         pc'[q] \in {"none", "waiting", "toClassify", "classifying"} =>
           mem'[q] = NoMemory,
         Fits(e)', Live(q)' => TaskRow(q)' /\ TaskLinks(q)'
  PROVE  TaskEffect(q, e)
<1>1. /\ \E label : pc' = [pc EXCEPT ![q] = label]
      /\ UNCHANGED <<op, target, txn, doomed>>
  BY TaskFrame DEF TaskStep, Writing, reqVars
<1>2. \A p \in Requests \ {q} : pc'[p] = pc[p]
  BY <1>1, WritingFacts
<1>3. QED
  BY <1>1, <1>2 DEF TaskEffect, Writing

LEMMA FindEffect ==
  ASSUME NEW q, NEW e, Writing(q, e), FindEmail(q)
  PROVE  TaskEffect(q, e)
<1>1. /\ UNCHANGED <<stored, row, links, pages, target, mem>>
      /\ pc[q] = "waiting" /\ pc'[q] = "toClassify"
  BY WritingFacts DEF FindEmail, GoTo, Writing, dbVars, reqVars
<1>2. \A d : SameRecord(d)
  BY <1>1, SameLinks DEF SameRecord
<1>3. mem'[q] = NoMemory
  BY <1>1 DEF Writing, EvidenceInv, Agreement, FreshMemory
<1>4. Fits(e)'
  BY <1>2, WritingFacts, RecordFits
<1>5. TaskRow(q)'
  BY <1>1, WritingFacts DEF TaskRow, Shown, Knowing
<1>6. LinksOf(target[q])' = LinksOf(target[q])
      /\ Found(target[q])' = Found(target[q])
  BY <1>1 DEF LinksOf, Found, PagesOf
<1>7. TaskLinks(q)'
  BY <1>1, <1>6, WritingFacts DEF TaskLinks, Linked
<1>8. QED
  BY <1>1, <1>2, <1>3, <1>4, <1>5, <1>7, WritingEffect DEF TaskStep, Stage

\* The records of an UPDATE that moves a task to the next stage.
LEMMA SetStageEffect ==
  ASSUME NEW q, NEW e, Writing(q, e), TaskStep(q),
         NEW from, NEW stage, NEW to, SetStage(q, from, stage, to),
         from \in {"toClassify", "toResolve", "toAnalyse", "toAggregate"},
         stage \in {"classification", "link_resolution", "page_analysis",
                    "aggregation"},
         to = IF from = "toClassify" THEN "classifying"
              ELSE IF from = "toResolve" THEN "resolving"
              ELSE IF from = "toAnalyse" THEN "analysing" ELSE "finalising",
         stage = IF from = "toClassify" THEN "classification"
                 ELSE IF from = "toResolve" THEN "link_resolution"
                 ELSE IF from = "toAnalyse" THEN "page_analysis"
                 ELSE "aggregation"
  PROVE  TaskEffect(q, e)
<1>1. /\ UNCHANGED <<stored, links, pages, reqVars, target, mem>>
      /\ Update(e, [row[e] EXCEPT !.status = "running", !.stage = stage])
      /\ pc[q] = from /\ pc'[q] = to
  BY WritingFacts DEF SetStage, GoTo, Writing, reqVars
<1>2. /\ row'[e] = [row[e] EXCEPT !.status = "running", !.stage = stage]
      /\ LinksOf(e)' = LinksOf(e)
      /\ Found(e)' = Found(e)
      /\ \A d \in Emails : d # e => SameRecord(d)
  BY <1>1, UpdateEffect
<1>3. /\ row'[e].status = "running" /\ row'[e].stage = stage
      /\ row'[e].finalClass = row[e].finalClass
      /\ row'[e].error = row[e].error
      /\ row'[e].class = row[e].class
      /\ row'[e].confidence = row[e].confidence
      /\ row'[e].linkCount = row[e].linkCount
  BY <1>2, WritingFacts DEF Row
<1>4. pc'[q] = "classifying" => mem'[q] = NoMemory
  BY <1>1 DEF Writing, EvidenceInv, Agreement, FreshMemory
<1>5. Fits(e)'
  BY <1>3, WritingFacts DEF Fits
<1>6. target[q] = e /\ target'[q] = e
  BY <1>1 DEF Writing
<1>7. Early(q)' = Early(q) /\ NewLinks(q)' = NewLinks(q)
  BY <1>1 DEF Early, NewLinks
<1>8. from # "toClassify" => ~Early(q)
  BY <1>1, WritingFacts DEF TaskRow, Knowing
<1>9. TaskRow(q)'
  BY <1>1, <1>3, <1>6, <1>7, <1>8, WritingFacts DEF TaskRow, Shown, Knowing
<1>10. LinksOf(target[q])' = LinksOf(target[q])
       /\ Found(target[q])' = Found(target[q])
  BY <1>1 DEF LinksOf, Found, PagesOf
<1>11. TaskLinks(q)'
  BY <1>1, <1>7, <1>8, <1>10, WritingFacts DEF TaskLinks, Linked
<1>12. QED
  BY <1>1, <1>2, <1>4, <1>5, <1>9, <1>11, WritingEffect

LEMMA ClassifyEffect ==
  ASSUME NEW q, NEW e, Writing(q, e), NEW answer \in Answers,
         Classify(q, answer)
  PROVE  TaskEffect(q, e)
<1> DEFINE newRow == [row[e] EXCEPT !.class = answer.class,
                                    !.confidence = answer.confidence,
                                    !.linkCount = answer.linkCount]
           newMem == [mem EXCEPT ![q].class = answer.class,
                                 ![q].confidence = answer.confidence,
                                 ![q].linkCount = answer.linkCount]
           early == EarlyExit(answer.class, answer.confidence)
<1>1. /\ UNCHANGED <<stored, links, pages, reqVars, target>>
      /\ Update(e, newRow) /\ mem' = newMem
      /\ pc[q] = "classifying"
      /\ pc'[q] = IF early THEN "finalising" ELSE "toResolve"
  BY WritingFacts DEF Classify, GoTo, Writing, reqVars
<1>2. /\ row'[e] = newRow
      /\ LinksOf(e)' = LinksOf(e)
      /\ Found(e)' = Found(e)
      /\ \A d \in Emails : d # e => SameRecord(d)
  BY <1>1, UpdateEffect
<1>3. /\ row'[e].status = row[e].status /\ row'[e].stage = row[e].stage
      /\ row'[e].finalClass = row[e].finalClass
      /\ row'[e].error = row[e].error
      /\ row'[e].class = answer.class
      /\ row'[e].confidence = answer.confidence
      /\ row'[e].linkCount = answer.linkCount
  BY <1>2, WritingFacts DEF Row
<1>4. /\ mem'[q].class = answer.class
      /\ mem'[q].confidence = answer.confidence
      /\ mem'[q].linkCount = answer.linkCount
      /\ mem'[q].scraped = mem[q].scraped
      /\ mem'[q].found = mem[q].found
      /\ \A p \in Requests \ {q} : mem'[p] = mem[p]
  <2>1. q \in Requests
    BY DEF Writing
  <2>2. QED
    BY <1>1, <2>1, WritingFacts DEF Memory
<1>5. mem[q] = NoMemory
  BY <1>1 DEF Writing, EvidenceInv, Agreement, FreshMemory
<1>6. Fits(e)'
  BY <1>3, WritingFacts DEF Fits
<1>7. target[q] = e /\ target'[q] = e
  BY <1>1 DEF Writing
<1>8. Early(q)' = early
  BY <1>4 DEF Early
<1> HIDE DEF newRow, newMem, early
<1>9. TaskRow(q)'
  <2>1. /\ pc'[q] \in {"finalising", "toResolve"}
        /\ Early(q)' <=> pc'[q] = "finalising"
    BY <1>1, <1>8 DEF early, EarlyExit
  <2>2. <<row[e].status, row[e].stage>> = <<"running", "classification">>
    BY <1>1, <1>7, WritingFacts DEF TaskRow, Shown
  <2>3. Shown(q)' = <<"running", "classification">>
    BY <2>1 DEF Shown
  <2>4. QED
    BY <1>1, <1>3, <1>4, <1>7, <2>1, <2>2, <2>3, WritingFacts
      DEF TaskRow, Knowing
<1>10. LinksOf(target[q])' = LinksOf(target[q])
       /\ Found(target[q])' = Found(target[q])
  BY <1>1 DEF LinksOf, Found, PagesOf
<1>11. TaskLinks(q)'
  <2>1. Linked' = Linked /\ pc'[q] # "failing"
        /\ ~(pc'[q] \in Linked /\ ~Early(q)')
    BY <1>1, <1>8 DEF Linked, early, EarlyExit
  <2>2. LinksOf(target[q]) = {} /\ Found(target[q]) = {}
    BY <1>1, <1>5, WritingFacts DEF TaskLinks, Linked, NoMemory
  <2>3. mem'[q].scraped = {} /\ mem'[q].found = {}
    BY <1>4, <1>5 DEF NoMemory
  <2>4. QED
    BY <1>10, <2>1, <2>2, <2>3 DEF TaskLinks
<1>12. TaskStep(q)
  BY DEF TaskStep, Stage
<1>13. QED
  BY <1>1, <1>2, <1>4, <1>6, <1>9, <1>11, <1>12, WritingEffect

LEMMA ResolveEffect ==
  ASSUME NEW q, NEW e, Writing(q, e), NEW scraped \in SUBSET (1 .. MaxLinks),
         ResolveLinks(q, scraped)
  PROVE  TaskEffect(q, e)
<1>1. /\ UNCHANGED <<stored, row, pages, target>>
      /\ links' = links \cup NewLinks(q)
      /\ mem' = [mem EXCEPT ![q].scraped = scraped]
      /\ scraped \subseteq 1 .. mem[q].linkCount
      /\ pc[q] = "resolving" /\ pc'[q] = "toAnalyse"
      /\ target[q] = e /\ q \in Requests
  BY WritingFacts DEF ResolveLinks, GoTo, Writing, reqVars
<1>2. /\ mem'[q].class = mem[q].class
      /\ mem'[q].confidence = mem[q].confidence
      /\ mem'[q].linkCount = mem[q].linkCount
      /\ mem'[q].scraped = scraped
      /\ mem'[q].found = mem[q].found
      /\ \A p \in Requests \ {q} : mem'[p] = mem[p]
  BY <1>1, WritingFacts DEF Memory
<1>3. Early(q)' = Early(q) /\ ~Early(q) /\ NewLinks(q)' = NewLinks(q)
  BY <1>1, <1>2, WritingFacts DEF Early, NewLinks, TaskRow, Knowing
<1>4. LinksOf(e) = {} /\ Found(e) = {} /\ mem[q].found = {}
  BY <1>1, WritingFacts DEF TaskLinks, Linked
<1>5. \A l \in NewLinks(q) : target[l[1]] = e
  BY <1>1 DEF NewLinks
<1>6. \A d : LinksOf(d)' = LinksOf(d) \cup {l \in NewLinks(q) : e = d}
  BY <1>1, <1>5 DEF LinksOf
<1>7. LinksOf(e)' = NewLinks(q)
  BY <1>4, <1>6
<1>8. Found(e)' = {}
  <2> SUFFICES ASSUME NEW p \in pages, p[1] \in NewLinks(q)
               PROVE  FALSE
    BY <1>1, <1>7 DEF Found, PagesOf
  <2>1. p[1] \in links
    BY DEF Writing, EvidenceInv, Basis, NoOrphanRows
  <2>2. p[1] \in LinksOf(e)
    BY <1>5, <2>1 DEF LinksOf
  <2>3. QED
    BY <1>4, <2>2
<1>9. ASSUME NEW d \in Emails, d # e
      PROVE  SameRecord(d)
  <2>1. LinksOf(d)' = LinksOf(d)
    BY <1>6, <1>9
  <2>2. QED
    BY <1>1, <2>1 DEF SameRecord, Found, PagesOf
<1>10. Fits(e)'
  BY <1>1, WritingFacts DEF Fits
<1>11. TaskRow(q)'
  BY <1>1, <1>2, <1>3, WritingFacts DEF TaskRow, Shown, Knowing
<1>12. LinksOf(target[q])' = LinksOf(e)' /\ Found(target[q])' = Found(e)'
  BY <1>1 DEF LinksOf, Found, PagesOf
<1>13. TaskLinks(q)'
  BY <1>1, <1>2, <1>3, <1>4, <1>7, <1>8, <1>12 DEF TaskLinks, Linked
<1>14. TaskStep(q)
  BY DEF TaskStep, Stage
<1>15. QED
  BY <1>1, <1>2, <1>9, <1>10, <1>11, <1>13, <1>14, WritingEffect

LEMMA AnalyseEffect ==
  ASSUME NEW q, NEW e, Writing(q, e),
         NEW risk \in [1 .. MaxLinks -> PageRisks], AnalysePages(q, risk)
  PROVE  TaskEffect(q, e)
<1> DEFINE risks == {risk[i] : i \in mem[q].scraped}
<1>1. /\ UNCHANGED <<stored, row, links, target>>
      /\ pc[q] = "analysing" /\ target[q] = e /\ q \in Requests
  BY DEF AnalysePages, Writing, reqVars
<1>2. ~Early(q)
  BY <1>1, WritingFacts DEF TaskRow, Knowing
<1>3. /\ LinksOf(e) = NewLinks(q) /\ Found(e) = {} /\ mem[q].found = {}
      /\ mem[q].scraped \subseteq 1 .. mem[q].linkCount
  BY <1>1, <1>2, WritingFacts DEF TaskLinks, Linked
<1>4. {q} \X mem[q].scraped \subseteq links
  BY <1>3 DEF NewLinks, LinksOf
<1>5. /\ pages' = pages \cup PageRows(q, risk)
      /\ mem' = [mem EXCEPT ![q].found = risks]
      /\ pc'[q] = "toAggregate"
  BY <1>4, WritingFacts DEF AnalysePages, GoTo, Writing
<1>6. /\ mem'[q].class = mem[q].class
      /\ mem'[q].confidence = mem[q].confidence
      /\ mem'[q].linkCount = mem[q].linkCount
      /\ mem'[q].scraped = mem[q].scraped
      /\ mem'[q].found = risks
      /\ \A p \in Requests \ {q} : mem'[p] = mem[p]
  BY <1>1, <1>5, WritingFacts DEF Memory
<1>7. Early(q)' = Early(q) /\ NewLinks(q)' = NewLinks(q)
  BY <1>6 DEF Early, NewLinks
<1>8. \A d : LinksOf(d)' = LinksOf(d)
  BY <1>1 DEF LinksOf
<1>9. \A p \in PageRows(q, risk) : p[1] \in NewLinks(q)
  BY <1>3 DEF PageRows, NewLinks
<1>10. Found(e)' = risks
  <2>1. Found(e)' = {p[2] : p \in {r \in pages' : r[1] \in NewLinks(q)}}
    BY <1>3, <1>8 DEF Found, PagesOf
  <2>2. \A p \in pages : p[1] \notin NewLinks(q)
    BY <1>3 DEF Found, PagesOf
  <2>3. {r \in pages' : r[1] \in NewLinks(q)} = PageRows(q, risk)
    BY <1>5, <1>9, <2>2
  <2>4. {p[2] : p \in PageRows(q, risk)} = risks
    <3>1. \A i : <<<<q, i>>, risk[i]>>[2] = risk[i]
      OBVIOUS
    <3>2. \A r : r \in PageRows(q, risk)
                 <=> \E i \in mem[q].scraped : r = <<<<q, i>>, risk[i]>>
      BY DEF PageRows
    <3>3. ASSUME NEW i \in mem[q].scraped
          PROVE  risk[i] \in {p[2] : p \in PageRows(q, risk)}
      <4>1. PICK r : r = <<<<q, i>>, risk[i]>>
        OBVIOUS
      <4>2. r \in PageRows(q, risk) /\ r[2] = risk[i]
        BY <3>2, <4>1
      <4>3. QED
        BY <4>2
    <3>4. ASSUME NEW r \in PageRows(q, risk)
          PROVE  r[2] \in risks
      BY <3>1, <3>2
    <3>5. QED
      BY <3>3, <3>4
  <2>5. QED
    BY <2>1, <2>3, <2>4
<1>11. ASSUME NEW d \in Emails, d # e
      PROVE  SameRecord(d)
  <2>1. \A p \in PageRows(q, risk) : p[1] \notin LinksOf(d)
    BY <1>3, <1>9, <1>11 DEF LinksOf
  <2>2. PagesOf(LinksOf(d))' = PagesOf(LinksOf(d))
    BY <1>5, <1>8, <2>1 DEF PagesOf
  <2>3. QED
    BY <1>1, <1>8, <2>2 DEF SameRecord, Found
<1>12. Fits(e)'
  BY <1>1, WritingFacts DEF Fits
<1>13. TaskRow(q)'
  BY <1>1, <1>2, <1>5, <1>6, <1>7, WritingFacts DEF TaskRow, Shown, Knowing
<1>14. LinksOf(target[q])' = LinksOf(e)' /\ Found(target[q])' = Found(e)'
  BY <1>1 DEF LinksOf, Found, PagesOf
<1> HIDE DEF risks
<1>15. TaskLinks(q)'
  BY <1>2, <1>3, <1>5, <1>6, <1>7, <1>8, <1>10, <1>14 DEF TaskLinks, Linked
<1>16. TaskStep(q)
  BY DEF TaskStep, Stage
<1>17. QED
  BY <1>1, <1>5, <1>6, <1>11, <1>12, <1>13, <1>15, <1>16, WritingEffect

\* A task inserts as many links as stage 1 has counted.
LEMMA PairsCounted ==
  ASSUME NEW q, NEW n \in Nat
  PROVE  Cardinality({q} \X (1 .. n)) = n
<1> DEFINE pair == [i \in 1 .. n |-> <<q, i>>]
<1>1. /\ pair \in [1 .. n -> {q} \X (1 .. n)]
      /\ \A i, j \in 1 .. n : pair[i] = pair[j] => i = j
      /\ \A l \in {q} \X (1 .. n) : \E i \in 1 .. n : pair[i] = l
  OBVIOUS
<1>2. pair \in Bijection(1 .. n, {q} \X (1 .. n))
  BY <1>1, Fun_IsBij
<1>3. IsFiniteSet(1 .. n) /\ Cardinality(1 .. n) = n
  BY FS_Interval
<1>4. QED
  BY <1>2, <1>3, FS_Bijection DEF ExistsBijection

LEMMA VerdictEffect ==
  ASSUME NEW q, NEW e, Writing(q, e), StoreVerdict(q)
  PROVE  TaskEffect(q, e)
<1> DEFINE m == mem[q]
           trigger == Trigger(m.class, m.linkCount, m.found, Early(q))
           newRow == [row[e] EXCEPT !.finalClass = FinalClass(m.class, trigger),
                                    !.trigger = trigger,
                                    !.status = "complete",
                                    !.stage = "done"]
<1>1. /\ UNCHANGED <<stored, links, pages, reqVars, target>>
      /\ Update(e, newRow)
      /\ mem' = [mem EXCEPT ![q] = NoMemory]
      /\ pc[q] = "finalising" /\ pc'[q] = "done"
      /\ target[q] = e /\ q \in Requests
  BY WritingFacts DEF StoreVerdict, Finish, GoTo, Writing, reqVars, Early
<1>2. /\ row'[e] = newRow
      /\ LinksOf(e)' = LinksOf(e)
      /\ Found(e)' = Found(e)
      /\ \A d \in Emails : d # e => SameRecord(d)
  BY <1>1, UpdateEffect
<1>3. /\ row'[e].status = "complete" /\ row'[e].stage = "done"
      /\ row'[e].finalClass = FinalClass(m.class, trigger)
      /\ row'[e].trigger = trigger
      /\ row'[e].error = row[e].error
      /\ row'[e].class = row[e].class
      /\ row'[e].confidence = row[e].confidence
      /\ row'[e].linkCount = row[e].linkCount
  BY <1>2, WritingFacts DEF Row
<1>4. /\ row[e].class = m.class /\ row[e].confidence = m.confidence
      /\ row[e].linkCount = m.linkCount
  BY <1>1, WritingFacts DEF TaskRow, Knowing
<1>5. /\ LinksOf(e) = IF Early(q) THEN {} ELSE NewLinks(q)
      /\ Found(e) = m.found
  BY <1>1, WritingFacts DEF TaskLinks, Linked
<1>6. FinalClass(m.class, trigger) # Null
  <2>1. m.class \in Classes
    BY <1>1 DEF Writing, EvidenceInv, Basis, TasksKnowClass
  <2>2. FinalClass(m.class, trigger) \in Classes
    BY <2>1, VerdictType
  <2>3. QED
    BY <2>2 DEF Classes, Null
<1>7. m.linkCount \in Nat
  BY WritingFacts, BoundAssumption DEF Memory
<1>8. Cardinality(NewLinks(q)) = m.linkCount
  BY <1>7, PairsCounted DEF NewLinks
<1>9. Early(q) <=> trigger = "early_exit"
  BY DEF Trigger, Early, EarlyExit
<1>10. Cardinality(LinksOf(e)) = IF trigger = "early_exit" THEN 0
                                                         ELSE m.linkCount
  BY <1>5, <1>8, <1>9, FS_EmptySet
<1>11. Early(q) = EarlyExit(m.class, m.confidence)
  BY DEF Early
<1> HIDE DEF m, trigger, newRow
<1>12. trigger = Trigger(row'[e].class, row'[e].linkCount, Found(e)',
                         EarlyExit(row'[e].class, row'[e].confidence))
  BY <1>2, <1>3, <1>4, <1>5, <1>11 DEF trigger
<1>13. row'[e].finalClass = FinalClass(row'[e].class, row'[e].trigger)
  BY <1>3, <1>4
<1>14. Fits(e)'
  BY <1>2, <1>3, <1>4, <1>6, <1>10, <1>12, <1>13, WritingFacts DEF Fits
<1>15. \A p \in Requests \ {q} : mem'[p] = mem[p]
  BY <1>1, WritingFacts
<1>16. TaskStep(q) /\ ~Live(q)'
  BY <1>1 DEF TaskStep, Stage, Live, Running
<1>17. QED
  BY <1>1, <1>2, <1>14, <1>15, <1>16, WritingEffect

LEMMA MarkFailedEffect ==
  ASSUME NEW q, NEW e, Writing(q, e), MarkFailed(q)
  PROVE  TaskEffect(q, e)
<1>1. /\ UNCHANGED <<stored, links, pages, reqVars>>
      /\ Update(e, Failed(row[e]))
      /\ mem' = [mem EXCEPT ![q] = NoMemory]
      /\ pc'[q] = "failed" /\ q \in Requests
  BY WritingFacts DEF MarkFailed, Finish, GoTo, Writing
<1>2. /\ row'[e] = Failed(row[e])
      /\ \A d \in Emails : d # e => SameRecord(d)
  BY <1>1, UpdateEffect
<1>3. /\ row'[e].status = "failed" /\ row'[e].stage = row[e].stage
      /\ row'[e].finalClass = row[e].finalClass
      /\ row'[e].error = TRUE
  BY <1>2, WritingFacts DEF Failed, Row
<1>4. Fits(e)'
  BY <1>3, WritingFacts DEF Fits
<1>5. \A p \in Requests \ {q} : mem'[p] = mem[p]
  BY <1>1, WritingFacts
<1>6. TaskStep(q) /\ ~Live(q)'
  BY <1>1 DEF TaskStep, Stage, Live, Running
<1>7. QED
  BY <1>1, <1>2, <1>4, <1>5, <1>6, WritingEffect

LEMMA TaskFaultEffect ==
  ASSUME NEW q, NEW e, Writing(q, e), StageFails(q) \/ MarkFailedRaises(q)
  PROVE  TaskEffect(q, e)
<1>1. /\ UNCHANGED <<stored, row, links, pages, target>>
      /\ pc'[q] \in {"failing", "failed"} /\ q \in Requests
      /\ \A p \in Requests \ {q} : mem'[p] = mem[p]
  BY WritingFacts
    DEF StageFails, MarkFailedRaises, Finish, GoTo, Writing, dbVars, reqVars
<1>2. \A d : SameRecord(d)
  BY <1>1, SameLinks DEF SameRecord
<1>3. Fits(e)'
  BY <1>2, WritingFacts, RecordFits
<1>4. Live(q)' => TaskRow(q)' /\ TaskLinks(q)'
  BY <1>1, WritingFacts DEF Live, Running, TaskRow, TaskLinks, Knowing
<1>5. TaskStep(q)
  BY DEF TaskStep
<1>6. QED
  BY <1>1, <1>2, <1>3, <1>4, <1>5, WritingEffect

LEMMA WritingTaskEffect ==
  ASSUME NEW q, NEW e, Writing(q, e), TaskStep(q)
  PROVE  TaskEffect(q, e)
<1>1. CASE FindEmail(q)
  BY <1>1, FindEffect
<1>2. CASE StopWaiting(q)
  BY <1>2, WritingFacts DEF StopWaiting, Writing
<1>3. CASE StartClassification(q)
  BY <1>3, SetStageEffect DEF TaskStep, Stage, StartClassification
<1>4. CASE StartLinkResolution(q)
  BY <1>4, SetStageEffect DEF TaskStep, Stage, StartLinkResolution
<1>5. CASE StartPageAnalysis(q)
  BY <1>5, SetStageEffect DEF TaskStep, Stage, StartPageAnalysis
<1>6. CASE StartAggregation(q)
  BY <1>6, SetStageEffect DEF TaskStep, Stage, StartAggregation
<1>7. CASE \E answer \in Answers : Classify(q, answer)
  BY <1>7, ClassifyEffect
<1>8. CASE \E scraped \in SUBSET (1 .. MaxLinks) : ResolveLinks(q, scraped)
  BY <1>8, ResolveEffect
<1>9. CASE \E risk \in [1 .. MaxLinks -> PageRisks] : AnalysePages(q, risk)
  BY <1>9, AnalyseEffect
<1>10. CASE StoreVerdict(q)
  BY <1>10, VerdictEffect
<1>11. CASE MarkFailed(q)
  BY <1>11, MarkFailedEffect
<1>12. CASE StageFails(q) \/ MarkFailedRaises(q)
  BY <1>12, TaskFaultEffect
<1>13. QED
  BY <1>1, <1>2, <1>3, <1>4, <1>5, <1>6, <1>7, <1>8, <1>9, <1>10, <1>11,
    <1>12 DEF TaskStep, Stage

\* A live task works on some email.
LEMMA TaskEmail ==
  ASSUME EvidenceInv, NEW q \in Requests, Live(q)
  PROVE  \E e \in Emails : target[q] = e
<1>1. target[q] # NoEmail /\ target[q] \in Emails \cup {NoEmail}
  BY DEF Live, Running, EvidenceInv, Basis, RequestsMatchTasks, TypeOK
<1>2. QED
  BY <1>1

LEMMA TaskStepAgrees ==
  ASSUME ClientsWait, EvidenceInv, NEW q \in Requests, TaskStep(q)
  PROVE  Agreement'
<1>1. Live(q)
  BY TaskFrame DEF TaskStep, Live
<1>2. PICK e \in Emails : target[q] = e
  BY <1>1, TaskEmail
<1>3. CASE Open(q)
  BY <1>2, <1>3, StandByEffect, TaskEffectAgrees
<1>4. CASE ~Open(q)
  <2>1. Writing(q, e)
    BY <1>1, <1>2, <1>4 DEF Writing
  <2>2. QED
    BY <1>2, <2>1, WritingTaskEffect, TaskEffectAgrees
<1>5. QED
  BY <1>3, <1>4

-----------------------------------------------------------------------------
(***************************************************************************)
(* Commits.                                                                *)
(***************************************************************************)

\* What commits have in common; e is the email of the request.
CommitEffect(q, e) ==
  /\ UNCHANGED <<op, target, pc, mem>>
  /\ txn[q] = "written" /\ txn'[q] = "committed"
  /\ \A p \in Requests \ {q} : txn'[p] = txn[p] /\ doomed'[p] = doomed[p]
  /\ stored' \subseteq stored \cup {e}
  /\ \A d \in Emails : d # e => SameRecord(d) /\ (d \in stored <=> d \in stored')
  /\ op[q] = "submit" => \A p \in Requests : target[p] = e => p = q
  /\ e \in stored' => Fits(e)'
  /\ \A p \in Requests : (p # q /\ target[p] = e /\ Requeuing(p)) =>
       /\ e \in stored'
       /\ row'[e].status = row[e].status
       /\ LinksOf(e)' = LinksOf(e)
  /\ \A p \in Requests : (target[p] = e /\ Live(p) /\ ~Open(p)') =>
       TaskRow(p)' /\ TaskLinks(p)'

LEMMA CommitEffectAgrees ==
  ASSUME EvidenceInv, NEW q \in Requests, NEW e \in Emails, target[q] = e,
         CommitEffect(q, e)
  PROVE  Agreement'
<1>1. /\ Open(q) /\ ~Open(q)' /\ ~Requeuing(q)'
      /\ \A p \in Requests : Live(p)' = Live(p)
      /\ \A p \in Requests \ {q} : /\ Open(p)' = Open(p)
                                 /\ Requeuing(p)' = Requeuing(p)
  BY DEF CommitEffect, Open, Requeuing, Live
<1>2. ASSUME NEW p \in Requests, p # q, Requeuing(p)
      PROVE  /\ target[p] \in stored'
             /\ row'[target[p]].status = row[target[p]].status
             /\ LinksOf(target[p])' = LinksOf(target[p])
  <2>1. target[p] \in stored /\ target[p] \in Emails
    BY <1>2 DEF EvidenceInv, Basis, TypeOK, Agreement, RequeuesAreAlone
  <2>2. PICK d \in Emails : d = target[p]
    BY <2>1
  <2>3. LinksOf(target[p])' = LinksOf(d)'
    BY <2>2 DEF LinksOf, CommitEffect
  <2>4. CASE d = e
    BY <1>2, <2>2, <2>3, <2>4 DEF CommitEffect
  <2>5. CASE d # e
    BY <2>1, <2>2, <2>3, <2>5 DEF CommitEffect, SameRecord
  <2>6. QED
    BY <2>4, <2>5
<1>3. StoredWereSubmitted'
  BY DEF EvidenceInv, Agreement, StoredWereSubmitted, CommitEffect
<1>4. SubmitsAreNew'
  <2> SUFFICES ASSUME NEW p \in Requests, op[p] = "submit",
                      txn'[p] = "written"
               PROVE  /\ target[p] \notin stored'
                      /\ \A r \in Requests : target[r] = target[p] => r = p
    BY DEF SubmitsAreNew, CommitEffect
  <2>1. p # q /\ txn[p] = "written"
    BY DEF CommitEffect
  <2>2. /\ target[p] \notin stored
        /\ \A r \in Requests : target[r] = target[p] => r = p
    BY <2>1 DEF EvidenceInv, Agreement, SubmitsAreNew
  <2>3. QED
    BY <2>1, <2>2 DEF CommitEffect
<1>5. RequeuesAreAlone'
  <2> SUFFICES ASSUME NEW p \in Requests, Requeuing(p)'
               PROVE  /\ target[p] \in stored'
                      /\ row'[target[p]].status \in Terminal
                      /\ \A r \in Requests : (r # p /\ target[r] = target[p]) =>
                           ~Requeuing(r)' /\ ~Live(r)'
    BY DEF RequeuesAreAlone, CommitEffect
  <2>1. p # q /\ Requeuing(p)
    BY <1>1
  <2>2. QED
    BY <1>1, <1>2, <2>1 DEF EvidenceInv, Agreement, RequeuesAreAlone
<1>6. RequeuesDropAll'
  <2> SUFFICES ASSUME NEW p \in Requests, op[p] = "reanalyze",
                      txn'[p] \in {"unlinked", "written"}
               PROVE  doomed'[p] = LinksOf(target[p])'
    BY DEF RequeuesDropAll, CommitEffect
  <2>1. p # q /\ txn'[p] = txn[p] /\ doomed'[p] = doomed[p]
    BY DEF CommitEffect
  <2>2. Requeuing(p)
    BY <2>1 DEF Requeuing, Open
  <2>3. QED
    BY <1>2, <2>1, <2>2 DEF EvidenceInv, Agreement, RequeuesDropAll
<1>7. TasksStandBy'
  BY <1>1 DEF EvidenceInv, Agreement, TasksStandBy, CommitEffect
<1>8. FreshMemory'
  BY DEF EvidenceInv, Agreement, FreshMemory, CommitEffect
<1>9. OneTaskPerEmail'
  BY <1>1 DEF EvidenceInv, Agreement, OneTaskPerEmail, CommitEffect
<1>10. NewRowsQueued'
  <2> SUFFICES ASSUME NEW d \in Emails,
                      \A p \in Requests : target[p] = d =>
                        (op[p] = "submit" /\ txn'[p] = "written")
               PROVE  row'[d] = QueuedRow
    BY DEF NewRowsQueued, CommitEffect
  <2>1. d # e
    BY DEF CommitEffect
  <2>2. \A p \in Requests : target[p] = d =>
                        (op[p] = "submit" /\ txn[p] = "written")
    BY DEF CommitEffect
  <2>3. QED
    BY <2>1, <2>2
      DEF CommitEffect, SameRecord, EvidenceInv, Agreement, NewRowsQueued
<1>11. TasksShow'
  <2> SUFFICES ASSUME NEW p \in Requests, Live(p)', ~Open(p)'
               PROVE  TaskRow(p)' /\ TaskLinks(p)'
    BY DEF TasksShow
  <2>1. CASE target[p] = e
    BY <1>1, <2>1 DEF CommitEffect
  <2>2. CASE target[p] # e
    <3>1. TaskRow(p) /\ TaskLinks(p)
      BY <1>1, <2>2 DEF EvidenceInv, Agreement, TasksShow
    <3>2. PICK d \in Emails : d = target[p]
      BY <3>1 DEF TaskRow, EvidenceInv, Basis, TypeOK
    <3>3. /\ target'[p] = d /\ pc'[p] = pc[p] /\ mem'[p] = mem[p]
          /\ SameRecord(d) /\ (d \in stored => d \in stored')
      BY <2>2, <3>2 DEF CommitEffect
    <3>4. QED
      BY <3>1, <3>2, <3>3, RecordShows
  <2>3. QED
    BY <2>1, <2>2
<1>12. EmailsFit'
  <2> SUFFICES ASSUME NEW d \in stored'
               PROVE  Fits(d)'
    BY DEF EmailsFit
  <2>1. CASE d = e
    BY <2>1 DEF CommitEffect
  <2>2. CASE d # e
    <3>1. d \in stored /\ d \in Emails
      BY <2>2 DEF CommitEffect, EvidenceInv, Basis, TypeOK
    <3>2. Fits(d) /\ SameRecord(d)
      BY <2>2, <3>1 DEF CommitEffect, EvidenceInv, Agreement, EmailsFit
    <3>3. QED
      BY <3>2, RecordFits
  <2>3. QED
    BY <2>1, <2>2
<1>13. QED
  BY <1>3, <1>4, <1>5, <1>6, <1>7, <1>8, <1>9, <1>10, <1>11, <1>12
    DEF Agreement

LEMMA EndFrame ==
  ASSUME EvidenceInv, NEW q \in Requests, txn[q] = "written",
         End(q, "committed")
  PROVE  /\ UNCHANGED <<op, target, pc, mem>>
         /\ txn'[q] = "committed"
         /\ \A p \in Requests \ {q} :
              txn'[p] = txn[p] /\ doomed'[p] = doomed[p]
         /\ \E e \in Emails : target[q] = e
<1>1. target[q] \in Emails \cup {NoEmail} /\ target[q] # NoEmail
  BY DEF EvidenceInv, Basis, TypeOK, RequestsMatchTasks
<1>2. QED
  BY <1>1 DEF End, EvidenceInv, Basis, TypeOK

LEMMA CommitSubmitAgrees ==
  ASSUME EvidenceInv, NEW q \in Requests, CommitSubmit(q)
  PROVE  Agreement'
<1>1. /\ op[q] = "submit" /\ txn[q] = "written" /\ End(q, "committed")
      /\ stored' = stored \cup {target[q]}
      /\ UNCHANGED <<row, links, pages>>
  BY DEF CommitSubmit
<1>2. PICK e \in Emails : target[q] = e
  BY <1>1, EndFrame
<1>3. UNCHANGED <<op, target, pc, mem>>
  BY <1>1, EndFrame
<1>4. \A d : SameRecord(d)
  BY <1>1, <1>3, SameLinks DEF SameRecord
<1>5. e \notin stored /\ \A p \in Requests : target[p] = e => p = q
  BY <1>1, <1>2 DEF EvidenceInv, Agreement, SubmitsAreNew
<1>6. row[e] = QueuedRow
  BY <1>1, <1>2, <1>5 DEF EvidenceInv, Agreement, NewRowsQueued
<1>7. LinksOf(e) = {} /\ Found(e) = {}
  <2>1. LinksOf(e) = {}
    BY <1>5 DEF LinksOf, EvidenceInv, Basis, NoOrphanRows
  <2>2. QED
    BY <2>1 DEF Found, PagesOf
<1>8. Fits(e)'
  BY <1>1, <1>6 DEF Fits, QueuedRow
<1>9. ASSUME Live(q)
      PROVE  TaskRow(q)' /\ TaskLinks(q)'
  <2>1. pc[q] = "waiting" /\ pc'[q] = "waiting"
    BY <1>1, <1>3, <1>9 DEF EvidenceInv, Agreement, TasksStandBy, Open
  <2>2. mem[q] = NoMemory /\ mem'[q] = NoMemory
    BY <1>3, <2>1 DEF EvidenceInv, Agreement, FreshMemory
  <2>3. TaskRow(q)'
    BY <1>1, <1>2, <1>3, <1>6, <2>1 DEF TaskRow, Shown, Knowing, QueuedRow
  <2>4. LinksOf(target[q])' = LinksOf(e) /\ Found(target[q])' = Found(e)
    BY <1>1, <1>2, <1>3 DEF LinksOf, Found, PagesOf
  <2>5. TaskLinks(q)'
    BY <1>7, <2>1, <2>2, <2>4 DEF TaskLinks, Linked, NoMemory
  <2>6. QED
    BY <2>3, <2>5
<1>10. CommitEffect(q, e)
  BY <1>1, <1>2, <1>4, <1>5, <1>8, <1>9, EndFrame DEF CommitEffect
<1>11. QED
  BY <1>2, <1>10, CommitEffectAgrees

\* The re-queue and the deletion of an email leave none of its links behind.
LEMMA DropEffect ==
  ASSUME EvidenceInv, NEW e \in Emails, UNCHANGED target,
         DropLinks(LinksOf(e)), \A d \in Emails : d # e => row'[d] = row[d]
  PROVE  /\ LinksOf(e)' = {} /\ Found(e)' = {}
         /\ \A d \in Emails : d # e => SameRecord(d)
<1>1. /\ links' = links \ LinksOf(e)
      /\ pages' = pages \ PagesOf(LinksOf(e))
  BY DEF DropLinks
<1>2. LinksOf(e)' = {}
  BY <1>1 DEF LinksOf
<1>3. Found(e)' = {}
  BY <1>2 DEF Found, PagesOf
<1>4. ASSUME NEW d \in Emails, d # e
      PROVE  SameRecord(d)
  <2>1. LinksOf(d)' = LinksOf(d)
    BY <1>1, <1>4 DEF LinksOf
  <2>2. PagesOf(LinksOf(d))' = PagesOf(LinksOf(d))
    <3>1. \A l \in LinksOf(d) : l \notin LinksOf(e)
      BY <1>4 DEF LinksOf
    <3>2. QED
      BY <1>1, <2>1, <3>1 DEF PagesOf
  <2>3. QED
    BY <1>4, <2>1, <2>2 DEF SameRecord, Found
<1>5. QED
  BY <1>2, <1>3, <1>4

LEMMA CommitReanalyzeAgrees ==
  ASSUME EvidenceInv, NEW q \in Requests, CommitReanalyze(q)
  PROVE  Agreement'
<1>1. /\ op[q] = "reanalyze" /\ txn[q] = "written" /\ End(q, "committed")
      /\ stored' = stored /\ DropLinks(doomed[q])
      /\ row' = IF target[q] \in stored
                THEN [row EXCEPT ![target[q]] = Reset(@)] ELSE row
  BY DEF CommitReanalyze
<1>2. PICK e \in Emails : target[q] = e
  BY <1>1, EndFrame
<1>3. UNCHANGED <<op, target, pc, mem>>
  BY <1>1, EndFrame
<1>4. Requeuing(q)
  BY <1>1 DEF Requeuing, Open
<1>5. /\ e \in stored
      /\ \A p \in Requests : p # q /\ target[p] = e =>
                             ~Requeuing(p) /\ ~Live(p)
  BY <1>2, <1>4 DEF EvidenceInv, Agreement, RequeuesAreAlone
<1>6. row' = [row EXCEPT ![e] = Reset(row[e])]
  BY <1>1, <1>2, <1>5
<1>7. row'[e] = Reset(row[e]) /\ \A d \in Emails : d # e => row'[d] = row[d]
  BY <1>6 DEF EvidenceInv, Basis, TypeOK
<1>8. doomed[q] = LinksOf(e)
  BY <1>1, <1>2 DEF EvidenceInv, Agreement, RequeuesDropAll
<1>9. /\ LinksOf(e)' = {} /\ Found(e)' = {}
      /\ \A d \in Emails : d # e => SameRecord(d)
  BY <1>1, <1>3, <1>7, <1>8, DropEffect
<1>10. /\ row'[e].status = "pending" /\ row'[e].stage = "queued"
       /\ row'[e].finalClass = Null /\ row'[e].error = FALSE
  BY <1>7 DEF Reset, QueuedRow
<1>11. Fits(e)'
  BY <1>10 DEF Fits
<1>12. ASSUME Live(q)
       PROVE  TaskRow(q)' /\ TaskLinks(q)'
  <2>1. pc[q] \in {"waiting", "toClassify", "failing"} /\ pc'[q] = pc[q]
    BY <1>3, <1>4, <1>12 DEF EvidenceInv, Agreement, TasksStandBy, Requeuing
  <2>2. pc[q] # "failing" => mem'[q] = NoMemory
    BY <1>3, <2>1 DEF EvidenceInv, Agreement, FreshMemory
  <2>3. TaskRow(q)'
    BY <1>1, <1>2, <1>3, <1>5, <1>10, <2>1 DEF TaskRow, Shown, Knowing
  <2>4. LinksOf(target[q])' = LinksOf(e)' /\ Found(target[q])' = Found(e)'
    BY <1>2, <1>3 DEF LinksOf, Found, PagesOf
  <2>5. TaskLinks(q)'
    BY <1>9, <2>1, <2>2, <2>4 DEF TaskLinks, Linked, NoMemory
  <2>6. QED
    BY <2>3, <2>5
<1>13. CommitEffect(q, e)
  BY <1>1, <1>2, <1>5, <1>9, <1>11, <1>12, EndFrame DEF CommitEffect
<1>14. QED
  BY <1>2, <1>13, CommitEffectAgrees

LEMMA CommitDeleteAgrees ==
  ASSUME EvidenceInv, NEW q \in Requests, CommitDelete(q)
  PROVE  Agreement'
<1>1. /\ op[q] = "delete" /\ txn[q] = "written" /\ End(q, "committed")
      /\ stored' = stored \ {target[q]} /\ DropLinks(LinksOf(target[q]))
      /\ row' = [row EXCEPT ![target[q]] = QueuedRow]
  BY DEF CommitDelete
<1>2. PICK e \in Emails : target[q] = e
  BY <1>1, EndFrame
<1>3. UNCHANGED <<op, target, pc, mem>>
  BY <1>1, EndFrame
<1>4. Requeuing(q) /\ pc[q] = "none"
  BY <1>1 DEF Requeuing, Open, EvidenceInv, Basis, RequestsMatchTasks
<1>5. \A p \in Requests : target[p] = e =>
        ~Live(p) /\ (p # q => ~Requeuing(p))
  BY <1>2, <1>4
    DEF EvidenceInv, Agreement, RequeuesAreAlone, Live, Running
<1>6. \A d \in Emails : d # e => row'[d] = row[d]
  BY <1>1, <1>2 DEF EvidenceInv, Basis, TypeOK
<1>7. \A d \in Emails : d # e => SameRecord(d)
  BY <1>1, <1>2, <1>3, <1>6, DropEffect
<1>8. CommitEffect(q, e)
  BY <1>1, <1>2, <1>5, <1>7, EndFrame DEF CommitEffect
<1>9. QED
  BY <1>2, <1>8, CommitEffectAgrees

\* A review changes neither what fits an email nor what a task shows.
LEMMA CommitReviewAgrees ==
  ASSUME EvidenceInv, NEW q \in Requests, CommitReview(q)
  PROVE  Agreement'
<1>1. /\ op[q] = "review" /\ txn[q] = "written" /\ End(q, "committed")
      /\ UNCHANGED <<stored, links, pages>>
      /\ row' = [row EXCEPT ![target[q]].review = TRUE]
  BY DEF CommitReview
<1>2. PICK e \in Emails : target[q] = e
  BY <1>1, EndFrame
<1>3. UNCHANGED <<op, target, pc, mem>>
  BY <1>1, EndFrame
<1>4. row \in [Emails -> Row]
  BY DEF EvidenceInv, Basis, TypeOK
<1>5. /\ row'[e] = [row[e] EXCEPT !.review = TRUE]
      /\ \A d \in Emails : d # e => row'[d] = row[d]
  BY <1>1, <1>2, <1>4
<1>6. /\ row'[e].status = row[e].status /\ row'[e].stage = row[e].stage
      /\ row'[e].class = row[e].class
      /\ row'[e].confidence = row[e].confidence
      /\ row'[e].linkCount = row[e].linkCount
      /\ row'[e].finalClass = row[e].finalClass
      /\ row'[e].trigger = row[e].trigger
      /\ row'[e].error = row[e].error
  BY <1>4, <1>5 DEF Row
<1>7. \A d : LinksOf(d)' = LinksOf(d) /\ Found(d)' = Found(d)
  BY <1>1, <1>3, SameLinks
<1>8. e \in stored => Fits(e)'
  BY <1>6, <1>7 DEF Fits, EvidenceInv, Agreement, EmailsFit
<1>9. ASSUME NEW p \in Requests, target[p] = e, Live(p), ~Open(p)'
      PROVE  TaskRow(p)' /\ TaskLinks(p)'
  <2>1. p # q
    BY <1>1, <1>9 DEF EvidenceInv, Basis, RequestsMatchTasks, Live, Running
  <2>2. TaskRow(p) /\ TaskLinks(p)
    BY <1>1, <1>9, <2>1, EndFrame
      DEF EvidenceInv, Agreement, TasksShow, Open
  <2>3. target'[p] = e /\ pc'[p] = pc[p] /\ mem'[p] = mem[p]
    BY <1>3, <1>9
  <2>4. /\ Shown(p)' = Shown(p) /\ Early(p)' = Early(p)
        /\ NewLinks(p)' = NewLinks(p)
    BY <2>3 DEF Shown, Early, NewLinks
  <2>5. TaskRow(p)'
    BY <1>1, <1>6, <1>9, <2>2, <2>3, <2>4 DEF TaskRow
  <2>6. /\ LinksOf(target[p])' = LinksOf(target[p])
        /\ Found(target[p])' = Found(target[p])
    BY <1>1, <1>3 DEF LinksOf, Found, PagesOf
  <2>7. TaskLinks(p)'
    BY <2>2, <2>3, <2>4, <2>6 DEF TaskLinks
  <2>8. QED
    BY <2>5, <2>7
<1>10. \A p \in Requests : (target[p] = e /\ Requeuing(p)) => e \in stored
  BY DEF EvidenceInv, Agreement, RequeuesAreAlone
<1>11. \A d \in Emails : d # e => SameRecord(d)
  BY <1>5, <1>7 DEF SameRecord
<1>12. CommitEffect(q, e)
  BY <1>1, <1>2, <1>6, <1>7, <1>8, <1>9, <1>10, <1>11, EndFrame
    DEF CommitEffect
<1>13. QED
  BY <1>2, <1>12, CommitEffectAgrees

-----------------------------------------------------------------------------
(***************************************************************************)
(* Shutdown and restart, and the theorems.                                 *)
(***************************************************************************)

\* Cancelled tasks and aborted requests have no claim on any email.
LEMMA ProcessAgrees ==
  ASSUME EvidenceInv, Process \/ UNCHANGED vars
  PROVE  Agreement'
<1>1. UNCHANGED <<stored, row, links, pages, op, target>>
  BY DEF Process, BeginDrain, Drained, DrainTimesOut, Kill, Start,
    vars, dbVars, reqVars
<1>2. \/ UNCHANGED <<txn, doomed>>
      \/ /\ \A p \in Requests :
              txn'[p] = IF Open(p) THEN "aborted" ELSE txn[p]
         /\ \A p \in Requests : ~Live(p)'
  BY DEF Process, BeginDrain, Drained, DrainTimesOut, Kill, Start, vars,
    reqVars, CancelTasks, Live, Running
<1>3. \/ UNCHANGED <<pc, mem>>
      \/ /\ \A p \in Requests : /\ ~Live(p)'
                                /\ mem'[p] = NoMemory
  BY DEF Process, BeginDrain, Drained, DrainTimesOut, Kill, Start,
    vars, CancelTasks, Live, Running
<1>4. \A p \in Requests : Live(p)' =>
        /\ Live(p) /\ pc'[p] = pc[p] /\ mem'[p] = mem[p]
        /\ UNCHANGED <<pc, mem, txn, doomed>>
  BY <1>2, <1>3 DEF Live
<1>5. \A p \in Requests : /\ Open(p)' => Open(p) /\ UNCHANGED <<txn, doomed>>
                          /\ txn'[p] \in {"open", "unlinked", "written"} =>
                               txn'[p] = txn[p]
  BY <1>2 DEF Open
<1>6. \A d : SameRecord(d)
  BY <1>1, SameLinks DEF SameRecord
<1>7. \A p \in Requests : LinksOf(target[p])' = LinksOf(target[p])
  BY <1>1 DEF LinksOf
<1>8. StoredWereSubmitted'
  BY <1>1 DEF EvidenceInv, Agreement, StoredWereSubmitted
<1>9. SubmitsAreNew'
  BY <1>1, <1>5 DEF EvidenceInv, Agreement, SubmitsAreNew
<1>10. \A p \in Requests : Requeuing(p)' => Requeuing(p)
  BY <1>1, <1>5 DEF Requeuing
<1>11. RequeuesAreAlone'
  BY <1>1, <1>4, <1>10 DEF EvidenceInv, Agreement, RequeuesAreAlone
<1>12. RequeuesDropAll'
  BY <1>1, <1>5, <1>7 DEF EvidenceInv, Agreement, RequeuesDropAll, Open
<1>13. TasksStandBy'
  BY <1>1, <1>4, <1>5 DEF EvidenceInv, Agreement, TasksStandBy
<1>14. FreshMemory'
  BY <1>3 DEF EvidenceInv, Agreement, FreshMemory
<1>15. OneTaskPerEmail'
  BY <1>1, <1>4 DEF EvidenceInv, Agreement, OneTaskPerEmail
<1>16. NewRowsQueued'
  <2> SUFFICES ASSUME NEW d \in Emails,
                      \A p \in Requests : target[p] = d =>
                        (op[p] = "submit" /\ txn'[p] = "written")
               PROVE  row[d] = QueuedRow
    BY <1>1 DEF NewRowsQueued
  <2>1. \A p \in Requests : target[p] = d =>
                        (op[p] = "submit" /\ txn[p] = "written")
    BY <1>5
  <2>2. QED
    BY <2>1 DEF EvidenceInv, Agreement, NewRowsQueued
<1>17. TasksShow'
  <2> SUFFICES ASSUME NEW p \in Requests, Live(p)', ~Open(p)'
               PROVE  TaskRow(p)' /\ TaskLinks(p)'
    BY DEF TasksShow
  <2>1. Live(p) /\ ~Open(p)
    BY <1>4 DEF Open
  <2>2. TaskRow(p) /\ TaskLinks(p)
    BY <2>1 DEF EvidenceInv, Agreement, TasksShow
  <2>3. PICK d : d = target[p]
    OBVIOUS
  <2>4. /\ target'[p] = d /\ pc'[p] = pc[p] /\ mem'[p] = mem[p]
        /\ SameRecord(d) /\ stored' = stored
    BY <1>1, <1>4, <1>6, <2>3
  <2>5. QED
    BY <2>2, <2>3, <2>4, RecordShows
<1>18. EmailsFit'
  BY <1>1, <1>6, RecordFits DEF EvidenceInv, Agreement, EmailsFit
<1>19. QED
  BY <1>8, <1>9, <1>11, <1>12, <1>13, <1>14, <1>15, <1>16, <1>17, <1>18
    DEF Agreement

LEMMA EvidenceInit == Init => EvidenceInv
<1> SUFFICES ASSUME Init
             PROVE  EvidenceInv
  OBVIOUS
<1>1. Basis
  BY RequestsInit DEF Init, Basis, NoOrphanRows, TasksKnowClass
<1>2. \A q \in Requests : ~Live(q) /\ ~Open(q) /\ ~Requeuing(q)
  BY DEF Init, Live, Running, Open, Requeuing
<1>3. SubmitsAreNew /\ RequeuesDropAll /\ FreshMemory /\ NewRowsQueued
  BY DEF Init, SubmitsAreNew, RequeuesDropAll, FreshMemory, NewRowsQueued
<1>4. StoredWereSubmitted /\ EmailsFit
  BY DEF Init, StoredWereSubmitted, EmailsFit
<1>5. RequeuesAreAlone /\ TasksStandBy /\ OneTaskPerEmail /\ TasksShow
  BY <1>2 DEF RequeuesAreAlone, TasksStandBy, OneTaskPerEmail, TasksShow
<1>6. QED
  BY <1>1, <1>3, <1>4, <1>5 DEF EvidenceInv, Agreement

LEMMA EvidenceNext ==
  ASSUME ClientsWait, EvidenceInv, [Next]_vars
  PROVE  EvidenceInv'
<1>1. Basis'
  BY BasisNext DEF EvidenceInv
<1>2. Agreement'
  <2>1. CASE Process \/ UNCHANGED vars
    BY <2>1, ProcessAgrees
  <2>2. ASSUME NEW q \in Requests, Begin(q)
        PROVE  Agreement'
    BY <2>2, SubmitAgrees, ReadAgrees DEF Begin
  <2>3. ASSUME NEW q \in Requests, Statement(q)
        PROVE  Agreement'
    BY <2>3, StatementAgrees
  <2>4. ASSUME NEW q \in Requests, Commit(q)
        PROVE  Agreement'
    BY <2>4, CommitSubmitAgrees, CommitReanalyzeAgrees, CommitReviewAgrees,
      CommitDeleteAgrees DEF Commit
  <2>5. ASSUME NEW q \in Requests, Stage(q)
        PROVE  Agreement'
    BY <2>5, TaskStepAgrees DEF TaskStep
  <2>6. ASSUME NEW q \in Requests, Fault(q)
        PROVE  Agreement'
    BY <2>6, TaskStepAgrees DEF Fault, TaskStep, Rollback, ClientsWait
  <2>7. QED
    BY <2>1, <2>2, <2>3, <2>4, <2>5, <2>6 DEF Next
<1>3. QED
  BY <1>1, <1>2 DEF EvidenceInv

LEMMA EvidenceHolds ==
  ASSUME ClientsWait
  PROVE  Spec => []EvidenceInv
<1>1. Init => EvidenceInv
  BY EvidenceInit
<1>2. EvidenceInv /\ [Next]_vars => EvidenceInv'
  BY EvidenceNext
<1>3. QED
  BY <1>1, <1>2, PTL DEF Spec

\* VerdictMatchesEvidence: as long as clients wait, the verdict of a complete
\* email is the one the rules of stage 4 give for the classification in its
\* row and the page analyses under its links, after any sequence of runs,
\* failures, re-queues, reviews, shutdowns and kills.
THEOREM VerdictsAreEarned ==
  ASSUME ClientsWait
  PROVE  Spec => []VerdictMatchesEvidence
<1>1. EvidenceInv => VerdictMatchesEvidence
  BY DEF EvidenceInv, Agreement, EmailsFit, Fits, Found,
    VerdictMatchesEvidence
<1>2. QED
  BY <1>1, EvidenceHolds, PTL

\* LinksMatchCount: as long as clients wait, a complete email has as many
\* links as its run counted, and none after an early exit: no link of an
\* earlier run is left.
THEOREM LinksAreOfThisRun ==
  ASSUME ClientsWait
  PROVE  Spec => []LinksMatchCount
<1>1. EvidenceInv => LinksMatchCount
  BY DEF EvidenceInv, Agreement, EmailsFit, Fits, LinksMatchCount
<1>2. QED
  BY <1>1, EvidenceHolds, PTL

\* ColumnsMatchStatus: as long as clients wait, a stored email has a verdict
\* exactly if it is complete and an error exactly if it has failed.
THEOREM ColumnsAgree ==
  ASSUME ClientsWait
  PROVE  Spec => []ColumnsMatchStatus
<1>1. EvidenceInv => ColumnsMatchStatus
  BY DEF EvidenceInv, Agreement, EmailsFit, Fits, ColumnsMatchStatus
<1>2. QED
  BY <1>1, EvidenceHolds, PTL

-----------------------------------------------------------------------------
(***************************************************************************)
(* The rules of stage 4, for any number of pages.                          *)
(***************************************************************************)

\* finalise gives every email a verdict; it is never milder than that of stage
\* 1, and pages that are found in addition never make it milder.
THEOREM VerdictsOnlyEscalate ==
  ASSUME NEW email, email.class \in Classes, NEW early \in BOOLEAN,
         NEW P, NEW Q, P \subseteq Q
  PROVE  /\ Finalise(email, P, early).class \in Classes
         /\ Severity(email.class) <= Severity(Finalise(email, P, early).class)
         /\ Severity(Finalise(email, P, early).class)
              <= Severity(Finalise(email, Q, early).class)
<1> DEFINE Verdict(found) ==
             FinalClass(email.class,
                        Trigger(email.class, email.linkCount, found, early))
<1>1. \A batch : Finalise(email, batch, early).class
                   = Verdict(FoundRisks(batch))
  BY DEF Finalise
<1>2. PICK F : F = FoundRisks(P)
  OBVIOUS
<1>3. PICK G : G = FoundRisks(Q)
  OBVIOUS
<1>4. F \subseteq G
  BY <1>2, <1>3 DEF FoundRisks
<1>5. /\ Severity("legitimate") = 0 /\ Severity("suspicious") = 1
      /\ Severity("phishing") = 2
  BY DEF Severity
<1>6. Verdict(F) \in Classes
  BY DEF FinalClass, Trigger, Classes
<1>7. Severity(email.class) <= Severity(Verdict(F))
  BY <1>5 DEF FinalClass, Trigger, Classes
<1>8. Severity(Verdict(F)) <= Severity(Verdict(G))
  BY <1>4, <1>5 DEF FinalClass, Trigger, Classes
<1> HIDE DEF Verdict
<1>9. QED
  BY <1>1, <1>2, <1>3, <1>6, <1>7, <1>8

\* Finitely many integers have a largest one: a smallest set without one could
\* not exist.
LEMMA LargestExists ==
  ASSUME NEW S \in SUBSET Int, IsFiniteSet(S), S # {}
  PROVE  \E c \in S : \A d \in S : d <= c
<1> DEFINE Topped(T) == \E c \in T : \A d \in T : d <= c
           Bad == {T \in SUBSET S : T # {} /\ ~Topped(T)}
<1>1. Bad = {}
  <2> SUFFICES ASSUME Bad # {}
               PROVE  FALSE
    OBVIOUS
  <2>1. IsWellFoundedOn(StrictSubsetOrdering(S), FiniteSubsetsOf(S))
    BY FS_StrictSubsetOrderingWellFounded
  <2>2. Bad \subseteq FiniteSubsetsOf(S)
    BY FS_FiniteSubsetsOfFinite
  <2>3. PICK T \in Bad : \A U \in Bad : ~ (<<U, T>> \in StrictSubsetOrdering(S))
    <3> HIDE DEF Bad
    <3>1. QED
      BY <2>1, <2>2, WFMin
  <2>4. T \in SUBSET S /\ ~Topped(T)
    BY <2>3
  <2>5. PICK x \in T : x \in Int
    BY <2>3
  <2>6. T \ {x} \notin Bad
    <3>1. T \ {x} \in SUBSET S /\ T \ {x} \subseteq T /\ T \ {x} # T
      BY <2>4, <2>5
    <3> HIDE DEF Bad
    <3>2. QED
      BY <2>3, <2>4, <3>1 DEF StrictSubsetOrdering
  <2>7. CASE T \ {x} = {}
    BY <2>4, <2>5, <2>7
  <2>8. CASE T \ {x} # {}
    <3>1. Topped(T \ {x})
      BY <2>4, <2>6, <2>8
    <3>2. PICK c \in T \ {x} : \A d \in T \ {x} : d <= c
      BY <3>1
    <3>3. c \in Int /\ \A d \in T : d \in Int
      BY <2>4
    <3>4. c < x \/ x <= c
      BY <2>5, <3>3
    <3>5. \A d \in T : d = x \/ d <= c
      BY <3>2
    <3>6. Topped(T)
      <4>1. c < x => \A d \in T : d <= x
        BY <2>5, <3>3, <3>5
      <4>2. x <= c => \A d \in T : d <= c
        BY <2>5, <3>3, <3>5
      <4>3. QED
        BY <3>4, <4>1, <4>2, <2>5
    <3>7. QED
      BY <2>4, <3>6
  <2>9. QED
    BY <2>7, <2>8
<1>2. Topped(S)
  BY <1>1
<1>3. QED
  BY <1>2

\* Of the pages of one risk level, if there are any, the most confident counts;
\* a page without a confidence counts as 0.
LEMMA BestOfRisk ==
  ASSUME NEW batch, IsFiniteSet(batch), \A p \in batch : p.confidence \in Int,
         NEW risk \in FoundRisks(batch)
  PROVE  /\ \E p \in batch : /\ p.risk = risk
                             /\ BestConfidence(batch, risk) = Conf(p.confidence)
         /\ \A p \in batch : p.risk = risk =>
              Conf(p.confidence) <= BestConfidence(batch, risk)
<1> DEFINE R == {p \in batch : p.risk = risk}
           conf == [p \in R |-> Conf(p.confidence)]
           C == {Conf(p.confidence) : p \in R}
<1>1. IsFiniteSet(R)
  BY FS_Subset
<1>2. IsFiniteSet(C)
  <2>1. conf \in [R -> C] /\ \A c \in C : \E p \in R : conf[p] = c
    OBVIOUS
  <2> HIDE DEF R, C, conf
  <2>2. conf \in Surjection(R, C)
    BY <2>1, Fun_IsSurj
  <2>3. QED
    BY <1>1, <2>2, FS_Surjection
<1>3. C \in SUBSET Int /\ C # {}
  BY DEF Conf, FoundRisks
<1>4. BestConfidence(batch, risk) = CHOOSE c \in C : \A d \in C : d <= c
  BY DEF BestConfidence
<1>5. \E c \in C : \A d \in C : d <= c
  <2> HIDE DEF C
  <2>1. QED
    BY <1>2, <1>3, LargestExists
<1>6. PICK best : best = BestConfidence(batch, risk)
  OBVIOUS
<1>7. best \in C /\ \A d \in C : d <= best
  <2> HIDE DEF C
  <2>1. QED
    BY <1>4, <1>5, <1>6
<1>8. QED
  BY <1>6, <1>7

\* The confidence of a verdict that a page decides is that of a page of the
\* deciding risk level, and of the most confident one; otherwise it is that of
\* stage 1.
THEOREM ConfidencesAreDecisive ==
  ASSUME NEW email, email.class \in Classes, NEW early \in BOOLEAN,
         NEW batch, IsFiniteSet(batch), \A p \in batch : p.confidence \in Int
  PROVE  LET out == Finalise(email, batch, early)
             Decides(p) == \/ out.trigger = "page_high_risk" /\ p.risk = "high"
                           \/ out.trigger = "page_medium_risk" /\ p.risk = "medium"
         IN  /\ (\E p \in batch : Decides(p)) =>
                  /\ \E p \in batch : /\ Decides(p)
                                      /\ out.confidence = Conf(p.confidence)
                  /\ \A p \in batch : Decides(p) =>
                       Conf(p.confidence) <= out.confidence
             /\ (\A p \in batch : ~Decides(p)) =>
                  out.confidence = email.confidence
<1> DEFINE t == Trigger(email.class, email.linkCount, FoundRisks(batch), early)
           out == Finalise(email, batch, early)
<1>1. /\ out.trigger = t
      /\ out.confidence = FinalConfidence(email.confidence, t, batch)
  BY DEF Finalise
<1>2. /\ t = "page_high_risk" => "high" \in FoundRisks(batch)
      /\ t = "page_medium_risk" => "medium" \in FoundRisks(batch)
  BY DEF Trigger
<1> HIDE DEF t, out
<1>3. CASE t = "page_high_risk"
  <2>1. \E p \in batch : p.risk = "high"
    BY <1>2, <1>3 DEF FoundRisks
  <2>2. out.confidence = BestConfidence(batch, "high")
    BY <1>1, <1>3 DEF FinalConfidence
  <2>3. QED
    BY <1>1, <1>2, <1>3, <2>1, <2>2, BestOfRisk DEF out
<1>4. CASE t = "page_medium_risk"
  <2>1. \E p \in batch : p.risk = "medium"
    BY <1>2, <1>4 DEF FoundRisks
  <2>2. out.confidence = BestConfidence(batch, "medium")
    BY <1>1, <1>4 DEF FinalConfidence
  <2>3. QED
    BY <1>1, <1>2, <1>4, <2>1, <2>2, BestOfRisk DEF out
<1>5. CASE t \notin {"page_high_risk", "page_medium_risk"}
  BY <1>1, <1>5 DEF FinalConfidence, out
<1>6. QED
  BY <1>3, <1>4, <1>5
=============================================================================
