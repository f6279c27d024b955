--------------------------- MODULE DashboardReads ---------------------------
(***************************************************************************)
(* The read endpoints of the dashboard, while InferencePipeline goes on    *)
(* writing: the detail of one email, the summary and the model usage of a  *)
(* window, and a client that walks through the list page by page.          *)
(*                                                                         *)
(* The session of a read (get_db_readonly) runs at READ COMMITTED, so each *)
(* SELECT sees a snapshot of its own, and commits of the pipeline fall     *)
(* between the SELECTs of one answer.  A SELECT is one step here.  What    *)
(* has been committed since the read began is kept in moved and kept,      *)
(* history that no step depends on; the properties use it to say when an   *)
(* answer has to be consistent.                                            *)
(*                                                                         *)
(* One read at a time is enough: reads change nothing and do not see each  *)
(* other.  A process that dies takes its read with it; here the read may   *)
(* go on, which only adds to what is shown.                                *)
(***************************************************************************)
EXTENDS InferencePipeline, Sequences, Functions, SequencesExt

CONSTANTS
  ReceivedAt,    \* when each email was received, as its submitter says
  Windows,       \* the windows <<start, end>> statistics are asked for
  Filters,       \* the list filters clients use
  PageSize,      \* pageSize of the list
  BucketLength   \* date_trunc: a day or a week

\* No filter, one on the effective classification, one on the status.
AllFilters == {"any"} \cup Classes \cup Statuses

ASSUME TimeAssumption   == /\ ReceivedAt \in [Emails -> Nat]
                           /\ Windows \subseteq Nat \X Nat
                           /\ BucketLength \in Nat \ {0}
ASSUME ListAssumption   == /\ PageSize \in Nat \ {0}
                           /\ Filters \subseteq AllFilters
\* A database holds finitely many emails.
ASSUME FiniteAssumption == IsFiniteSet(Emails)

VARIABLES
  kind,      \* the read that is being answered
  about,     \* the email, the window or the filter it asks for
  step,      \* how many of its statements have run
  shown,     \* what these statements returned
  answered,  \* whether the answer is complete
  moved,     \* what happened since to the emails the read is about
  kept       \* the emails that have matched the filter ever since

readVars == <<kind, about, step, shown, answered, moved, kept>>
allVars  == <<vars, readVars>>

Kinds == {"none", "detail", "summary", "usage", "walk"}
Moves == {"added", "removed", "requeued", "unlisted"}

-----------------------------------------------------------------------------
(***************************************************************************)
(* The queries.                                                            *)
(***************************************************************************)
\* coalesce(final_classification, classification).
Effective(e) ==
  IF row[e].finalClass # Null THEN row[e].finalClass ELSE row[e].class

InWindow(w) == {e \in stored : w[1] <= ReceivedAt[e] /\ ReceivedAt[e] <= w[2]}

Count(S, P(_)) == Cardinality({e \in S : P(e)})

\* Mutant: emails that have no classification yet are skipped.
ClassifiedCounts(w) ==
  [c \in Classes \cup {Null} |->
     IF c = Null THEN 0 ELSE Count(InWindow(w), LAMBDA e : Effective(e) = c)]

\* The summary, one query each: by class (pending stands for none), ...
ClassificationCounts(w) ==
  [c \in Classes \cup {Null} |->
     Count(InWindow(w), LAMBDA e : Effective(e) = c)]

\* ... by status, ...
PipelineStatusCounts(w) ==
  [s \in Statuses |-> Count(InWindow(w), LAMBDA e : row[e].status = s)]

\* ... and by what decided: early exits, and escalations by a page.
EarlyExits(w) == Count(InWindow(w), LAMBDA e : row[e].trigger = "early_exit")
Escalations(w) ==
  Count(InWindow(w),
        LAMBDA e : row[e].trigger \in {"page_high_risk", "page_medium_risk"})

\* The average is NULL if no email has a final confidence.
AverageIsNull(w) == \A e \in InWindow(w) : row[e].finalClass = Null

\* Mutant: every page counts as a call.
PagesAnalysed(w) == Cardinality({p \in pages : target[p[1][1]] \in InWindow(w)})

\* The model of stage 1 is stored with its answer; the calls of stage 3 are
\* the emails that have an analysed page (count distinct email_id).
Stage1Count(w) == Count(InWindow(w), LAMBDA e : row[e].class # Null)
Stage3Count(w) == Count(InWindow(w), LAMBDA e : PagesOf(LinksOf(e)) # {})

\* Mutant: only final classifications are counted.
FinalVerdictsOverTime(w) ==
  [b \in {ReceivedAt[e] \div BucketLength : e \in InWindow(w)} |->
     [c \in Classes |-> Count(InWindow(w),
        LAMBDA e : /\ ReceivedAt[e] \div BucketLength = b
                   /\ row[e].finalClass = c)]]

\* Emails with an effective classification, by bucket and class.
VerdictsOverTime(w) ==
  [b \in {ReceivedAt[e] \div BucketLength : e \in InWindow(w)} |->
     [c \in Classes |-> Count(InWindow(w),
        LAMBDA e : /\ ReceivedAt[e] \div BucketLength = b
                   /\ Effective(e) = c)]]

TriggerBreakdown(w) ==
  [t \in Triggers |-> Count(InWindow(w), LAMBDA e : row[e].trigger = t)]

\* list_with_filters: the emails that match, ...
Matching(f) ==
  {e \in stored : CASE f = "any"      -> TRUE
                    [] f \in Classes  -> Effective(e) = f
                    [] f \in Statuses -> row[e].status = f}

\* ... latest first; nothing orders emails that were received together.
Listings(f) ==
  {s \in SetToSeqs(Matching(f)) :
     \A i, j \in DOMAIN s : i < j => ReceivedAt[s[i]] >= ReceivedAt[s[j]]}

\* Mutant: pages counted from 0.
OffsetFromZero(page) == page * PageSize

Offset(page) == (page - 1) * PageSize

PageOf(list, page) ==
  SubSeq(list, Offset(page) + 1,
               Min({Offset(page) + PageSize, Len(list)}))

-----------------------------------------------------------------------------
(***************************************************************************)
(* Answering.                                                              *)
(***************************************************************************)
\* Mutant: the row is read after what belongs to it.
RowLast == [detail  |-> <<"links", "pages", "row">>,
            summary |-> <<"total", "classes", "statuses", "early",
                          "escalated", "average">>,
            usage   |-> <<"stage1", "stage3", "saved">>]

\* The SELECTs of an answer.  selectinload reads the links after the row, and
\* the page analyses after the links.
Statements == [detail  |-> <<"row", "links", "pages">>,
               summary |-> <<"total", "classes", "statuses", "early",
                             "escalated", "average">>,
               usage   |-> <<"stage1", "stage3", "saved">>]

Result(statement) ==
  CASE statement = "row"       -> row[about]
    [] statement = "links"     -> LinksOf(about)
    [] statement = "pages"     -> PagesOf(shown["links"])
    [] statement = "total"     -> Cardinality(InWindow(about))
    [] statement = "classes"   -> ClassificationCounts(about)
    [] statement = "statuses"  -> PipelineStatusCounts(about)
    [] statement = "early"     -> EarlyExits(about)
    [] statement = "escalated" -> Escalations(about)
    [] statement = "average"   -> AverageIsNull(about)
    [] statement = "stage1"    -> Stage1Count(about)
    [] statement = "stage3"    -> Stage3Count(about)
    [] statement = "saved"     -> EarlyExits(about)

Show(statement, result) ==
  shown' = [s \in DOMAIN shown \cup {statement} |->
              IF s = statement THEN result ELSE shown[s]]

InitReads ==
  /\ Init
  /\ kind = "none" /\ about = NoEmail /\ step = 0 /\ shown = << >>
  /\ answered = FALSE /\ moved = {} /\ kept = {}

Ask(k, what, matching) ==
  /\ phase = "serving"
  /\ kind = "none"
  /\ kind' = k
  /\ about' = what
  /\ kept' = matching
  /\ UNCHANGED <<vars, step, shown, answered, moved>>

AskDetail(e)  == Ask("detail", e, {})
AskSummary(w) == Ask("summary", w, {})
AskUsage(w)   == Ask("usage", w, {})
StartWalk(f)  == Ask("walk", f, Matching(f))

\* The next SELECT.  No row: a 404, and nothing else is read.
Select ==
  /\ kind \in DOMAIN Statements
  /\ ~answered
  /\ LET statement == Statements[kind][step + 1]
         missing   == statement = "row" /\ about \notin stored
     IN  /\ IF missing THEN UNCHANGED shown ELSE Show(statement, Result(statement))
         /\ answered' = (missing \/ step + 1 = Len(Statements[kind]))
  /\ step' = step + 1
  /\ UNCHANGED <<vars, kind, about, moved, kept>>

\* GET /emails once more, for the next page.  (The total, a SELECT of its own
\* before this one, is not used.)  The client stops at a page that is short.
FetchPage ==
  /\ kind = "walk"
  /\ ~answered
  /\ \E list \in Listings(about) :
       LET page == PageOf(list, step + 1)
       IN  /\ Show("seen", ToSet(page) \cup
                           IF step = 0 THEN {} ELSE shown["seen"])
           /\ answered' = (Len(page) < PageSize)
  /\ step' = step + 1
  /\ UNCHANGED <<vars, kind, about, moved, kept>>

\* The answer is on its way and the session is closed.
Close ==
  /\ answered
  /\ kind' = "none" /\ about' = NoEmail /\ step' = 0 /\ shown' = << >>
  /\ answered' = FALSE /\ moved' = {} /\ kept' = {}
  /\ UNCHANGED vars

\* The emails the read is about.
Scope == CASE kind = "none"                 -> {}
           [] kind = "detail"               -> {about}
           [] kind \in {"summary", "usage"} ->
                {e \in Emails : /\ about[1] <= ReceivedAt[e]
                                /\ ReceivedAt[e] <= about[2]}
           [] kind = "walk"                 -> Emails

Requeues(e) == \E q \in Requests : /\ op[q] = "reanalyze" /\ target[q] = e
                                   /\ txn[q] = "written"
                                   /\ txn'[q] = "committed"

\* A step of the pipeline, and what it means for the read.
Write ==
  /\ Next
  /\ UNCHANGED <<kind, about, step, shown, answered>>
  /\ moved' = moved
       \cup {m \in {"added"}    : Scope \cap (stored' \ stored) # {}}
       \cup {m \in {"removed"}  : Scope \cap (stored \ stored') # {}}
       \cup {m \in {"requeued"} : \E e \in Scope : Requeues(e)}
       \cup {m \in {"unlisted"} : /\ kind = "walk"
                                  /\ ~(Matching(about) \subseteq Matching(about)')}
  /\ kept' = IF kind = "walk" THEN kept \cap Matching(about)' ELSE {}

NextReads ==
  \/ Write
  \/ \E e \in Emails : AskDetail(e)
  \/ \E w \in Windows : AskSummary(w) \/ AskUsage(w)
  \/ \E f \in Filters : StartWalk(f)
  \/ Select
  \/ FetchPage
  \/ Close

SpecReads == InitReads /\ [][NextReads]_allVars

-----------------------------------------------------------------------------
(***************************************************************************)
(* The answers.                                                            *)
(***************************************************************************)
Answered(k) == answered /\ kind = k
Calm(ms)    == moved \cap ms = {}
Sum(f)      == FoldFunction(+, 0, f)

\* PageAnalysisResponse and LinkWithPageResponse: the risk of the link's page,
\* if it has one.
PageAnalysisShown(l) == {p[2] : p \in {x \in shown["pages"] : x[1] = l}}
LinkWithPage(l)      == [link |-> l, risks |-> PageAnalysisShown(l)]

\* EmailDetailResponse.
EmailDetail == [row   |-> shown["row"],
                links |-> {LinkWithPage(l) : l \in shown["links"]}]

SummaryStats ==
  [total            |-> shown["total"],
   byClassification |-> shown["classes"],
   byPipelineStatus |-> shown["statuses"],
   earlyExitCount   |-> shown["early"],
   escalationCount  |-> shown["escalated"],
   noAverage        |-> shown["average"]]

\* groq, gemini and total_saved.
ApiCallsEstimated == [groq   |-> shown["stage1"],
                      gemini |-> shown["stage3"],
                      saved  |-> shown["saved"]]

-----------------------------------------------------------------------------
(***************************************************************************)
(* Properties.                                                             *)
(***************************************************************************)
ReadsTypeOK ==
  /\ kind \in Kinds
  /\ about \in Emails \cup {NoEmail} \cup Windows \cup Filters
  /\ step \in Nat
  /\ \A s \in DOMAIN shown \cap {"total", "early", "escalated",
                               "stage1", "stage3", "saved"} :
       shown[s] \in 0 .. Cardinality(Emails)
  /\ answered \in BOOLEAN
  /\ moved \subseteq Moves
  /\ kept \subseteq Emails

\* A detail that says complete shows the evidence for its verdict: every link
\* that was counted, and pages that give the trigger and the class, although
\* row, links and pages are read by three SELECTs and the run may finish
\* between them.  (Unless the email is re-queued or deleted meanwhile; clients
\* wait, no request rolls back and submits commit in time.)
DetailShowsEvidence ==
  (Answered("detail") /\ "row" \in DOMAIN shown /\ Calm({"requeued", "removed"})) =>
    LET r     == EmailDetail.row
        found == UNION {l.risks : l \in EmailDetail.links}
    IN  r.status = "complete" =>
          /\ r.trigger = Trigger(r.class, r.linkCount, found,
                                 EarlyExit(r.class, r.confidence))
          /\ r.finalClass = FinalClass(r.class, r.trigger)
          /\ Cardinality(EmailDetail.links) =
               IF r.trigger = "early_exit" THEN 0 ELSE r.linkCount

\* The numbers of a summary add up although six SELECTs count them while runs
\* go on: every email of the window is in one class or pending, and in one
\* status; early exits and escalations are disjoint; and completed emails have
\* an average.  (Unless the window gains or loses emails, and for the last
\* two, unless one is re-queued; clients wait, no request rolls back and
\* submits commit in time.)
SummaryAddsUp ==
  (Answered("summary") /\ Calm({"added", "removed"})) =>
    LET s == SummaryStats
    IN  /\ Sum(s.byClassification) = s.total
        /\ Sum(s.byPipelineStatus) = s.total
        /\ Calm({"requeued"}) =>
             /\ s.earlyExitCount + s.escalationCount <= s.total
             /\ s.byPipelineStatus["complete"] > 0 => ~s.noAverage

\* An email counts as a saved call or as a call of Gemini, never as both, and
\* not for more calls than the window has emails, however many pages it has.
\* (Unless the window loses an email or one is re-queued between the SELECTs;
\* clients wait, no request rolls back and submits commit in time.)
UsageAddsUp ==
  (Answered("usage") /\ Calm({"removed", "requeued"})) =>
    LET u == ApiCallsEstimated
    IN  u.gemini + u.saved <= Cardinality(InWindow(about))

\* A client that walks until a page is short has seen every email that matched
\* all the while, although emails arrive between the pages and shift the
\* offsets.  (Unless an email leaves the list meanwhile or two were received at
\* the same time.)
WalkFindsAll ==
  (Answered("walk") /\ Calm({"unlisted"}) /\ IsInjective(ReceivedAt)) =>
    kept \subseteq shown["seen"]

\* On one snapshot the charts agree with the summary: the buckets of a class
\* add up to its count, and the triggers to the number of complete emails,
\* whatever the runs have stored so far.  (Clients wait, no request rolls back
\* and submits commit in time.)
ChartsAgree ==
  \A w \in Windows :
    /\ \A c \in Classes :
         Sum([b \in DOMAIN VerdictsOverTime(w) |-> VerdictsOverTime(w)[b][c]])
           = ClassificationCounts(w)[c]
    /\ Sum(TriggerBreakdown(w)) = PipelineStatusCounts(w)["complete"]
=============================================================================
