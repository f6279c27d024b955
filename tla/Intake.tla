------------------------------- MODULE Intake -------------------------------
(***************************************************************************)
(* How emails come in: POST /emails/analyze of the extension, which has    *)
(* Groq classify the email while the extension waits and then hands it to  *)
(* the pipeline, and POST /emails/batch of the dashboard.  And the         *)
(* dashboard's reads, as far as they compete for connections.              *)
(*                                                                         *)
(* A request keeps one database connection from its first statement to its *)
(* end.  The hand-off wants a second one from the same pool, a read wants  *)
(* one beside the one its user was looked up with, and the tasks that      *)
(* requests spawn want theirs.  get_db commits after the response is sent. *)
(***************************************************************************)
EXTENDS Integers, FiniteSets

CONSTANTS
  Analyses,    \* requests of the extension
  Batches,     \* requests of the dashboard that submit emails
  Reads,       \* and that read
  PoolSize,    \* pool_size + max_overflow
  BatchMax,    \* inference.pipeline.batch_max_size
  Sizes,       \* the numbers of emails batches come with
  Says,        \* the verdicts Groq may give in each analysis
  AlertAt      \* inference.alert_threshold, in hundredths

Requests == Analyses \cup Batches \cup Reads

ASSUME RequestsAssumption ==
  /\ IsFiniteSet(Requests)
  /\ Analyses \cap (Batches \cup Reads) = {} /\ Batches \cap Reads = {}
ASSUME BoundsAssumption   == PoolSize \in Nat \ {0} /\ BatchMax \in Nat
ASSUME SizesAssumption    == Sizes \subseteq Nat

Classes  == {"phishing", "suspicious", "legitimate"}
Verdicts == [class : Classes, confidence : Int]  \* in hundredths
NoVerdict == [class |-> "none", confidence |-> 0]

ASSUME VerdictAssumption == Says \in [Analyses -> SUBSET Verdicts] /\ AlertAt \in Int

VARIABLES
  pc,      \* where each request is
  answer,  \* what it has been answered
  tries,   \* the calls of Groq an analysis is making
  verdict, \* what Groq has said
  event,   \* the label of its committed analyse event
  email,   \* how far the email it has handed off is
  size,    \* the number of emails in a batch
  next,    \* the item at which its loop is
  listed,  \* the items the answer calls submitted
  wrote,   \* the rows in its transaction
  dead,    \* its transaction was rolled back by a failed flush
  kept,    \* the items whose rows were committed
  free,    \* connections the pool has left
  queued,  \* spawned tasks that wait for a connection
  using    \* spawned tasks that have one

analyseVars == <<tries, verdict, event, email>>
batchVars   == <<size, next, listed, wrote, dead, kept>>
poolVars    == <<free, queued, using>>
vars == <<pc, answer, analyseVars, batchVars, poolVars>>

Items   == 1 .. BatchMax
Labels  == {"SPAM", "NOT_SPAM", "REVIEW"}
Answers == {"none", "refused", "error", "listed", "shown"} \cup Labels

\* Where a request has one connection, and where it has two.
OneHeld == {"admitting", "admitted", "asking", "judged", "noted", "working", "sent"}
TwoHeld == {"submitting", "spawned", "reading"}
Places  == {"idle", "entering", "ended"} \cup OneHeld \cup TwoHeld

TypeOK ==
  /\ pc \in [Requests -> Places]
  /\ answer \in [Requests -> Answers]
  /\ tries \in [Analyses -> 0 .. 2]
  /\ verdict \in [Analyses -> Verdicts \cup {NoVerdict}]
  /\ event \in [Analyses -> Labels \cup {"none"}]
  /\ email \in [Analyses -> {"none", "inserted", "lost", "stored"}]
  /\ size \in [Batches -> Sizes]
  /\ next \in [Batches -> 1 .. BatchMax + 1]
  /\ listed \in [Batches -> SUBSET Items]
  /\ wrote \in [Batches -> SUBSET Items]
  /\ dead \in [Batches -> BOOLEAN]
  /\ kept \in [Batches -> SUBSET Items]
  /\ free \in 0 .. PoolSize
  /\ queued \in Nat
  /\ using \in Nat

Init ==
  /\ pc = [q \in Requests |-> "idle"]
  /\ answer = [q \in Requests |-> "none"]
  /\ tries = [q \in Analyses |-> 0]
  /\ verdict = [q \in Analyses |-> NoVerdict]
  /\ event = [q \in Analyses |-> "none"]
  /\ email = [q \in Analyses |-> "none"]
  /\ size \in [Batches -> Sizes]
  /\ next = [q \in Batches |-> 1]
  /\ listed = [q \in Batches |-> {}]
  /\ wrote = [q \in Batches |-> {}]
  /\ dead = [q \in Batches |-> FALSE]
  /\ kept = [q \in Batches |-> {}]
  /\ free = PoolSize /\ queued = 0 /\ using = 0

-----------------------------------------------------------------------------
(***************************************************************************)
(* From Groq's verdict to the extension's label: the adapter in src/core   *)
(* and the analyse service, in hundredths.                                 *)
(***************************************************************************)
ReviewLow  == 40
ReviewHigh == 60

PhishingProbability(v) ==
  CASE v.class = "phishing"   -> v.confidence
    [] v.class = "legitimate" -> IF v.confidence > 100 THEN 0 ELSE 100 - v.confidence
    [] OTHER                  -> (ReviewLow + ReviewHigh) \div 2

\* predicted_label: 0.5 is not below the decision threshold.
PredictsPhishing(v) == v.class # "legitimate"

\* Mutant: the band is open.
OpenBandLabel(v) ==
  IF ReviewLow < PhishingProbability(v) /\ PhishingProbability(v) < ReviewHigh
    THEN "REVIEW"
    ELSE IF PredictsPhishing(v) THEN "SPAM" ELSE "NOT_SPAM"

MapLabel(v) ==
  IF ReviewLow <= PhishingProbability(v) /\ PhishingProbability(v) <= ReviewHigh
    THEN "REVIEW"
    ELSE IF PredictsPhishing(v) THEN "SPAM" ELSE "NOT_SPAM"

ShouldAlert(v) == MapLabel(v) = "SPAM" /\ PhishingProbability(v) >= AlertAt

-----------------------------------------------------------------------------
(***************************************************************************)
(* A request comes in, waits for its connection and is authenticated.      *)
(***************************************************************************)
GoTo(q, place) == pc' = [pc EXCEPT ![q] = place]

\* What an analysis remembers is gone with it.
Forget(q) ==
  /\ tries' = [p \in Analyses |-> IF p = q THEN 0 ELSE tries[p]]
  /\ verdict' = [p \in Analyses |-> IF p = q THEN NoVerdict ELSE verdict[p]]

\* The request ends with a, an exception on its way through get_db: its
\* transaction is rolled back and its connection goes back.
Raise(q, a) ==
  /\ GoTo(q, "ended")
  /\ answer' = [answer EXCEPT ![q] = a]
  /\ Forget(q)
  /\ free' = free + 1
  /\ UNCHANGED <<event, email, batchVars, queued, using>>

\* Without a token it is refused before its first statement.
Arrive(q) ==
  /\ pc[q] = "idle"
  /\ \/ GoTo(q, "entering") /\ UNCHANGED answer
     \/ GoTo(q, "ended") /\ answer' = [answer EXCEPT ![q] = "refused"]
  /\ UNCHANGED <<analyseVars, batchVars, poolVars>>

Connect(q) ==
  /\ pc[q] = "entering" /\ free > 0
  /\ GoTo(q, "admitting")
  /\ free' = free - 1
  /\ UNCHANGED <<answer, analyseVars, batchVars, queued, using>>

\* pool_timeout: QueuePool raises.
PoolTimesOut(q) ==
  /\ pc[q] = "entering" /\ free = 0
  /\ GoTo(q, "ended")
  /\ answer' = [answer EXCEPT ![q] = "error"]
  /\ UNCHANGED <<analyseVars, batchVars, poolVars>>

Refuse(q) ==
  /\ pc[q] = "admitting"
  /\ Raise(q, "refused")

\* A statement fails: the token's or the user's row cannot be read, or the
\* event cannot be inserted.
Fail(q) ==
  /\ pc[q] \in {"admitting", "judged"}
  /\ Raise(q, "error")

\* require_install also spawns the bump of last_seen_at.
AdmitAnalysis(q) ==
  /\ pc[q] = "admitting"
  /\ GoTo(q, "admitted")
  /\ queued' = queued + 1
  /\ UNCHANGED <<answer, analyseVars, batchVars, free, using>>

-----------------------------------------------------------------------------
(***************************************************************************)
(* POST /emails/analyze                                                    *)
(***************************************************************************)
\* The rate limit, no detector, a body that is invalid or too large.
Decline(q) ==
  /\ pc[q] = "admitted"
  /\ Raise(q, "refused")

CallGroq(q) ==
  /\ pc[q] = "admitted"
  /\ GoTo(q, "asking")
  /\ tries' = [tries EXCEPT ![q] = 1]
  /\ UNCHANGED <<answer, verdict, event, email, batchVars, poolVars>>

GroqAnswers(q) ==
  /\ pc[q] = "asking"
  /\ \E v \in Says[q] : verdict' = [verdict EXCEPT ![q] = v]
  /\ tries' = [tries EXCEPT ![q] = 0]
  /\ GoTo(q, "judged")
  /\ UNCHANGED <<answer, event, email, batchVars, poolVars>>

\* Mutant: every failed call is made once more.
RetryAlways(q) ==
  /\ pc[q] = "asking"
  /\ tries' = [tries EXCEPT ![q] = @ + 1]
  /\ UNCHANGED <<pc, answer, verdict, event, email, batchVars, poolVars>>

\* A call that could not be made or was one too many (429) is made once more.
Retry(q) ==
  /\ pc[q] = "asking" /\ tries[q] = 1
  /\ tries' = [tries EXCEPT ![q] = 2]
  /\ UNCHANGED <<pc, answer, verdict, event, email, batchVars, poolVars>>

\* Two calls have failed, or Groq has refused one or answered something that
\* is no verdict (503, or 500 if the body is no JSON).
GroqFails(q) ==
  /\ pc[q] = "asking"
  /\ Raise(q, "error")

\* The event is inserted, not committed.
NoteEvent(q) ==
  /\ pc[q] = "judged"
  /\ GoTo(q, "noted")
  /\ UNCHANGED <<answer, analyseVars, batchVars, poolVars>>

\* Mutant: the hand-off goes before the event.
EmailBeforeEvent(q) ==
  /\ pc[q] = "judged" /\ email[q] = "none" /\ free > 0
  /\ email' = [email EXCEPT ![q] = "stored"]
  /\ queued' = queued + 1
  /\ UNCHANGED <<pc, answer, tries, verdict, event, batchVars, free, using>>

\* The submitter opens a session of its own ...
Borrow(q) ==
  /\ pc[q] = "noted" /\ free > 0
  /\ GoTo(q, "submitting")
  /\ free' = free - 1
  /\ UNCHANGED <<answer, analyseVars, batchVars, queued, using>>

\* What the hand-off comes to does not change the answer.
Respond(q) ==
  /\ GoTo(q, "sent")
  /\ answer' = [answer EXCEPT ![q] = MapLabel(verdict[q])]
  /\ UNCHANGED <<tries, verdict, event, batchVars, using>>

\* Mutant: an email that cannot be handed off is an error.
SurfaceTimeout(q) ==
  /\ pc[q] = "noted" /\ free = 0
  /\ Raise(q, "error")

\* Mutant: the pool has no timeout.
WaitForEver(q) == pc[q] = "noted" /\ FALSE

\* ... unless there is no connection for it in time,
BorrowTimesOut(q) ==
  /\ pc[q] = "noted" /\ free = 0
  /\ Respond(q)
  /\ UNCHANGED <<email, free, queued>>

\* inserts the email and spawns its run,
InsertEmail(q) ==
  /\ pc[q] = "submitting"
  /\ GoTo(q, "spawned")
  /\ email' = [email EXCEPT ![q] = "inserted"]
  /\ queued' = queued + 1
  /\ UNCHANGED <<answer, tries, verdict, event, batchVars, free, using>>

\* Mutant: the session of a hand-off that failed is not closed.
LeakConnection(q) ==
  /\ pc[q] = "submitting"
  /\ Respond(q)
  /\ UNCHANGED <<email, free, queued>>

InsertEmailFails(q) ==
  /\ pc[q] = "submitting"
  /\ Respond(q)
  /\ free' = free + 1
  /\ UNCHANGED <<email, queued>>

\* and commits, or fails to.
CommitEmail(q) ==
  /\ pc[q] = "spawned"
  /\ Respond(q)
  /\ \E e \in {"stored", "lost"} : email' = [email EXCEPT ![q] = e]
  /\ free' = free + 1
  /\ UNCHANGED queued

\* get_db: the commit comes after the response, and it may fail.
CommitEvent(q) ==
  /\ pc[q] = "sent"
  /\ GoTo(q, "ended")
  /\ event' \in {event, [event EXCEPT ![q] = MapLabel(verdict[q])]}
  /\ Forget(q)
  /\ free' = free + 1
  /\ UNCHANGED <<answer, email, batchVars, queued, using>>

-----------------------------------------------------------------------------
(***************************************************************************)
(* POST /emails/batch: the submits of a batch share its transaction.       *)
(***************************************************************************)
\* None or too many.
RefuseSize(q) ==
  /\ pc[q] = "admitting" /\ size[q] \notin Items
  /\ Raise(q, "refused")

AdmitBatch(q) ==
  /\ pc[q] = "admitting" /\ size[q] \in Items
  /\ GoTo(q, "working")
  /\ UNCHANGED <<answer, analyseVars, batchVars, poolVars>>

AtItem(q) ==
  /\ pc[q] = "working" /\ next[q] <= size[q]
  /\ next' = [next EXCEPT ![q] = @ + 1]
  /\ UNCHANGED <<pc, answer, analyseVars, size, kept, free, using>>

\* The row is inserted and the run is spawned.
SubmitItem(q) ==
  /\ ~dead[q]
  /\ AtItem(q)
  /\ listed' = [listed EXCEPT ![q] = @ \cup {next[q]}]
  /\ wrote' = [wrote EXCEPT ![q] = @ \cup {next[q]}]
  /\ queued' = queued + 1
  /\ UNCHANGED dead

\* The submit raises, before the flush or because the transaction is dead.
RejectItem(q) ==
  /\ AtItem(q)
  /\ UNCHANGED <<listed, wrote, dead, queued>>

\* Mutant: the session is rolled back and goes on with the next item.
StartOver(q) ==
  /\ ~dead[q]
  /\ AtItem(q)
  /\ wrote' = [wrote EXCEPT ![q] = {}]
  /\ UNCHANGED <<listed, dead, queued>>

\* The flush fails: PostgreSQL drops the rows of the items before, and the
\* session refuses to go on, but nobody is told.
FlushFails(q) ==
  /\ ~dead[q]
  /\ AtItem(q)
  /\ wrote' = [wrote EXCEPT ![q] = {}]
  /\ dead' = [dead EXCEPT ![q] = TRUE]
  /\ UNCHANGED <<listed, queued>>

AnswerBatch(q) ==
  /\ pc[q] = "working" /\ next[q] > size[q]
  /\ GoTo(q, "sent")
  /\ answer' = [answer EXCEPT ![q] = "listed"]
  /\ UNCHANGED <<analyseVars, batchVars, poolVars>>

\* get_db commits, or closes a dead transaction without a word; the commit
\* may fail.
CommitBatch(q) ==
  /\ pc[q] = "sent"
  /\ GoTo(q, "ended")
  /\ kept' \in {kept, [kept EXCEPT ![q] = wrote[q]]}
  /\ wrote' = [wrote EXCEPT ![q] = {}]
  /\ dead' = [dead EXCEPT ![q] = FALSE]
  /\ free' = free + 1
  /\ UNCHANGED <<answer, analyseVars, size, next, listed, queued, using>>

-----------------------------------------------------------------------------
(***************************************************************************)
(* The reads: the session of get_db, with which the user was looked up, is *)
(* still open when get_db_readonly's executes its first statement.         *)
(***************************************************************************)
AdmitRead(q) ==
  /\ pc[q] = "admitting"
  /\ GoTo(q, "admitted")
  /\ UNCHANGED <<answer, analyseVars, batchVars, poolVars>>

ReadConnects(q) ==
  /\ pc[q] = "admitted" /\ free > 0
  /\ GoTo(q, "reading")
  /\ free' = free - 1
  /\ UNCHANGED <<answer, analyseVars, batchVars, queued, using>>

ReadTimesOut(q) ==
  /\ pc[q] = "admitted" /\ free = 0
  /\ Raise(q, "error")

\* The read is answered or fails, and both sessions are closed.
ReadEnds(q) ==
  /\ pc[q] = "reading"
  /\ GoTo(q, "ended")
  /\ \E a \in {"shown", "error"} : answer' = [answer EXCEPT ![q] = a]
  /\ free' = free + 2
  /\ UNCHANGED <<analyseVars, batchVars, queued, using>>

-----------------------------------------------------------------------------
(***************************************************************************)
(* Tasks: a bump, or one of the transactions of a run.                     *)
(***************************************************************************)
TaskConnects ==
  /\ queued > 0 /\ free > 0
  /\ queued' = queued - 1 /\ using' = using + 1 /\ free' = free - 1
  /\ UNCHANGED <<pc, answer, analyseVars, batchVars>>

\* The bump swallows it; a run fails.
TaskTimesOut ==
  /\ queued > 0 /\ free = 0
  /\ queued' = queued - 1
  /\ UNCHANGED <<pc, answer, analyseVars, batchVars, using, free>>

\* The transaction ends; a run may want another one.
TaskReleases ==
  /\ using > 0
  /\ using' = using - 1 /\ free' = free + 1
  /\ queued' \in {queued, queued + 1}
  /\ UNCHANGED <<pc, answer, analyseVars, batchVars>>

-----------------------------------------------------------------------------
Analyse(q) ==
  \/ AdmitAnalysis(q) \/ Decline(q) \/ CallGroq(q)
  \/ GroqAnswers(q) \/ Retry(q) \/ GroqFails(q)
  \/ NoteEvent(q)
  \/ Borrow(q) \/ BorrowTimesOut(q)
  \/ InsertEmail(q) \/ InsertEmailFails(q) \/ CommitEmail(q)
  \/ CommitEvent(q)

Submit(q) ==
  \/ RefuseSize(q) \/ AdmitBatch(q)
  \/ SubmitItem(q) \/ RejectItem(q) \/ FlushFails(q)
  \/ AnswerBatch(q) \/ CommitBatch(q)

Show(q) ==
  AdmitRead(q) \/ ReadConnects(q) \/ ReadTimesOut(q) \/ ReadEnds(q)

Enter(q) == Connect(q) \/ PoolTimesOut(q) \/ Refuse(q) \/ Fail(q)

Step(q) ==
  \/ Enter(q)
  \/ q \in Analyses /\ Analyse(q)
  \/ q \in Batches /\ Submit(q)
  \/ q \in Reads /\ Show(q)

Task == TaskConnects \/ TaskTimesOut \/ TaskReleases

Next ==
  \/ \E q \in Requests : Arrive(q) \/ Step(q)
  \/ Task

Spec == Init /\ [][Next]_vars

(***************************************************************************)
(* Requests that can go on do, the pool's timer fires and calls of Groq    *)
(* end.  Tasks need not: a request may never get a connection from them.   *)
(***************************************************************************)
FairSpec == Spec /\ \A q \in Requests : WF_vars(Step(q))

-----------------------------------------------------------------------------
Holding(places) == {q \in Requests : pc[q] \in places}

\* Every connection is in the pool, with a request (two while it hands off or
\* reads) or with a task: no way a request may end loses one or gives one back
\* twice.
PoolAccounts ==
  free + Cardinality(Holding(OneHeld)) + 2 * Cardinality(Holding(TwoHeld)) + using
    = PoolSize

\* Who is answered with an error has left nothing behind: no event and no
\* email in the pipeline.  An event that is stored is the label answered.
ErrorsLeaveNothing ==
  \A q \in Analyses :
    /\ answer[q] \in {"refused", "error"} => event[q] = "none" /\ email[q] = "none"
    /\ event[q] # "none" => answer[q] = event[q]

\* A batch is stored as it was answered or not at all, whatever item fails.
BatchAllOrNothing ==
  \A q \in Batches : pc[q] = "ended" => kept[q] \in {{}, listed[q]}

\* The alert is for mail Groq calls phishing with at least the configured
\* confidence; what Groq suspects, and what it is not sure of either way, is
\* for review.
LabelsFollowClasses ==
  \A q \in Analyses : pc[q] = "sent" =>
    LET v == verdict[q]
        unsure == v.class = "suspicious" \/ v.confidence \in ReviewLow .. ReviewHigh
    IN
    /\ answer[q] = "REVIEW" <=> unsure
    /\ answer[q] = "SPAM" <=> v.class = "phishing" /\ ~unsure
    /\ ShouldAlert(v) <=> v.class = "phishing" /\ ~unsure /\ v.confidence >= AlertAt

\* "A pipeline-spawn failure must never roll back the extension's Stage-1
\* response write or surface as a 5xx": once the event is noted, the only
\* answer is the label, whatever the hand-off comes to.
VerdictsAreDelivered ==
  [][\A q \in Analyses :
       pc[q] \in {"noted"} \cup TwoHeld => answer'[q] \in {"none"} \cup Labels]_vars

\* Requests that hold a connection while they wait for another one do not
\* wait for each other for ever, and the tasks cannot starve them.
RequestsEnd ==
  \A q \in Requests : pc[q] # "idle" ~> pc[q] = "ended"
=============================================================================
