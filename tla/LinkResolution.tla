--------------------------- MODULE LinkResolution ---------------------------
(***************************************************************************)
(* Stages 2 and 3 of the pipeline's runs: the links of an email are        *)
(* followed at the same time, each in up to three attempts and then a      *)
(* scrape of the page it leads to; the scraped pages are put to Gemini in  *)
(* one question, and its answers are stored with the links.                *)
(*                                                                         *)
(* A task follows one link of one run.  The tasks of a run share its       *)
(* semaphore, all tasks of the process share one browser, which the first  *)
(* third attempt starts under a lock.  Every attempt is under wait_for, so *)
(* it may be cut off wherever it waits; the scrape is not.                 *)
(***************************************************************************)
EXTENDS Integers, FiniteSets, Sequences

CONSTANTS
  Runs,      \* pipeline runs, each with one call of resolve_all
  MaxLinks,  \* bound on the links of an email
  Most,      \* and for the email of each run
  MaxItems,  \* bound on the items of one answer of Gemini
  Cap,       \* inference.pipeline.max_concurrent_link_tasks
  Endless,   \* the tasks whose page, once asked for, never stops coming
  NoTask     \* the browser lock is free

Places == 1 .. MaxLinks
Tasks  == Runs \X Places

ASSUME BoundAssumption   == MaxLinks \in Nat /\ MaxItems \in Nat
ASSUME MostAssumption    == Most \in [Runs -> 0 .. MaxLinks]
ASSUME CapAssumption     == Cap \in Int
ASSUME EndlessAssumption == Endless \subseteq Tasks
ASSUME NoTaskAssumption  == NoTask \notin Tasks

VARIABLES
  phase,     \* how far each run is
  count,     \* the number of its links
  permits,   \* the value of its semaphore
  rows,      \* its link rows, in the order of the links
  asked,     \* how often it has asked Gemini
  answer,    \* the items Gemini has answered
  verdicts,  \* per link, what its page analysis row says
  pc,        \* where each task is
  heard,     \* how each of its attempts has ended
  found,     \* its result
  lock,      \* the task in _browser_lock
  browser,   \* what the module variable _browser refers to
  drivers,   \* Playwright processes that are alive
  lost       \* history: starts and launches that failed or were cut off

runVars     == <<phase, count, rows, asked, answer, verdicts>>
browserVars == <<lock, browser, drivers, lost>>
vars == <<runVars, permits, pc, heard, found, browserVars>>

Phases   == {"ready", "resolving", "asking", "analysed", "failed"}
Http     == {"plain", "agent"}                        \* attempts 1 and 2
Browsing == {"browser", "starting", "launching", "rendering"}  \* attempt 3
Working  == Http \cup Browsing \cup {"scraping"}
Outcomes == {"ok", "missed", "timeout", "refused", "raised", "nothing"}
Statuses == {"success", "timeout", "blocked", "failed"}
Scrapes  == {"none", "success", "failed"}
Results  == [link : Places, status : Statuses, page : Scrapes]
NoResult == [link |-> 0, status |-> "none", page |-> "none"]
Items    == [index : 1 .. MaxLinks + 1, about : 0 .. MaxLinks]

NoRow == -1  \* no page analysis row
Blank == 0   \* a row without a verdict; a place is a verdict on that page

Permits == IF Cap > 1 THEN Cap ELSE 1

TypeOK ==
  /\ phase \in [Runs -> Phases]
  /\ count \in [Runs -> 0 .. MaxLinks]
  /\ permits \in [Runs -> 0 .. Permits]
  /\ rows \in [Runs -> Seq(Results)]
  /\ asked \in [Runs -> 0 .. 2]
  /\ answer \in [Runs -> Seq(Items)]
  /\ verdicts \in [Runs -> [Places -> {NoRow, Blank} \cup Places]]
  /\ pc \in [Tasks -> {"none", "waiting", "done"} \cup Working]
  /\ heard \in [Tasks -> Seq(Outcomes)]
  /\ found \in [Tasks -> Results \cup {NoResult}]
  /\ lock \in Tasks \cup {NoTask}
  /\ browser \in {"none", "live", "crashed"}
  /\ drivers \in Nat
  /\ lost \in Nat

Init ==
  /\ phase = [r \in Runs |-> "ready"]
  /\ count = [r \in Runs |-> 0]
  /\ permits = [r \in Runs |-> Permits]
  /\ rows = [r \in Runs |-> <<>>]
  /\ asked = [r \in Runs |-> 0]
  /\ answer = [r \in Runs |-> <<>>]
  /\ verdicts = [r \in Runs |-> [i \in Places |-> NoRow]]
  /\ pc = [t \in Tasks |-> "none"]
  /\ heard = [t \in Tasks |-> <<>>]
  /\ found = [t \in Tasks |-> NoResult]
  /\ lock = NoTask
  /\ browser = "none"
  /\ drivers = 0
  /\ lost = 0

-----------------------------------------------------------------------------
(***************************************************************************)
(* Stage 2 begins: a task for each link, and a semaphore for them.         *)
(***************************************************************************)
Begin(r) ==
  /\ phase[r] = "ready"
  /\ \E n \in 0 .. Most[r] :
       /\ count' = [count EXCEPT ![r] = n]
       /\ pc' = [t \in Tasks |-> IF t[1] = r /\ t[2] <= n THEN "waiting" ELSE pc[t]]
  /\ phase' = [phase EXCEPT ![r] = "resolving"]
  /\ UNCHANGED <<permits, rows, asked, answer, verdicts, heard, found,
                 browserVars>>

\* Mutant: each task makes a semaphore of its own.
AcquireOwn(t) ==
  /\ pc[t] = "waiting"
  /\ pc' = [pc EXCEPT ![t] = "plain"]
  /\ UNCHANGED <<runVars, permits, heard, found, browserVars>>

Acquire(t) ==
  /\ pc[t] = "waiting" /\ permits[t[1]] > 0
  /\ permits' = [permits EXCEPT ![t[1]] = @ - 1]
  /\ pc' = [pc EXCEPT ![t] = "plain"]
  /\ UNCHANGED <<runVars, heard, found, browserVars>>

\* The attempt of t has ended with o, and the task goes on at label.
Hear(t, o, label) ==
  /\ heard' = [heard EXCEPT ![t] = Append(@, o)]
  /\ pc' = [pc EXCEPT ![t] = label]
  /\ UNCHANGED <<permits, found>>

\* The task ends: its result is there and its permit goes back.
Finish(t, status, page) ==
  /\ found' = [found EXCEPT ![t] = [link |-> t[2], status |-> status, page |-> page]]
  /\ permits' = [permits EXCEPT ![t[1]] = @ + 1]
  /\ pc' = [pc EXCEPT ![t] = "done"]

-----------------------------------------------------------------------------
(***************************************************************************)
(* Attempts 1 and 2: a GET, the second one with a browser's user agent.    *)
(* Any response counts, whatever its status code.  httpx's own timeouts    *)
(* are HTTPErrors; another exception (a URL it cannot read) ends the task. *)
(***************************************************************************)
Responds(t) ==
  /\ pc[t] \in Http
  /\ Hear(t, "ok", "scraping")
  /\ UNCHANGED <<runVars, browserVars>>

\* What attempt 1 has raised is forgotten once attempt 2 has raised too.
Escalate(t, o) ==
  /\ \/ pc[t] = "plain" /\ Hear(t, "missed", "agent")
     \/ pc[t] = "agent" /\ Hear(t, o, "browser")
  /\ UNCHANGED <<runVars, browserVars>>

Raises(t) ==
  /\ pc[t] \in Http
  /\ heard' = [heard EXCEPT ![t] = Append(@, "raised")]
  /\ Finish(t, "failed", "none")
  /\ UNCHANGED <<runVars, browserVars>>

-----------------------------------------------------------------------------
(***************************************************************************)
(* Attempt 3: the browser, which is started if no reference to one is kept *)
(***************************************************************************)
\* Mutant: the reference is looked at without the lock.
EnterUnlocked(t) ==
  /\ pc[t] = "browser"
  /\ pc' = [pc EXCEPT ![t] = IF browser = "none" THEN "starting" ELSE "rendering"]
  /\ UNCHANGED <<runVars, permits, heard, found, browserVars>>

EnterLock(t) ==
  /\ pc[t] = "browser" /\ lock = NoTask
  /\ IF browser = "none"
       THEN lock' = t /\ pc' = [pc EXCEPT ![t] = "starting"]
       ELSE lock' = lock /\ pc' = [pc EXCEPT ![t] = "rendering"]
  /\ UNCHANGED <<runVars, permits, heard, found, browser, drivers, lost>>

DriverStarts(t) ==
  /\ pc[t] = "starting"
  /\ drivers' = drivers + 1
  /\ pc' = [pc EXCEPT ![t] = "launching"]
  /\ UNCHANGED <<runVars, permits, heard, found, lock, browser, lost>>

BrowserLaunches(t) ==
  /\ pc[t] = "launching"
  /\ browser' = "live"
  /\ lock' = NoTask
  /\ pc' = [pc EXCEPT ![t] = "rendering"]
  /\ UNCHANGED <<runVars, permits, heard, found, drivers, lost>>

BrowserResponds(t) ==
  /\ pc[t] = "rendering" /\ browser = "live"
  /\ Hear(t, "ok", "scraping")
  /\ UNCHANGED <<runVars, browserVars>>

\* last_exc: a third attempt that swallowed its exception leaves the second's.
LastExc(h, o) == IF o = "nothing" THEN h[2] ELSE o

\* Mutant: the status is named for whatever was raised last.
StatusOfLast(h, o) == o

StatusAfter(h, o) == IF LastExc(h, o) = "timeout" THEN "timeout" ELSE "blocked"

\* The third attempt ends without a page, and with it the task.
GiveUp(t, o) ==
  /\ heard' = [heard EXCEPT ![t] = Append(@, o)]
  /\ Finish(t, StatusAfter(heard[t], o), "none")
  /\ lock' = IF lock = t THEN NoTask ELSE lock
  /\ UNCHANGED <<runVars, browser>>

\* A process that a start or a launch has brought up stays without a
\* reference to it: the next start replaces _pw.
Abandon(t) ==
  \/ pc[t] \in {"browser", "rendering"} /\ UNCHANGED <<drivers, lost>>
  \/ pc[t] = "starting" /\ UNCHANGED <<drivers, lost>>
  \/ pc[t] = "starting" /\ drivers' = drivers + 1 /\ lost' = lost + 1
  \/ pc[t] = "launching" /\ lost' = lost + 1 /\ UNCHANGED drivers

\* resolve_with_browser catches what the start, the launch or the page raise.
BrowserFails(t) ==
  /\ pc[t] \in Browsing \ {"browser"}
  /\ Abandon(t)
  /\ GiveUp(t, "nothing")

\* Mutant: only the navigation has a timeout, not the start of the browser.
NavigationTimesOut(t) ==
  /\ pc[t] = "rendering"
  /\ Abandon(t)
  /\ GiveUp(t, "timeout")

\* wait_for cuts the third attempt off, also while it waits for the lock.
BrowserTimesOut(t) ==
  /\ pc[t] \in Browsing
  /\ Abandon(t)
  /\ GiveUp(t, "timeout")

TimesOut(t) == Escalate(t, "timeout") \/ BrowserTimesOut(t)

\* The browser dies at any time; the reference to it stays.
BrowserCrashes ==
  /\ browser = "live"
  /\ browser' = "crashed"
  /\ UNCHANGED <<runVars, permits, pc, heard, found, lock, drivers, lost>>

-----------------------------------------------------------------------------
(***************************************************************************)
(* The scrape of a link that was resolved.  What it raises becomes a page  *)
(* that was blocked or timed out.  Nothing bounds the time it takes.       *)
(***************************************************************************)
Scrape(t) ==
  /\ pc[t] = "scraping" /\ t \notin Endless
  /\ \E page \in {"success", "failed"} : Finish(t, "success", page)
  /\ UNCHANGED <<runVars, heard, browserVars>>

-----------------------------------------------------------------------------
(***************************************************************************)
(* All tasks of a run have ended: gather hands their results out in the    *)
(* order of the links, and _persist_links stores them.                     *)
(***************************************************************************)
AllDone(r) == \A i \in 1 .. count[r] : pc[<<r, i>>] = "done"

\* Mutant: results that are exceptions are dropped.
GatheredUnraised(r) ==
  SelectSeq([i \in 1 .. count[r] |-> found[<<r, i>>]], LAMBDA f : f.status # "failed")

Gathered(r) == [i \in 1 .. count[r] |-> found[<<r, i>>]]

Store(r) ==
  /\ phase[r] = "resolving" /\ AllDone(r)
  /\ rows' = [rows EXCEPT ![r] = Gathered(r)]
  /\ phase' = [phase EXCEPT ![r] = "asking"]
  /\ UNCHANGED <<count, permits, asked, answer, verdicts, pc, heard, found,
                 browserVars>>

\* Stage 3 puts the scraped pages into one prompt, in the order of the links.
IsScraped(r, i) == i <= Len(rows[r]) /\ rows[r][i].page = "success"
Scraped(r) == {i \in Places : IsScraped(r, i)}
Prompt(r) ==
  LET pages[n \in 0 .. MaxLinks] ==
        IF n = 0 THEN <<>>
        ELSE IF IsScraped(r, n) THEN Append(pages[n - 1], n)
        ELSE pages[n - 1]
  IN  pages[MaxLinks]

\* Mutant: the place of the link is taken for the index of its page.
PlaceOfLink(r, i) == i

\* The index of a link's page in the prompt (batch_index_to_link_id).
BatchIndex(r, i) == Cardinality({j \in 1 .. i : IsScraped(r, j)})

\* Gemini knows which page it speaks of.  It may leave pages out, answer one
\* twice, in any order, or invent an index.
Answers(r) ==
  LET prompt == Prompt(r)
      Honest(item) ==
        item.about = IF item.index <= Len(prompt) THEN prompt[item.index] ELSE 0
      items == {item \in Items : Honest(item)}
  IN  UNION {[1 .. n -> items] : n \in 0 .. MaxItems}

\* analyse_batch: the last item with a page's index is the one that counts.
VerdictFrom(items, k) ==
  LET about == {n \in DOMAIN items : items[n].index = k}
      last  == CHOOSE n \in about : \A m \in about : m <= n
  IN  IF about = {} THEN Blank ELSE items[last].about

\* _persist_page_analyses: a row for each page of the prompt.
PageRows(r, items) ==
  [i \in Places |->
     IF i \in Scraped(r) THEN VerdictFrom(items, BatchIndex(r, i)) ELSE NoRow]

\* What the run's tasks remembered is gone with them.
Forget(r) ==
  /\ heard' = [t \in Tasks |-> IF t[1] = r THEN <<>> ELSE heard[t]]
  /\ found' = [t \in Tasks |-> IF t[1] = r THEN NoResult ELSE found[t]]

Conclude(r, items) ==
  /\ answer' = [answer EXCEPT ![r] = items]
  /\ verdicts' = [verdicts EXCEPT ![r] = PageRows(r, items)]
  /\ phase' = [phase EXCEPT ![r] = "analysed"]

\* Without a scraped page Gemini is not asked.
NothingToAsk(r) ==
  /\ phase[r] = "asking" /\ Scraped(r) = {}
  /\ Conclude(r, <<>>) /\ Forget(r)
  /\ UNCHANGED <<count, permits, rows, asked, pc, browserVars>>

\* generate_json: a call that fails or is refused as one too many is made
\* once more; any other refusal and an answer that is no list end the run.
AskGemini(r) ==
  /\ phase[r] = "asking" /\ Scraped(r) # {} /\ asked[r] < 2
  /\ asked' = [asked EXCEPT ![r] = @ + 1]
  /\ \/ \E items \in Answers(r) : Conclude(r, items) /\ Forget(r)
     \/ asked[r] = 0 /\ UNCHANGED <<phase, answer, verdicts, heard, found>>
     \/ /\ phase' = [phase EXCEPT ![r] = "failed"]
        /\ Forget(r)
        /\ UNCHANGED <<answer, verdicts>>
  /\ UNCHANGED <<count, permits, rows, pc, browserVars>>

-----------------------------------------------------------------------------
Attempt(t) ==
  \/ Acquire(t)
  \/ Responds(t) \/ Escalate(t, "refused") \/ Raises(t)
  \/ EnterLock(t) \/ DriverStarts(t) \/ BrowserLaunches(t)
  \/ BrowserResponds(t) \/ BrowserFails(t)
  \/ TimesOut(t)
  \/ Scrape(t)

Stage(r) == Store(r) \/ NothingToAsk(r) \/ AskGemini(r)

Next ==
  \/ \E r \in Runs : Begin(r) \/ Stage(r)
  \/ \E t \in Tasks : Attempt(t)
  \/ BrowserCrashes

Spec == Init /\ [][Next]_vars

(***************************************************************************)
(* Ready tasks run, wait_for's timers fire, a page that has an end is read *)
(* to it, and so is Gemini's answer: httpx bounds each read of it only, so *)
(* that it ends is an assumption about Gemini.  No other network call,     *)
(* start or launch has to end by itself.                                   *)
(***************************************************************************)
Proceeds(t) == Acquire(t) \/ TimesOut(t) \/ Scrape(t)

FairSpec ==
  /\ Spec
  /\ \A t \in Tasks : WF_vars(Proceeds(t))
  /\ \A r \in Runs : WF_vars(Stage(r))

-----------------------------------------------------------------------------
AtWork(r) == {i \in Places : pc[<<r, i>>] \in Working}

\* No more links of an email than the configured number are at work at the
\* same time, from the first attempt to the end of the scrape.
CapHolds == \A r \in Runs : Cardinality(AtWork(r)) <= Permits

Owned == browser # "none" \/ \E t \in Tasks : pc[t] = "launching"

\* The lock keeps tasks from starting a browser each: every Playwright
\* process is the one the service refers to, or was left by a start or a
\* launch that failed or was cut off (nothing ever stops those).
OneBrowser == drivers = lost + (IF Owned THEN 1 ELSE 0)

\* What the attempts of a task say about its link.
Explains(h, status) ==
  CASE status = "success" -> h[Len(h)] = "ok"
    [] status = "failed"  -> h[Len(h)] = "raised"
    [] status = "timeout" -> Len(h) = 3 /\ "timeout" \in {h[2], h[3]}
    [] status = "blocked" -> h[2] = "refused" /\ h[3] = "nothing"

\* Whatever the order in which the links end, row i is about link i, its
\* status is what the attempts at that link came to, and only a link that
\* was resolved has a page.
RowsTellTheirLinks ==
  \A r \in Runs : phase[r] = "asking" =>
    /\ Len(rows[r]) = count[r]
    /\ \A i \in 1 .. count[r] :
         /\ rows[r][i].link = i
         /\ Explains(heard[<<r, i>>], rows[r][i].status)
         /\ rows[r][i].page # "none" <=> rows[r][i].status = "success"

IsAnswered(r, i) == \E n \in DOMAIN answer[r] : answer[r][n].about = i

\* Exactly the scraped pages have a page analysis, each with Gemini's
\* verdict on that very page, or a blank one if Gemini left the page out.
VerdictsLandOnTheirPages ==
  \A r \in Runs : phase[r] = "analysed" =>
    \A i \in Places :
      verdicts[r][i] = IF i \notin Scraped(r) THEN NoRow
                       ELSE IF IsAnswered(r, i) THEN i ELSE Blank

\* A run none of whose pages is endless gets through its links and is
\* analysed or fails, whatever the links, the browser and other runs do.
\* (Gemini's answers end: see Endless in InferencePipeline for those that
\* do not.)
RunsEnd ==
  \A r \in Runs : (\A i \in Places : <<r, i>> \notin Endless) =>
    (phase[r] = "resolving" ~> phase[r] \in {"analysed", "failed"})
=============================================================================
