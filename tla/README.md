# Sentry API: models and proofs

Sentry is a FastAPI service that tells phishing mail from legitimate mail. A
dashboard and a browser extension submit emails; a background pipeline asks
LLMs about the text and about the pages behind the links, and stores a verdict.
It is one asyncio process over one PostgreSQL database (READ COMMITTED).

## Inventory

| Part (under `src/src/`) | State | Operations | Interacts with | What is hard | What makes it correct |
|---|---|---|---|---|---|
| Inference pipeline: `modules/inference/domain/services/inference_service.py`, `internal/pipeline_runner.py`, repositories and models | tables `emails`, `links`, `page_analysis`; the set `_in_flight` of tasks; what a task remembers | submit, submit_batch, reanalyze, manual review, delete; the four stages of a run; `_mark_failed`; drain | spawned by requests before they commit; calls the stage services; drained by the lifespan | requests and runs of one email overlap; a run starts before its row is there; stages fail; the process stops | verdict agrees with the evidence; no orphan rows; no stranded email; reviews survive; status moves in order |
| Aggregation: `aggregation_service.py` | none | `finalise` | called by the pipeline | the order of the rules; results without a risk level | a verdict for each input, escalation only upwards |
| Stage services: `email_classification_service.py`, `page_analysis_service.py` | none | `classify`, `analyse_batch` | LLM clients | answers that are incomplete, repeated, out of order or about pages nobody asked for | each page gets the verdict that was given on it |
| Link resolution: `link_resolution_service.py`, `link_unshortener.py`, `page_scraper.py`, `playwright_scraper.py` | a semaphore per call; one browser for the process and its lock | `resolve_all`, `resolve_url`, `fetch_and_parse` | HTTP, Playwright | concurrency cap, escalating attempts that are cut off anywhere, a browser that many want to start, partial failures | one result per link, in order, that says what its attempts came to; never more than the cap at work; one browser; every run without an endless page gets through |
| LLM clients: `groq_client.py`, `gemini_client.py` | none | one call with one retry | HTTP | retry, rate limit, timeout | bounded attempts; a definite answer or a definite failure |
| History and statistics: `prediction_history_service.py`, `inference_stats_service.py`, the read endpoints | none (a read-only session per request) | list, detail, status, links; summary, verdicts over time, triggers, model usage | database, while runs commit | each SELECT has a snapshot of its own; pages are offsets into a list that changes | what one answer shows fits together |
| Dashboard auth: `modules/auth` | tables `users`, `tokens` | register, login, refresh, logout, user administration, cleanup, admin seeding | JWT, database | concurrent refresh, revocation against verification | the row of the user decides, not the token; one refresh token per user; no token without its user |
| Extension: `modules/extension` | tables `extension_installs`, `extension_tokens`, `extension_analyse_events` | register, renew, logout, blacklist, unblacklist, revoke, cleanup; `analyse` | Google, detector, submitter | blacklisting against registration; the two transactions and two connections of `analyse` | a blacklisted install has no live token; a verdict is delivered whatever the hand-off does, an error leaves nothing |
| Composition: `core/lifespan.py`, `core/extension_pipeline_submitter.py`, `core/inference_detector.py`, `factory.py`, `middleware.py` | application phase | start, drain, stop | everything | shutdown with runs in flight | in-flight work finishes or is marked |
| Database: `shared/database` | connection pool (5 + 10) | sessions, `get_db`, `get_db_readonly` | everything | requests that hold one connection and want another at the pool's limit; a session that a failed flush leaves unusable; the commit after the response | connections come back however a request ends; no request waits for ever |
| Configuration: `configs/loader.py` | none | resolve, validate | environment | error collection | every error reported |
| Errors and DTOs: `shared/exceptions`, `shared/responses`, `presentation/dtos` | none | formatting | - | none | - |

Every hazard found while reading is in `PROJECT.json` with its line.

## What is modelled

### `InferencePipeline` (with `Aggregation`)

One module for the tables, the requests, the tasks and the process.

State. `stored` is the set of ids with a committed row; `row` holds the columns
that matter (status, stage, classification, link count, verdict, trigger, error,
review); `links` and `pages` are the two child tables. `op`, `target`, `txn` and
`doomed` describe the transaction of each request: what it asks, which email,
how far it is (`open` after its first read, `unlinked` after the DELETE of
reanalyze, `written` after its last statement) and which link rows it has
deleted without having committed. `pc` and `mem` are the task of a submit or a
reanalyze: between which database writes it is and what `run_pipeline` holds in
its local variables. `phase` is the application.

Actions. Each statement of a request that another transaction can come between
is an action; the commit is another one, because `get_db` commits after the
handler has returned and the task has been spawned. Each stage of a run writes
in a transaction of its own (`_set_stage`, `_persist_classification`,
`_persist_links`, `_persist_page_analyses`, `_finalise`), and each such
transaction is one action. PostgreSQL's row locks are guards: an UPDATE waits
for a `written` transaction on its row (`Locked`), an INSERT of a link waits for
an uncommitted DELETE of its email (`BeingDeleted`), a DELETE of links or an
INSERT of a page analysis waits for an uncommitted DELETE of the link
(`LinkLocked`). An UPDATE of a row that is not there changes nothing; an INSERT
below a missing parent raises and takes the task to `_mark_failed`.

| Code | Actions |
|---|---|
| `submit` | `Submit`, `CommitSubmit` |
| `reanalyze` | `Read`, `ReanalyzeUnlink`, `ReanalyzeReset`, `CommitReanalyze` |
| `apply_manual_review` | `Read`, `ReviewUpdate`, `CommitReview` |
| `delete_email` | `Read`, `DeleteRow`, `CommitDelete` |
| `get_db` on an exception | `Rollback` |
| `_wait_for_email` | `FindEmail`, `StopWaiting` |
| `run_pipeline` | `StartClassification`, `Classify`, `StartLinkResolution`, `ResolveLinks`, `StartPageAnalysis`, `AnalysePages`, `StartAggregation`, `StoreVerdict` |
| `run`, `_mark_failed` | `StageFails`, `MarkFailed`, `MarkFailedRaises` |
| `lifespan`, `drain` | `BeginDrain`, `Drained`, `DrainTimesOut`, `Kill`, `Start` |

Choices. The LLMs' answers and the set of links that ended with a scraped page
are chosen freely by the step that stores them. A confidence is `above` or
`notAbove` the early-exit threshold, the only thing the pipeline asks of it.
`Faults` says what may go wrong in an instance, `Ops` what clients use, and
`Exclusive` whether clients wait for a terminal status before they re-queue or
delete an email and make one such request at a time: the code does not make
them, so what needs it is stated as such. `Endless` names the calls of tasks
whose answer never stops coming: httpx bounds each read of Groq's answer, of a
page and of Gemini's answer, and nothing bounds the whole. Such a task is
`Stuck`: its stage neither ends nor raises, and only the end of the process
cancels it.

The definitions marked "Mutant" are plausible bugs. Nothing uses them: they
are there to be put in the place of the definition below them, and each
property of a passing run is violated by the one `PROJECT.json` names for it.

### `EmailLifecycle`

The abstract specification: what somebody who polls
`GET /emails/{id}/status` sees of an email. `PipelineLifecycle` maps
(`stored`, `row`) to it (`LifeOf`), and its `FollowsLifecycle` says that every
step of the pipeline is a step of it or none.

### `ExtensionAuth`

State. `install` is the committed status of each account's install, `state` and
`owner` the rows of the tokens, `expired` those whose `expires_at` has passed.
A request has what it asks (`op`), the installs it is about (`scope`), the token
it carries (`bearer`), what it has read (`seen`, `ids`), the rows its UPDATE has
found (`found`) and the writes it has not committed (`locks`, `kills`). `barred`
is history: the install has been blacklisted ever since the request began.

A request is one transaction at READ COMMITTED, so it goes in steps: the first
read (the action that begins it), then a step for each statement that others
can come between, then `Commit` or `Abort`. An UPDATE by a condition is two
steps, because PostgreSQL picks the rows when the statement starts and, once it
has their locks, updates those that still match: a token inserted meanwhile is
not among them.

| Code | Actions |
|---|---|
| `register` | `Register`, `InsertInstall` or `UpdateInstalls`, `FindTokens`, `RevokeAll`, `Commit` |
| `blacklist`, `unblacklist`, `revoke_tokens` | `Blacklist`, `Unblacklist`, `RevokeTokens`, then the same steps |
| `blacklist_domain` | `BlacklistDomain`, `FindInstalls`, `UpdateInstalls`, `FindTokens`, `RevokeAll`, `Commit` |
| `require_install`, renew | `Authenticate`, `Admit`, `RevokeOwn`, `Commit` |
| `require_install_for_logout`, logout | `Logout`, `RevokeOwn`, `Commit` |
| `cleanup_expired`, the clock, a failing statement | `Cleanup`, `Expire`, `Abort` |

Left out: the `last_seen_at` bump (nothing is decided by it), Google's check and
the allow-list (an account of the model has passed them), and lock waits inside
one statement: a statement takes its locks at once. `Exclusive` says whether
requests about one install overlap; the code does nothing to prevent it.

### `DashboardAuth`

State. `account` and `role` are the committed rows of the users, `row`, `owner`
and `expired` those of the tokens (a pair is a session, a row is its access or
its refresh token). `req` is the requests under way, each a record: how far it
is, what it asks, for whom and about whom, the refresh token it trades, the
columns it changes, the rows found and revoked so far, and `barred` as above.
`crossed` is history: the users whose session requests have overlapped. `phase`
is the application.

| Code | Actions |
|---|---|
| `register` | `Register`, `InsertUser`, `Issue`, `Commit` |
| `login` | `Login`, `FindTokens`, `RevokeAll`, `Issue`, `Commit` |
| `refresh_token` | `Refresh`, `ReadUser`, `RotateOwn`, `Issue`, `Commit` |
| `logout` | `Logout`, `FindTokens`, `RevokeAll`, `Commit` |
| `get_current_user`, `require_role` | `Call` or `Administer`, `ReadUser` |
| `create_user` | `Administer`, `ReadUser`, `CheckEmail`, `InsertUser`, `Commit` |
| `update_user`, `set_active_status` | `Administer`, `ReadUser`, `ReadTarget`, `ChangeUser`, `Commit` |
| `delete_user` | `Administer`, `ReadUser`, `ReadTarget`, `DeleteUser`, `Commit` |
| token cleanup, the clock, a failing statement | `Cleanup`, `Expire`, `Abort` |
| `lifespan`, `seed_admin` | `Stop`, `SeedAdmin` |

The guards are PostgreSQL's locks: an INSERT waits for one who inserts or
deletes the same email, the foreign key of a pair waits for a DELETE of its
user and is waited for by it, UPDATEs and cascades wait for rows revoked and
not committed. The session's identity map is modelled where it decides: a
request that is about its own user does not read that row again. Left out:
names and profiles (the uniqueness of the username goes with the email),
passwords (a login has the right one), and the role claim inside the token,
which no check reads.

### `LinkResolution`

State. Per run: how far it is (`phase`), the number of its links, the value of
its semaphore (`permits`), the `rows` it has stored, the items Gemini has
answered and the `verdicts` of its page analysis rows. Per task, which follows
one link of one run: where it is (`pc`), how its attempts have ended (`heard`)
and its result (`found`). Of the process: who is in `_browser_lock`, what
`_browser` refers to, and how many Playwright processes live (`drivers`).
`lost` is history: starts and launches that failed or were cut off.

| Code | Actions |
|---|---|
| `resolve_all` | `Begin`, `Acquire`, `Store` (with `_persist_links`) |
| `resolve_url`, attempts 1 and 2 | `Responds`, `Escalate`, `Raises` |
| attempt 3 under `wait_for`: `resolve_with_browser`, `_get_browser` | `EnterLock`, `DriverStarts`, `BrowserLaunches`, `BrowserResponds`, `BrowserFails`, `BrowserTimesOut` |
| Chromium (external) | `BrowserCrashes` |
| `fetch_and_parse` | `Scrape` |
| `generate_json`, `analyse_batch`, `_persist_page_analyses` | `AskGemini`, `NothingToAsk` |

`wait_for` may cut an attempt off at each of its waits, also in the queue of the
lock (`EnterLock` is a step of its own) and inside it, where a process that has
been started stays without a reference. Gemini's answer is any sequence of
items: it knows which page it speaks of, but it may leave pages out, answer one
twice, in any order, or invent an index. Left out: URLs and redirects, what a
page says, the length of the backoff, and the wait for the database. The writes
of these stages and the cancellation by the drain are `InferencePipeline`'s.

### `Intake`

How emails come in, and how requests and tasks share the connection pool.

State. Per request: where it is (`pc`, from which follows how many connections
it holds: `OneHeld`, `TwoHeld`) and its `answer`. Per analysis: the calls of
Groq, the `verdict`, the committed `event` and what became of its `email`. Per
batch: its loop (`size`, `next`), what its answer lists, the rows of its
transaction (`wrote`), whether a failed flush has killed it (`dead`) and what
was `kept`. Of the process: connections that are `free`, tasks that wait for one
and tasks that have one (`queued`, `using`).

| Code | Actions |
|---|---|
| `get_db` before the first statement, `QueuePool` | `Arrive`, `Connect`, `PoolTimesOut` |
| `require_install`, `require_role`, the bump of `last_seen_at` | `Refuse`, `Fail`, `AdmitAnalysis`, `AdmitBatch`, `AdmitRead` |
| `EmailAnalyseService.analyse`, the detector adapter | `Decline`, `CallGroq`, `GroqAnswers`, `NoteEvent`; `MapLabel`, `ShouldAlert` |
| `chat_json` | `Retry`, `GroqFails` |
| `ExtensionPipelineSubmitter.submit` | `Borrow`, `BorrowTimesOut`, `InsertEmail`, `InsertEmailFails`, `CommitEmail` |
| `submit_batch` | `RefuseSize`, `SubmitItem`, `RejectItem`, `FlushFails`, `AnswerBatch` |
| `get_db` after the response | `CommitEvent`, `CommitBatch`, `Raise` |
| `get_db_readonly` beside `get_db` | `ReadConnects`, `ReadTimesOut`, `ReadEnds` |
| a bump or a transaction of a run | `TaskConnects`, `TaskTimesOut`, `TaskReleases` |

FastAPI 0.135.3 (`requirements.txt`) leaves a dependency with `yield` after the response
has been sent, so an analysis or a batch is answered before its commit, and the
commit may still fail. The user of a dashboard read is looked up with `get_db`'s
session, which is open until the end of the request, so every read holds a
connection while it asks for its own. Confidences are in hundredths. Left out:
the text of the email, headers, the bodies of errors, the wait between two
calls, and that the bump's task is kept by a weak reference only.

### `DashboardReads`

Extends `InferencePipeline`: the same tables and writers, and one read beside
them. `kind` and `about` say what is being answered, `step` how many of its
SELECTs have run and `shown` what each has returned. `moved` and `kept` are
history: what has been committed since the read began to the emails it is
about. The session is at READ COMMITTED, so each SELECT is an action with a
snapshot of its own.

| Code | Actions and operators |
|---|---|
| `get_with_full_detail` (row, then `selectinload` of links, then of pages) | `AskDetail`, `Select` |
| `InferenceStatsService.summary`, six queries | `AskSummary`, `Select`; `ClassificationCounts`, `PipelineStatusCounts`, `EarlyExits`, `Escalations`, `AverageIsNull` |
| `model_usage`, three queries | `AskUsage`, `Select`; `Stage1Count`, `Stage3Count` |
| `verdicts_over_time`, `override_trigger_breakdown`, one query each | `VerdictsOverTime`, `TriggerBreakdown`, evaluated in every state |
| `list_with_filters`, page by page | `StartWalk`, `FetchPage`; `Matching`, `Listings`, `PageOf` |
| the end of the request | `Close` |

`FetchPage` picks any order of emails with the same `received_at`: the ORDER BY
has no tie-breaker. Left out: the count of all matches that accompanies a page
(a SELECT before it; a client that stops by this `total` instead of by a short
page can miss an email, because count and page are different snapshots), the
filters by sender and date, impersonated brands, `GET /links/{id}`, the default
window, and how numbers are rounded and fields named.

## Runs

`CHECK_DEADLOCK FALSE` is set because the number of requests is bounded and a
state in which all of them are answered and all tasks have ended is a normal
end.

| Run | Instance | Checks | Shows |
|---|---|---|---|
| `pipeline_exclusive` | 1 email, 3 requests of every kind, up to 2 links, every answer; stages and `_mark_failed` fail, shutdowns, kills; `Exclusive` | `TypeOK`, `VerdictMatchesEvidence`, `LinksMatchCount`, `ColumnsMatchStatus`, `FollowsLifecycle` | with clients that wait, the verdict is the one the rules give for the rows, nothing of an earlier run is left and the status follows `EmailLifecycle` |
| `pipeline_overlap` | 1 email, 3 requests, 1 link, an early exit and a full run; rollbacks, late commits, failing stages, kills | `CompleteHasVerdict`, `NoOrphanRows`, `ReviewSurvives` | what holds with no condition on clients or faults |
| `pipeline_progress` | 1 email, 3 requests, 1 link, failing stages, rollbacks; one task whose page and one whose answer from Gemini never ends; fairness | `NothingStranded`, `EmailsSettle` | an unfinished email has a task at work and is finished, unless all its tasks wait for answers that never end |
| `pipeline_drain` | shutdown only | `DrainFinishesWork` violated | the drain's timeout strands an email |
| `extension_serial` | 2 accounts of one domain, 3 tokens, 3 requests of every kind; `Exclusive` | `TypeOK`, `BlacklistedHasNoToken`, `OneTokenPerInstall` | without overlaps on one install, blacklisting leaves no usable token, also after a reinstatement, and there is one token at most |
| `extension_overlap` | 1 account, 3 tokens, 3 requests that overlap; fairness | `AccessIsCut`, `RequestsEnd` | the status keeps out an install that is blacklisted throughout a request, and no request waits for ever |
| `extension_race` | 1 account, a registration and a blacklisting | `BlacklistedHasNoToken` violated | a token issued by an overlapping registration survives the blacklisting |
| `dashboard_overlap` | 3 users (two with the seeded email), 2 pairs, 3 requests of every kind, 2 at a time; expiry, cleanup, aborts, restarts | `TypeOK`, `PowersAreCurrent`, `OneRefreshToken`, `TokensHaveUsers`, `LogoutEndsSessions` | the row of the user decides whatever tokens are around; one refresh token per user and none after a logout; no token without its user |
| `dashboard_seed` | 2 users, an admin that updates itself, a restart | `StartSucceeds` violated | without an admin, a start inserts the email that is still there and fails |
| `links` | 2 runs, up to 2 links and 1 link, one permit each; the single page may never end; all attempts time out, are refused, raise; the browser fails and dies; up to 2 items from Gemini; fairness | `TypeOK`, `CapHolds`, `OneBrowser`, `RowsTellTheirLinks`, `VerdictsLandOnTheirPages`, `RunsEnd` | the cap holds, one browser is started, rows and verdicts belong to their links, and an endless page holds up its own run only |
| `intake` | 1 analysis, 1 batch, 1 read, a pool of 2, batches of 3 (accepted) and 4 (too many), 5 verdicts around the review band and the alert; fairness | `TypeOK`, `PoolAccounts`, `ErrorsLeaveNothing`, `BatchAllOrNothing`, `LabelsFollowClasses`, `VerdictsAreDelivered`, `RequestsEnd` | no connection is lost, errors leave nothing, batches are whole, labels mean what Groq said, the hand-off never changes the answer, and nobody waits for ever |
| `reads` | 2 emails received at different times, 2 requests (submit, re-queue, delete; `Exclusive`), an early exit and a full run of 2 links, one window, a list with and without filter and page size 1 | `ReadsTypeOK`, `DetailShowsEvidence`, `SummaryAddsUp`, `UsageAddsUp`, `WalkFindsAll`, `ChartsAgree` | what an answer shows fits together although runs commit between its SELECTs, unless the emails it is about are added, removed or re-queued meanwhile |

The `pipeline_*` runs use the module `MCInferencePipeline`, the `extension_*`
runs `MCExtensionAuth`, the `dashboard_*` runs `MCDashboardAuth`, `links`, `intake` and
`reads` the module `MC` followed by the name of the specification.

Bounds of the pipeline. Emails do not interact with each other (all writes are by id), so one is
enough; three requests are the least in which a run, a re-queue of it and a
third request that deletes, reviews or re-queues again overlap; two links are
the least with a page of each of two risk levels and with some pages scraped
and some not. Each request is made once, which bounds the length of a
behaviour. Requests are interchangeable, so the safety runs use symmetry; the
run with liveness does not, and has one answer with one link: one task of three
meets an endless page, one gets an endless answer if its page was scraped, and
one is always answered, in any order and overlap.

Bounds of the extension. Installs interact only through a domain blacklist, so
two are enough for the serial run; one is enough where all requests overlap on
it. Three requests and three tokens let two requests race and a third one see
what they left. Every mix of installs without tokens is an initial state:
anything else is reached from there.

Bounds of the dashboard. `MaxAsked` is the number of requests, `Requests` how
many are under way at a time; the initial states already hold registered users
with a pair each, so three requests are two that race and one that acts before
or after them. Two users carry the email of the configured admin, one after the
other, because ids are used once; a third is an analyst.

Bounds of the links. Runs share only the browser, so two are enough, one of
them slow. Two links with one permit make one wait for the other, in either
order; the tasks at work in the two runs meet at the browser's lock; two
items let Gemini repeat, swap, drop or invent one.

Bounds of the intake. A pool of two is the least in which a request can get a
second connection at all, and an analysis with a read (or a task) empties it, so
each of the two can wait while the other holds what it wants. Three items are
one before, at and after the item whose flush fails. The five verdicts lie
below, on and above the review band and on the alert threshold; `LabelsFaithful`
is the theorem for all others.

Bounds of the reads. Of two emails one can arrive, be re-queued or deleted
while the other stays; two links on one email make `DISTINCT email_id` matter;
with page size 1 every arrival shifts the offsets. Stage failures are left to
the other runs: a failed email counts like any other.

Fairness. In `links` a task that can take its permit, be cut off by its timer or
finish a scrape does so in the end, and so does a run that can store its rows or
ask Gemini: `wait_for` sees to the attempts; that Gemini's answer ends is
assumed, for its client bounds each read only. No other network call, start or
launch has to end by itself, and a page in `Endless` is never scraped, because
httpx bounds each read and nothing bounds the scrape. In `intake` every request
goes on when it can: the pool's timer fires, and a call of Groq ends (httpx's
timeout is per read, so an answer that drips for ever is excluded by
assumption). Tasks need not move. In `extension_overlap` every step of a request
that has begun is weakly fair, for the reasons that follow; asking, failing,
expiring and cleaning up are not. In `pipeline_progress`, `Statement`, `Commit`
and `Stage` are weakly fair per request: the event loop runs every ready
coroutine, the attempts at a link have timeouts, and a lock is given up when its
holder commits or rolls back, which is itself such a step. A call in `Endless`
is not among them: the stage that waits for it is never enabled, and
`EmailsSettle` says what this can and cannot hold up. Making a request, failing,
shutting down and being killed are never required.

## Proofs

`InferencePipelineProofs` proves for every set of emails and requests, every
bound on the links and every set of answers:

| Theorem | Statement | Inductive argument |
|---|---|---|
| `TypeCorrect` | `Spec => []TypeOK` | with `RequestsMatchTasks`: what a transaction has done fixes whether it has a target and a task. It is needed because `CommitSubmit` stores `target[q]`, which must be an email |
| `NoOrphans` | `Spec => []NoOrphanRows` | inductive over `TypeOK` and `RequestsMatchTasks`: a request gets its target only while it has none, so the links of a task never change their email |
| `CompleteIsJudged` | `Spec => []CompleteHasVerdict` | `TasksKnowClass` (a task past stage 1 has a class) and `VerdictStays` (the same as the property, also for ids that are not stored: a submit commits the row that is there) |
| `ReviewsKept` | `Spec => ReviewSurvives` | every UPDATE of a task leaves the review column, and the re-queue copies it |
| `NoneStranded` | `Spec => []NothingStranded` if `late`, `mark`, `shutdown` and `kill` do not happen | `SubmitsAreNew` (nobody else knows an id before its submit commits), `TasksWaitForCommit` (the task of an open submit waits for the row, that of an open re-queue cannot get past the lock on it), `StoredWereSubmitted` |

`PipelineEvidenceProofs` and `PipelineLifecycleProofs` prove the rest of the
pipeline's properties from `ClientsWait`: `Exclusive` holds and `Faults` has
neither `rollback` nor `late`. This is a condition on clients and on the
database, not something the code enforces; stages and `_mark_failed` may fail,
and the process may be drained, killed and started again. `pipeline_exclusive`
is such an instance.

| Theorem | Statement | Inductive argument |
|---|---|---|
| `VerdictsAreEarned` | `ClientsWait => (Spec => []VerdictMatchesEvidence)` | `EvidenceInv`: at most one task writes to an email (an open re-queue or deletion is alone with a finished email, `RequeuesAreAlone`, and drops every link of the earlier run, `RequeuesDropAll`). So the row, the links and the pages of an email are a function of where its task is and of what it remembers |
| `LinksAreOfThisRun` | `ClientsWait => (Spec => []LinksMatchCount)` | the same invariant |
| `ColumnsAgree` | `ClientsWait => (Spec => []ColumnsMatchStatus)` | the same invariant |
| `PipelineImplementsLifecycle` | `ClientsWait => (Spec => FollowsLifecycle)` | the same invariant tells what row a step finds. The commits of a submit, a re-queue and a deletion are the lifecycle's `Create`, `Requeue` and `Delete`, the steps of a task are its `Start`, `Advance`, `Succeed` and `Fail`, and all others stutter |
| `VerdictsOnlyEscalate` | `finalise` gives a class that is never milder than stage 1's, and more pages never make it milder | about `Finalise` for any set of pages; no condition |
| `ConfidencesAreDecisive` | the confidence of a verdict that pages decide is the largest one of the deciding risk level, else stage 1's | about `Finalise` for any finite set of pages; no condition |

`ExtensionAuthProofs` proves for every set of accounts, tokens and requests and
every mix of operations:

| Theorem | Statement | Inductive argument |
|---|---|---|
| `TypeCorrect` | `Spec => []TypeOK` | with `TokensAreOwned`: `Commit` and `Cleanup` touch issued tokens, whose owner is an account |
| `StatusCutsAccess` | `Spec => []AccessIsCut` | `BarredStayOut`: who has been blacklisted ever since it asked is blacklisted now, so `Admit` and `Register` refuse it. No condition on overlaps |
| `BlacklistingRevokes` | `Exclusive => (Spec => []BlacklistedHasNoToken)` | `TokensInv`: requests at work are about different installs (`RequestsApart`), so what one has read still holds (`Know`), it has locked its own installs only (`Hold`), and every usable token of them is among those it has found or revoked (`Cover`) |
| `TokensAreReplaced` | `Exclusive => (Spec => []OneTokenPerInstall)` | the same invariant |

`Exclusive` is a condition on clients and admins, not something the code
enforces: `extension_race` shows that the third theorem fails without it.

`DashboardAuthProofs` proves for all users, pairs, requests and bounds:

| Theorem | Statement | Inductive argument |
|---|---|---|
| `TypeCorrect` | `Spec => []TypeOK` | `Types`: what is issued, revoked or asked belongs to a user |
| `RowsDecide` | `Spec => []PowersAreCurrent` | `Powers`: who has been barred since it asked is not entitled now and has got no further than its first read; nobody is at work while the application is down |
| `TokensFollowUsers` | `Spec => []TokensHaveUsers` | `Living`: a request that has inserted a pair has a user that is there, the rows it has revoked are in the table (`Backed`), and no other has deleted that user or the owner of those rows (`Apart`), which is what the locks are for |
| `RefreshTokensAreSingle` | `Spec => []OneRefreshToken` | `Single`: of two session requests under way for one user, the user is in `crossed` (history: such requests have overlapped). Any other request knows its user's tokens: a registration finds none, a refresh has the one it trades, a login and a logout have found and then revoked all (`Knows`). Nothing is assumed about clients |
| `LogoutsAreComplete` | `Spec => LogoutEndsSessions` | the same invariant, before the commit of a logout |

`LinkResolutionProofs` proves for every number of runs, links, permits and items
and every set of endless pages, from one inductive invariant `Inv`:

| Theorem | Statement | Inductive argument |
|---|---|---|
| `TypeCorrect` | `Spec => []TypeOK` | `PermitsAccount` bounds a permit that comes back; `LastExists` (bounded indexes have a last one, from the well-foundedness of `<`) gives `VerdictFrom` its item |
| `CapKept` | `Spec => []CapHolds` | `PermitsAccount`: permits and tasks at work add up. `AttemptBalances` shows it for each step of a task, and `Begun` keeps a run's begin from touching tasks at work |
| `BrowsersAccounted` | `Spec => []OneBrowser` | `LockHeld`: who starts a browser has the lock, and then there is none |
| `RowsFaithful` | `Spec => []RowsTellTheirLinks` | `Attempts` (what a task has heard, by its place) gives `ResultsFit`, and `RowsGathered` keeps it for the rows |
| `VerdictsLand` | `Spec => []VerdictsLandOnTheirPages` | `PromptFacts`: the loop that numbers the scraped rows gives the k-th of them the number k (`Rank`). A recursive function is a CHOOSE among the solutions of its equation, so the rank is shown to solve it and two solutions are shown to have no first difference (`PromptUnique`). `VerdictPicked` says which item of the answer a page gets |

`IntakeProofs` proves for every set of analyses, batches and reads, a pool of
any size, batches of any length and all confidences:

| Theorem | Statement | Inductive argument |
|---|---|---|
| `TypeCorrect` | `Spec => []TypeOK` | `PoolAccounts` bounds `free`, `WorkedOn` the loop of a batch |
| `ConnectionsAccounted` | `Spec => []PoolAccounts` | `Balanced`: whatever a request does, the pool changes by what its old and new place hold; cardinalities follow (`HoldingMoves`, `LoadMoves`) |
| `NothingLeft` | `Spec => []ErrorsLeaveNothing` | `AnalysisPlaces`: what an analysis has, by its place |
| `BatchesWhole` | `Spec => []BatchAllOrNothing` | `BatchPlaces`: the transaction holds what will be listed, or is dead and empty |
| `LabelsFaithful` | `Spec => []LabelsFollowClasses` | `LabelMeaning`, a lemma about `MapLabel` and `ShouldAlert` on all integers |
| `VerdictsDelivered` | `Spec => VerdictsAreDelivered` | the same invariant, before and after a step |

`DashboardReadsProofs` proves for every finite set of emails, all requests,
windows and filters and any page size:

| Theorem | Statement | Inductive argument |
|---|---|---|
| `ReadsTyped` | `SpecReads => []ReadsTypeOK` | `Shape`: the SELECTs an answer has had decide what it shows |
| `WalksFindAll` | `SpecReads => []WalkFindsAll` | `WalkInv`: an email that the walk has not seen is listed behind at least as many newer ones as its pages could show, so the next offset is not past it, and a short page reaches it |
| `DetailsShowEvidence` | `ClientsWait => (SpecReads => []DetailShowsEvidence)` | `DetailInv`: from the SELECT that finds the row complete, the row, its links and its pages stay as they are until the email is re-queued or removed (`Keeps`) |
| `SummariesAddUp` | `ClientsWait => (SpecReads => []SummaryAddsUp)` | `SummaryInv`: the counts shown add up to the size of the window (`SummarySums`), the early exits that were counted are a set of emails that still have that trigger, and a complete email stays complete (`SummaryKnows`) |
| `UsageIsConsistent` | `ClientsWait => (SpecReads => []UsageAddsUp)` | `UsageInv`: the emails that stage 3 was counted for still have pages when the early exits are counted |
| `ChartsAreConsistent` | `ClientsWait => (SpecReads => []ChartsAgree)` | the pipeline's `EvidenceInv`; the rest is counting: days, classes and triggers divide the window into disjoint sets |

The sums rest on `SumOfCounts` and `SumByKey`: the sizes of disjoint groups sum
to the size of their union. `Sum` is the community modules' recursive function,
again a CHOOSE: counting the union solves its equation (`SumChosen`), and of two
solutions a smallest set on which they differ is a contradiction (`SumUnique`).

The theorems rest on the named assumptions of the modules, which only say where
the constants come from. The inductive parts of the pipeline were checked with
TLC on the instances above before they were proved.

The library's induction theorems take an operator as a parameter and cannot be
used with the provers at hand. Where an argument is by induction on data (the
numbering of pages, the sums), the proofs take a least counterexample instead,
from the well-foundedness of `<` on the naturals and of inclusion on finite
sets.

Only model-checked: `EmailsSettle`, `RunsEnd` and `RequestsEnd`. They are
liveness under fairness, which is out of the prover's reach. Every invariant and
every action property that a passing run checks is proved, some of them, as
said above, under a condition that the code does not enforce.

## Disagreements between the code and what it says

1. `reanalyze` answers 409 "Pipeline is already running for this email / Wait
   for the current run to finish" only for RUNNING; a PENDING email gets a
   second run. The model follows the code (`pipeline_overlap` checks what holds
   all the same); no run is spent on it.
2. The drain "to let in-flight work finish cleanly" (repository README, line 62)
   cancels after 30 s and leaves rows that nothing resumes (`pipeline_drain`).
3. Rule 5 is commented "every one failed to resolve / scrape / analyse", but
   pages the LLM leaves out count as analysed and give `all_low`. The model
   follows the code; no run is spent on it.
4. The repository README, line 60, describes the early exit as confidence >=
   0.85 for any class; the code asks for PHISHING and > 0.85. The model follows
   the code; no run is spent on it.
5. The install management says "Every blacklist operation revokes the install's
   tokens in the same transaction", but a registration that has read ACTIVE
   before commits a token after it (`extension_race`).
6. The admin is "auto-seeded on startup if no admin exists" (`.env.example`,
   line 37), but once the seeded admin has given up its role the start fails on
   the unique email (`dashboard_seed`).
7. The repository README, line 46: "Login and refresh revoke all prior tokens
   for the user". `refresh_token` revokes only the refresh token it was given;
   the access token of that pair stays usable until it expires. The model
   follows the code; no run is spent on it.
8. The docstring of `allow_list.py` has the lists enforced by `require_install`
   too, and the repository README, line 227, has them asked "at register and on
   every protected call"; they are asked at registration only.
9. The repository README, line 56, unshortens "through a registry of known
   shorteners"; `is_shortener` is never called, every link is followed. The
   three attempts are the unshortening's; a scrape is one GET.
10. `link_unshortener.py` bounds its attempts "so a slow link cannot block the
    pipeline"; the scrape that follows is not under `wait_for` (`Endless` in
    `LinkResolution` and `InferencePipeline`). An email whose run meets such a
    page stays RUNNING, and `reanalyze` refuses it.
11. The answer "n emails submitted" of a batch also counts emails whose
    transaction a later flush has killed: they are listed and not stored
    (`BatchAllOrNothing` allows all or none).
12. `detector.py`, line 56, promises a probability in [0, 1]; `classify` does
    not check Groq's confidence. `threshold_used` is reported as 0.5, but the
    label follows the class: PHISHING with 0.3 is SPAM.
13. The event stores `request_id`, which a client may choose, in a
    `String(64)`: a longer one makes the INSERT fail, and the analysis with it
    (`Fail` in `Intake`).
14. `rate_limit.py`, lines 11-12, has the limiter cover the 401 path;
    `require_install` runs, and refuses, before the limiter's wrapper does. The
    comment of `middleware.py` calls the middleware that is added first the
    outermost; Starlette makes it the last one.
15. The repository README, line 17, calls the statistics pre-aggregated; they
    are computed on each request. The docstring of `InferenceStatsService`
    speaks of not opening a transaction; SQLAlchemy opens one with the first
    SELECT (READ COMMITTED, hence `DashboardReads`).

## Plan

1. Done: `InferencePipeline`, `Aggregation`, `EmailLifecycle`; `ExtensionAuth`;
   `DashboardAuth`; `LinkResolution`; `Intake`; `DashboardReads`; their runs and
   the theorems above.
2. Done: the proof of every safety property of these runs, and of the
   refinement of `EmailLifecycle`.
3. Open: what of the pipeline's `ClientsWait` theorems survives overlapping
   re-queues, stated and proved without the condition; an abstract
   specification of a token's life that `ExtensionAuth` and `DashboardAuth`
   implement; per-request history in `ExtensionAuth` and `DashboardAuth`, so
   that a revocation that overlaps nothing can be shown to undo what earlier
   overlaps have left.

## Not modelled, and why

Configuration loader: it runs once, alone, before anything else, and is a pure
function from a file and the environment to values or a list of errors; a unit
test reaches all of it. Error envelopes, middleware, logging, migrations: they
keep no state the properties speak about. Google's verification, the allow-list
and the rate limits are checks before `register` does anything, and
`ExtensionAuth` starts from the accounts that pass them. Prompt texts, HTML
parsing and the wording of notes: data the control does not depend on. Real
time: the 1 s wait for the row, the 30 s drain and the pool's timeout are
choices (`late`, `DrainTimesOut`, `PoolTimesOut`). Growth of one email's history
beyond three requests, and several processes: the service runs as one.
