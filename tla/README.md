# A TLA+ model of the thesis review system

The repository is a thesis pre-review system: an Angular client (`apps/web`), a
Node API (`apps/api`), a Python worker (`services/worker`) and Postgres.  A
reviewer signs in, uploads a thesis, starts a review run, reads its findings and
approves it on a board; an administrator chooses the LLM providers.  These
modules describe the parts of that program that keep state and run
concurrently, check them with TLC on small instances, and prove most of their
safety properties with TLAPS for every value of the constants, among them that
the review pipeline implements what it promises its clients.

Paths below are relative to the root of the repository; `api/` stands for
`apps/api/src/`, `worker/` for `services/worker/app/` and `web/` for
`apps/web/src/app/`.

## Inventory

| component | state | operations | calls and is called by |
|---|---|---|---|
| lifecycle, `api/review-runs/review-run-lifecycle.mjs` | runs by id, idempotency index, run ids by document and pipeline version | start, transition, cancel, mark failed, get | started by the HTTP contract; awaits the queue; moved by the orchestrator |
| queue, `api/jobs/inline-review-queue.mjs` | memo of finished jobs | add | awaits the orchestrator's processor |
| orchestrator, `api/jobs/review-orchestrator.mjs` | database id of each run; locals of each processor | one processor per started run | lifecycle, repository, worker |
| repository, `api/db/review-repository.mjs` | Postgres: documents, runs, pages, sections, findings with evidence, workflow items, normative sources | one transaction or statement per method | called by everything in the API |
| live pipeline, `api/live-review-pipeline.mjs` | documents in memory, cached repository, pipeline and normative source ids | register upload, look a document up, extract, review with the active provider | wires the above together |
| HTTP contract, `api/api-contract.mjs` | stub lifecycle | upload, start, run view, findings, artifacts, board, priority, approval | called by the framework adapters |
| upload and storage, `api/thesis-documents`, `api/storage` | objects and their metadata on disk | process an upload, put, get | live pipeline |
| authentication, `api/auth-contract.mjs`, `api/db/reviewer-repository.mjs` | reviewers, sessions, failed-login counters, throttle map | login, logout, session check, reset, deactivate | every route |
| provider administration, `api/admin-contract.mjs`, `api/db/provider-config-repository.mjs` | provider rows, one active per role | create, update, activate, read the active one | admin page; live pipeline |
| CAG review, `worker/cag_review.py` | none between requests | plan chunks, triage, judge, ground, deduplicate, sort | called over HTTP by the orchestrator |
| extraction, `worker/extraction.py` | none | pages, headings, sections with page ranges | called over HTTP |
| rules, `worker/rules` | none | run the rules, apply threshold and precedence | called over HTTP |
| web client, `web/` | session in the browser, fetched cards and runs | login, upload, start, board, results, report | HTTP contract |

What is hard in it:

* The API is one thread, but every `await` is a point where another request
  runs.  A start request awaits the whole pipeline, minutes long, in the middle
  of `startReviewRun`.
* The state of a run is kept twice: in memory, where the status machine moves,
  and in Postgres, where three stamps (`started_at`, `completed_at`,
  `failed_at`) are written and the `status` column never leaves `queued`.  The
  client reads the first, the board derives a status from the second.
* A database call can fail, or commit and lose its answer; the process can
  restart, which loses the first copy and keeps the second.
* Two review paths, rules and CAG review, are meant to fail independently.
* Findings point to pages and sections written in earlier transactions.
* A run can be cancelled in the lifecycle while its processor waits for the
  worker, and nobody tells the processor.  No route calls `cancelReviewRun`
  yet; the service exports it and its tests use it.

`PROJECT.json` lists these and the other hazards at their lines.  What would
make each component correct:

* *lifecycle, queue, orchestrator*: one row per run however starts interleave;
  a status, an answer and a row that never contradict each other; a completion
  that says what was reviewed and what failed; every start answered, every row
  ended.
* *repository, board*: the card shows the outcome of the newest run; an approval
  is about the document it was given for.
* *documents*: one identity per content, no upload acknowledged that cannot be
  reviewed later, also after a restart.
* *authentication*: the throttle counts every failure it is not told to forget, a
  revoked session never passes again.
* *providers*: at most one active per role, a review uses and records one.
* *worker*: every page is in a chunk, every finding kept is grounded and above
  the threshold, sections form a tree with sane page ranges.
* *web client*: nobody stays on a guarded page signed out, a page polls until it
  has an outcome and no longer, and the outcome it shows is the run's.

## Modules

| module | what it is | runs, proofs |
|---|---|---|
| `ReviewRunStatus` | the status machine: statuses and `NEXT_STATUSES` as a relation | with `ReviewPipeline` |
| `ReviewRunContract` | abstract specification: what clients and the database may rely on | property of `pipeline_safety`, `ReviewContractProofs` |
| `ReviewPipeline` | start requests, lifecycle, queue, orchestrator and the rows they write | five runs; `ReviewPipelineProofs`, `ReviewCompletionProofs`, `ReviewContractProofs` |
| `DocumentRegistry` | upload page, object storage, document rows, registry, and what a started review reads | `documents`, `document_read_back`, `DocumentRegistryProofs` |
| `ProviderAdmin` | admin page, its requests, the transactions at Postgres, the reviews that read providers | `provider_admin`, `ProviderAdminProofs` |
| `ReviewerAuth` | login with both throttles, logout, session check, the operator's command | `reviewer_auth`, `ReviewerAuthProofs` |
| `ReviewBoard` | cards, approval, priority, run view and report, on rows shared by runs | `review_board`, `ReviewBoardProofs` |
| `ReviewerTab` | a browser tab: session, guard, interceptor, pages, polls, answers in any order | `reviewer_tab`, `results_findings`, `ReviewerTabProofs` |
| `MC...` | the sets and symmetries of the small instances | |

How they fit together.  `ReviewPipeline` follows one request through the whole
pipeline and takes documents, findings and providers as given.
`DocumentRegistry` is what happens before its first step and in its extraction,
`ProviderAdmin` is where the CAG review gets its providers.  `ReviewBoard` takes
the pipeline's writes to the rows as its own actions, one for each write the
board and the report read, so that several runs, documents and readers fit in
one instance; `ReviewerTab` takes the API as a set of accepted sessions and one
run that ends.  The seams are the interfaces of the code: a row id, a document
id, a status, a session token.

In every module an action is the code between two awaits (in the tab, one
event handler).  Definitions commented as *Variant* are not part of any
specification: each is a definition as a plausible mistake would have it, and
shows that the property named in `PROJECT.json` notices it.

### ReviewPipeline

A run is a pair of a document and a pipeline version: `resolveRunId` returns
one id for one pair and no id for two pairs.  The variables and the code:

| variables | code |
|---|---|
| `status` | `reviewRunsById` and `idempotencyIndex`; `"none"` when the run is not in them |
| `runRow` | `reviewRunDbIdByLifecycleId` |
| `processed` | `processedJobs` of the queue |
| `warm` | `uploadedDocuments`: documents found without a query |
| `pc`, `runOf`, `answer` | one POST request: where its chain of awaits is, its run, its answer |
| `row`, `ruleError`, `ruleFindings`, `llmError`, `reviewFindings` | locals of the processor the request awaits |
| `rows` | `review_run` with its stamps, and how much of `document_page` and `document_section` is there |
| `findings` | `finding` with its evidence, by run |
| `item` | `review_workflow_item.review_run_id` |
| `crashes` | restarts so far; `rows[i].epoch` is the lifetime a row was inserted in |

An action is the code between two awaits, and begins with the answer of the
call it waited for: the commit of a database call and the code after it are one
step.  That is sound for the properties here because nothing reads a row
between its commit and the continuation except the board, and because a crash
or a cancellation between the two leaves the same state as one on either side.

| action | code |
|---|---|
| `Post`, `LookupFails`, `JoinRun`, `CreateRun` | the route, the document lookup, `startReviewRun` with a known or a new key |
| `InsertReviewRun`, `StampStarted` | row and workflow item in one transaction; `started_at`, then extracting |
| `Extract`, `InsertDocumentPages`, `InsertDocumentSections` | worker call with its timeout; the structure, before any finding |
| `RunRules`, `PersistRuleFinding`, `FinishRules` | the rule path: the call in its own try block, the loop without one |
| `RunCagReview`, `PersistLlmFinding`, `FinishLlm` | the CAG path; two failed paths throw |
| `Complete`, `Catch` | completion and transition; the catch block with its swallowed update, and `markJobFailed`, which may throw |
| `Cancel`, `Crash` | `cancelReviewRun`; death and restart of the process |

A database call ends as `ok`, `error` (nothing written) or `lost` (committed,
the connection breaks before the answer).  A candidate finding is reduced to
what decides whether `persistFinding` stores it: producer, page, section title,
section index, and whether its values satisfy the table's checks.  Row ids are
arbitrary unused values, because Postgres draws them before the workflow item
is locked and two inserts may commit in the other order.

### ReviewRunContract

Status moves along the machine; a request is answered once, with a refusal or
the status of that moment; a durable record is opened, gains findings one at a
time while open, is sealed completed or failed and never changes its findings
again; no run becomes completed before a record of it is sealed completed.
`ReviewPipeline!Contract` maps `asked` to `runOf`, records to row ids, the seal
to the two stamps (failed wins, as on the board) and the content to `findings`.

### DocumentRegistry

| variables | code |
|---|---|
| `file` | objects below the storage root: content, and whether all of it is written |
| `rows` | `thesis_document`, by id |
| `memory` | `uploadedDocuments` of the live pipeline |
| `run` | documents for which the lifecycle has a run |
| `page` | an upload page and where its request is in the API |
| `acked` | history: documents acknowledged as persisted |

`Submit`, `Reject`, `OpenFile`, `FillFile`, `DiskError`, `Register` are the
upload: the page's own check, the API's check, the two moments of `writeFile`
(truncated, filled), the write that fails, and the insert that ends in one of
five ways.  `Lookup`, `InsertRun`, `Extract`, `Navigate` are the start of a
review, which looks the document up three times; `Restart` clears the memory.

A document is known by the digest of its content and an object by content and
name.  So the same bytes under another name get a second row and a second card,
while a start returns the run of the first; the model has this case (three files
of two contents).  Under the same name the unique key makes the insert fail, and
the upload is answered 201 all the same, as for every database error that is not
a broken connection: the answer then tells of a document that may have no row.
`acked` therefore counts only uploads whose insert was committed or found to be a
duplicate.  A connection that breaks after the commit is answered 503 if its code
is in `CONNECTION_ERROR_CODES` (`"lost"`), and 201 without an entry in the registry
if it is not, as ECONNRESET (`"reset"`); the document is then found by its row.
The check of the page mirrors the API's, except that an empty file passes it: the API turns it down, which is `Reject`.

### ProviderAdmin

| variables | code |
|---|---|
| `row` | `llm_provider_config` as committed: active or not, and which row the key was typed for |
| `req` | the requests of the page, with the transaction each runs: rows seen, deactivated, activated |
| `page` | the list, `submitting`, and the form with its key field |
| `review` | a review: what it has read, and which providers were active since it started |

Postgres is modelled at READ COMMITTED: a statement sees what was committed when
it began, waits for row locks and looks again; the unique index on
`(role) WHERE is_active` waits for the transactions that change entries of the
role.  `LockTarget`, `FindActive`, `Deactivate`, `SetActive` and `Commit` are the
activation, one action per statement, with `Deactivate` in two (snapshot, then
locks).  The page's `Edit`, `CancelEdit`, `TypeKey`, `Submit`, `Activate`,
`ListArrives`, `SaveArrives` are the handlers of `admin-providers-page.ts`; only
the submit button is disabled while a submission runs.  `Start`, `ReadJudgment`
and `ReadTriage` are the review.

The model shows what overlapping activations do: the loser runs into the index
and is answered 500, its role keeps the winner.  The two roles are read by two
queries, so a review may use a pair that was never active together; the documents
promise only each role by itself, and so does `SwitchTakesEffect`.

### ReviewerAuth

The reviewer rows with their stored counter, the map for unknown addresses with
its bound and order of eviction, the sessions, and three kinds of requests
besides the operator's `seed-reviewer` command, which runs in its own process.
Three variables are history and never read by an action.  `since` counts the
failures of an address since its last success or reset, whatever evictions,
restarts and overlaps do to the stored counter.  `lost` says how many of them were
forgotten while nobody had the address: all of them at a restart, and those of the
oldest entry when the map is full and a new address enters (`Evicted`, stated by
this rule and not by what the code removes).  `raced` holds the addresses whose
counter may have been written from a stale reading: two writers met at it, or its
entry was dropped while a login of it was in flight, which brings back the count it
had read.  An address leaves it with the next success, reset or creation that meets
no other writer, and an unknown one with its eviction or a restart as well.

The counter is read, the password is hashed, the counter is written: two
overlapping failures of one address may be counted once.  That is what the code
does, and so the throttle misses failures in three cases, which the comment of
`FailuresCounted` names: forgotten ones of an unknown address, overlapping writers
until the counter is cleared, and a failure whose write the database refuses, which
is answered with an error.  Outside these it counts exactly; a map that dropped
anything else, or took no new address, would violate it.
`ThrottledOnlyAfterFailures` has no exception.

`reset-password` does not revoke sessions, so a session of the old password lives
on to its expiry; `DeniedStaysDenied` is therefore about deactivation, expiry and
logout.  The run has one logout; that overlapping ones are final too is the theorem
`LoggedOut`.
Two overlapping logouts are both answered 204 and both audited, although the
comment at `api/auth-contract.mjs` 416-419 says that only one of them is; audit
events are not modelled.

### ReviewBoard

Documents, workflow items and runs as rows, the lifecycle's status in memory,
and requests: a reviewer who is shown a card (`PickCard`), sends its id back with
an approval or a priority and reads the card again (`ReadBack`), and a report that
reads status, summary and findings in three calls.
A document older than the items table (`Legacy`; migration 0004 creates the table
and fills in nothing) has a card without an item until its first start, and its id
is `board_<document id>`.  Both ids are drawn from 1 on, so it may be the id of
another document's item, and a decision then goes to the wrong document.
`legacy_card` shows that; in `review_board` the ids clash too, and the properties
say exactly what is left: `named`, a history field of a decision, tells the cards
that carried an item's id from those that carried a document's, an approval of the
first kind never goes astray, and one of the second reaches no other item than the
one with that number.  An insert draws its id, upserts the
item and commits in three steps, so two starts of one document can commit in
the order opposite to their ids.  A cancelled run is not modelled here: the rows
know no cancellation and a card is never cancelled.  A report whose summary cannot
be read counts nothing and goes on, as the code does.  `BoardsAgree` is about the two mappings of a status to a
column: the web client's board page fetches without a session and never shows the
cards of the API.

### ReviewerTab

The session store, the guard and interceptor, the login page, the results page
with its poll, the student page, and the requests in flight, each sent, answered
and handled in three steps.  Each request has a slot while it is in flight
(`requests`), and which slot says nothing.  Nothing unsubscribes when a page is left, so answers
arrive for pages that are gone and their polls go on (`strays`); a request for
findings or details whose page is gone tells nobody anything but a 401, and the
two are one kind then.  A late 401 of
an older session clears the session of a newer login; the model allows it and
`SignedOutIsAtLogin` says where it ends.  The student page asks the run view for
`review_run_<n>`, an id only the board uses, and gets the stub.  After a restart
of the API the results page polls a stub that says queued.  A request for
findings that fails shows a completed run as one without findings.

The run may also be cancelled.  No route cancels one today, so `CancelEnabled` is a
constant; the service exports `cancelReviewRun` and the client names the status as
terminal (`web/results/results-view.ts` 15).  `buildResultsViewModel` (63-75) has no
view for it and falls through to findings or none, whose templates print "Status:
completed".  The student page shows the card, which is read from the row; a
cancellation is not written to the row, so a cancelled run ends there as completed
or failed (`CardViews`).  `OutcomeIsTrue` names this exception, and claims the
outcome of every other run.  The board
page fetches without a token and keeps its demonstration cards; `logout()` of the
client's auth service is called by no page, so a session ends only by a 401.

## Runs

| run | instance | shows | distinct states |
|---|---|---|---|
| `pipeline_safety` | 2 requests, 1 document, 2 versions, 2 rows, 1 rule and 2 CAG candidates, all database outcomes, 1 restart, cancellations | the safety properties of the pipeline and `ImplementsContract` | 980 000 |
| `pipeline_liveness` | the same, database answers, no restart | `BoardAgrees`, every request answered, every row ended | 235 000 |
| `documents` | 2 pages, 3 files of 2 contents, all outcomes of disk and database, 1 restart | an acknowledged document is never forgotten, no row without file, no review of the wrong document, every submission ends | 989 000 |
| `provider_admin` | 3 rows (2 of one role), 2 requests at a time, 1 review, failures | one active row per role, no role left without, no deadlock, keys stay with their row, a switch takes effect on the next run | 2 730 000 |
| `reviewer_auth` | 3 addresses (1 with an account), 3 logins, 1 logout, 1 protected request, 1 command, 1 tick, 1 restart | the throttle invents no failure and misses only those it may; a login is earned, a denial and a logout last | 4 660 000 |
| `review_board` | 2 documents (1 without item, with the id of the other's), 2 runs, 2 decisions, 1 report, all database outcomes, 1 restart | board, report and decisions tell what happened; an approval goes astray only over a card without an item | 6 700 000 |
| `reviewer_tab` | 3 requests in flight, 1 live session at a time, 1 poll of a page that was left, failures, a run that may be cancelled | signed out is at the login page, one poll until the outcome, true outcomes but for a cancelled run, the page settles | 1 110 000 |
| `independence` | 1 request, everything answers | violated: a finding that cannot be stored fails the run although both paths succeeded | |
| `legacy_card` | 2 documents, 1 run, 1 decision, nothing fails | violated: approving the card of a document without an item approves another document | |
| `restart` | 1 request, 1 restart | violated: the row stays open for ever | |
| `document_read_back` | 2 pages, nothing fails | violated: a repeated upload truncates the object a review is reading | |
| `results_findings` | 2 requests in flight, nothing fails | violated: a completed run is shown without its findings | |

Why these bounds are enough.

* *Pipeline*: two requests for two versions cover the same run started twice, two
  runs of one document side by side, a start after the end of the other and a
  start after a restart.  Requests interact only through the entry of their run,
  the memo and the workflow item, so a third adds another of the same pairs.  Each
  request inserts at most one row.  The candidates give a loop of findings that
  ends, one interrupted after a stored finding and one interrupted before.
* *Documents*: two pages give every overlap of two uploads of one file and of an
  upload with a review; the three files give the same content under two names and
  two contents under one name.
* *Providers*: two rows of one role are what an activation has to choose between,
  the third shows that the other role is left alone; two transactions are what the
  locks and the index are about.  One row does not exist at first and is created.
* *Authentication*: the threshold is 2, so that three logins reach it, pass it and
  overlap at it; the map holds one entry, so that the second of the two unknown
  addresses evicts the first, also during a login of the first.  A map of one entry
  does not show which of several is dropped; that is in the theorem `Counting`, for
  maps of any size.  One tick of the clock ends the window and the session.
* *Board*: two runs of one document commit in either order; two decisions meet on
  one card; items and documents have the same ids; one report meets a run that goes on and a restart.
* *Tab*: a page asks for two things at once, the third request is one of a page
  that was left.  Tokens are reused when their session has ended and no request
  carries them, so one live session at a time does not bound the logins.

The row ids of the pipeline, the slots, login requests, the addresses nobody has at
first and reviewers are symmetric in the safety runs; no run with a liveness property uses symmetry.
Deadlock is not checked where the requests are a finite supply and the system
rests when all are served (pipeline, authentication, board); it is checked in the
others.

### Fairness

* `ReviewPipeline`: weak fairness of each request's own steps.  The event loop
  runs every continuation, the worker calls carry `AbortSignal.timeout` (30 s,
  30 s, 900 s), a database call is assumed to answer or break.  Nothing obliges a
  client to post, anybody to cancel, or the process to restart.  The liveness run
  assumes that the database answers: with `error` allowed the update in the catch
  block may fail too, and the row stays open.
* `DocumentRegistry`: weak fairness of each page's request, through upload and
  review; nobody must submit, and the submission ends also when the disk, the
  database or the process fails.
* `ReviewerTab`: each request in flight is answered or fails and then its handler
  runs (weak fairness of each slot), and the poll timer fires.  The timer is given strong fairness only because the bound on requests in
  flight, which a browser does not have, would hold it back now and then.  The
  run itself need not progress.
* The other modules have safety properties only and no fairness.

### Where the code and its documents differ

* `api/jobs/review-orchestrator.mjs` 237-243 calls the two paths persisted
  independently and both failing the only case that fails a run; its persist loops
  are not guarded, and one finding that cannot be stored fails the run
  (`independence`).
* `openspec/specs/vertical-slice-cag-review/spec.md` 70 says that the request does
  not return before the outcome; a second start of a run in progress does, as
  `api/review-runs/review-run-lifecycle.mjs` 47 hands out the run as it is.  The
  contract permits it: `AnswerIsFinal` speaks of final answers.  No run is about it.
* The same file, 62-64, says that the row must reach a terminal status; a restart
  leaves it open and nothing looks for such rows (`restart`).
* `api/storage/object-storage.mjs` 47-51 says that the bytes can be read back by a
  follow-up request; line 75 truncates the object when the same file is uploaded
  again, and a review reading meanwhile gets a cut file (`document_read_back`).
* `web/results/results-page.ts` 20-22 says that the page shows the real findings
  once the run is terminal; run and findings are asked for side by side, and when
  the findings are read before they are stored and the run after it has ended, line
  186 stops asking (`results_findings`).
* `openspec/specs/reviewer-workflow-board/spec.md` 24 says that only an explicit
  action approves, and `api/api-contract.mjs` 225 that a card id is the id of a
  workflow item; a card without an item carries the id of its document, and its
  approval is another document's (`legacy_card`).
* `openspec/specs/reviewer-authentication/spec.md` 55-59 throttles after a number of
  consecutive failures without exceptions; evictions, restarts and overlapping
  attempts make the code miss some, as `FailuresCounted` says.
* A cancelled run is shown as "Status: completed", as said under `ReviewerTab`.
* The comment at `api/jobs/review-orchestrator.mjs` 139-143 says that any failure
  is recorded on the row; the update that records it is followed by
  `.catch(() => {})`, and an insert that commits without an answer leaves a row
  no processor knows.  Both are behaviours of the safety run.
* The `status` column is written once, as `queued`; the specification's line 71
  says it reflects the outcome.  The board derives the status from the stamps.

## Proofs

All theorems hold for every value of the constants, any number of requests,
pages, rows, restarts and failures.

| module | theorem | property |
|---|---|---|
| `ReviewPipelineProofs` | `TypeCorrect`, `OneRow`, `Durability`, `Finality` | `TypeOK`, `OneRowPerRunAndLifetime`, `CompletedIsDurable`, `AnswerIsFinal` |
| `ReviewCompletionProofs` | `CompletedHonestly`, `Structured`, `Agrees` | `CompletionIsHonest`, `FindingsHaveStructure`, `BoardAgrees` |
| `ReviewContractProofs` | `Implements` | `ImplementsContract` |
| `DocumentRegistryProofs` | `TypeCorrect`, `Known`, `Stored`, `Durable`, `AboutItsDocument` | `TypeOK`, `AcknowledgedIsKnown`, `RowsHaveFiles`, `MemoryIsDurable`, `ReviewIsAboutItsDocument` |
| `ProviderAdminProofs` | `TypeCorrect`, `OneActive`, `KeysStay`, `SwitchIsSeen`, `Served`, `NobodyStuck` | `TypeOK`, `OneActivePerRole`, `KeyStaysWithItsRow`, `SwitchTakesEffect`, `RoleStaysServed`, `NoDeadlock` |
| `ReviewerAuthProofs` | `WellTyped`, `Throttling`, `Counting`, `Earned`, `Denied`, `LoggedOut` | `TypeOK`, `ThrottledOnlyAfterFailures`, `FailuresCounted`, `LoginIsEarned`, `DeniedStaysDenied`, `LogoutIsFinal` |
| `ReviewBoardProofs` | `TypeCorrect`, `OneCard`, `LastStart`, `Explicit`, `Lasting`, `Reports`, `Boards` | `TypeOK`, `OneCardPerDocument`, `CardShowsLastStart`, `ApprovalsAreExplicit`, `ApprovalIsKept`, `ReportIsTrue`, `BoardsAgree` |
| `ReviewerTabProofs` | `WellTyped`, `SignedOut`, `OnePoll`, `TrueOutcome`, `OutcomeStays` | `TypeOK`, `SignedOutIsAtLogin`, `OnePollUntilSettled`, `OutcomeIsTrue`; `OutcomeIsKept`, stated there |

The assumptions are the ones named in the modules.  `PipelineAssumption`,
`RegistryAssumption`, `ProviderAssumption`, `AuthAssumption`, `NoneAssumption`,
`BoardAssumption` and `TabAssumption` say that `None` is none of the values it stands beside, that the
sets of outcomes are among those listed, that bounds are
numbers, that the tab has finitely many slots and at least two, and that files,
candidates and roles are what they are called.  One theorem assumes more, in its
statement: `Agrees` assumes `Reliable`, that the database answers and the process does
not restart, the conditions of `pipeline_liveness`; without them the two copies of
a status do part (`restart`).  The inductive
invariants were checked with TLC on instances like those of the runs before they
were proved.

*Pipeline.*  `TypeOK` is inductive only together with `Asked` (a posted request
has a run).  The other three need ownership: from the step that creates a run
until its processor ends, the run's status is not final (`OpenRun`), no other
request is in the processor for it (`OneExecutor`), and the processor's row is the
run's row and not stamped failed (`OwnRow`).  `CompletedIsDurable` follows because
a row is written only by its owner, whose run is not completed;
`OneRowPerRunAndLifetime` because a row of this lifetime means that the lifecycle
knows the run and that nobody is about to insert for it (`RowOfLifetime`).  The
eleven steps in the middle of the processor have one shape, `Work`, for which the
preservation is proved once.

*Completion.*  A processor knows its row from the insert on, and no two requests
have one row (`HonestInv`).  At each of its steps the row says how far it has come:
the structure before the first finding, then exactly the candidates its locals say
have been stored, then the paths that failed.  So when it writes the completion,
the row already says what the completion claims, and afterwards nobody writes it.

*Contract.*  The initial states satisfy the contract's.  Each action of the
pipeline moves at most one status, answers at most one request and writes at most
one record, and the proof says for each of the three kinds of change which step of
the contract it is, or that it is a stutter.  Two facts about reachable states are
needed besides the invariants above: a request that has not ended has no answer
(`Unanswered`), and the status it is answered with is the one of that moment.

*Agreement.*  When every database call answers, a processor past its insert knows
its row, the lifecycle knows it too, and whatever ends the processor stamps that
row before or with the transition; until then the run it works for is neither
completed nor failed, and a cancelled run is found out at the next transition and
its row is stamped failed (`AgreementInv`, `Outcome`).

*Documents.*  The argument is that files and rows only grow: a file that is there
keeps the content of its key (`FilesKeepContent`), a row is of a file that was
opened before (`RowsAreOfFiles`), and the rows of a content never become fewer.
So what a page knows (`PageInv`: its file was opened, its document has a row, its
row and what it read are of that document) survives the steps of all others, and
`Resolve`, which takes the newest row, finds one (`MaxExists`: a non-empty set of
row ids has a largest member).

*Providers.*  The argument is about the unique index.  A transaction that may
commit has taken down every other active row of its role (`TransactionInv`), and
no other transaction has changed a row of that role since (`Exclusive`):
`SetActive` goes on only when no entry of the role is pending, and `Deactivate`
waits for the locks of a transaction that is about to commit.  A commit therefore
leaves exactly one active row in its role and the other role as it was
(`CommitRows`), which gives `OneActive`, `Served` and, because the history of a
review contains what is active now for every role it has not read (`ReviewInv`),
`SwitchIsSeen`.  `KeysStay` rests on the form and the requests in flight: a key
belongs to the row being edited, or to none (`PageInv`, `ContentInv`).

`NobodyStuck` is about any number of requests.  Two transactions never hold one row
(`Disjoint`), and a row that is held is switched by nobody else, so what an
activation found of its own row stays true and the rows it has taken down are still
active in the table until it commits (`Snapshot`).  Hence the index never makes two
activations wait for each other: both would have taken down an active row of their
role, and there is only one.  An activation that waits for the row of another has
found that row active; if the other had looked earlier, it would have found its own
row active, and would wait for nobody.  So it looked later (`Behind`, `Ordered`: there
is a rank of the requests that grows along the waiting), and the one that looked last
does not wait.  Three judgment rows and three slots are the least where one activation
waits for another in this way; the invariant was checked with TLC on that instance.

*Authentication.*  Every request carries what it has read, and nothing it still
relies on is undone meanwhile (`AuthInv`): an account never disappears and, once
deactivated, is never active again; a session is written by its own login, belongs
to its address, is there before its token is handed out, and is from then on only
revoked.  What a login read of an account agrees with its password only if the two
agreed at that moment, which is `LoginIsEarned`; a session that was denied when a
check began is denied when the check reads it.

The throttle needs a second invariant (`CounterInv`).  A stored counter is *backed*
by requests that failed: as many as it counts, or the threshold if a window was
opened, and so is every counter that a login has read and not yet written back
(`Backed`).  A write puts the successor of such a counter in its place and adds its
own failure, so overlapping logins may lose failures and never invent any, which is
`Throttling`.  For `Counting` the counter equals `Counted` modulo the threshold
unless the address is raced (`Counts`): all failures of an account, and of an unknown
address those that are not `lost`, of which there are never more than failures.  What
a login has read of an address that is not raced is still what is stored (`Reading`),
and no second login of that address is in flight (`Alone`); so an address leaves
`raced` only when its counter is fresh and nobody is about to write it.  The map is
reasoned about as a set of entries (`Entries`): touching one changes its place only,
storing one replaces it and drops the oldest other entry when there is no room
(`Oldest`), which is the address that `Evicted` names; its counter is then fresh and
all its failures are lost, or, if a login of it is in flight, it is raced.

*Board.*  The argument is about the workflow item (`RowsInv`): once an item has a
document it keeps it; a start between its upsert and its commit holds the item of
its document, or one that is nobody's, and no other such start is about the
document.  So a document has one item, the item names the run committed last, and
`CardId` and `CurrentRun` take the maximum of a set of one element (`CardOfItem`).
A decision carries the id of an item that keeps its document, or, as `named` records,
that of a document that had none, and no step takes an
approval away (`DecisionInv`).  A run that is stamped completed and that nobody
works on is never written again, so what a report was given of it stays true
(`ReadingInv`).  `Boards` needs no invariant: the two projections agree on any rows.

*Tab.*  The argument is about what is in flight.  An answer on its way is true
(`Truthful`): a run ends once and its findings are not taken away, so what was
true when the API answered is true when the tab handles it, however late; a card
alone may end otherwise than a cancelled run (`EndedAs`).  The
requests of the page that is shown are of the kinds this page asks for
(`OfPageKind`), so an answer never changes another page.  A results page that is
not settled has its timer and no request for the run, or one request and no timer
(`PollInv`), so an answer for it finds it unsettled and leaves it with the timer or
settled; hence also `OutcomeStays`, that a settled page never goes back to waiting
(which was also checked with TLC on the instance of `reviewer_tab`).  A page that is
left takes its requests with it as requests of nobody (`Leaving`), and the next page
starts with none of its own, which is where polls could have doubled.  That the poll of a
page can always be left behind within the bound is `QuotaInv`.  A page without a
session is the login page (`PageInv`) because the three handlers that change the
session show a page in the same step and `requireSession` chooses it.

Only model-checked: the liveness properties (`EveryRequestAnswered`,
`RowsReachTerminal`, `SubmissionEnds`, `ResultsSettle`), because
liveness under fairness is out of the prover's reach.  The runs that expect a
violation state what is false and have nothing to prove.  Every other property of
a passing run is a theorem.

## Not modelled

* The worker (`worker/`): extraction, rules, CAG review and its endpoints.  Each
  answers one request from its arguments and keeps nothing between requests; what
  it can answer, or that it fails or times out, is a choice in `ReviewPipeline`.
  Its algorithms compare texts and similarities, and a model that abstracts the
  texts says nothing about them.
* Normative sources and retrieval: inserts of what is missing, a cache of ids and
  a ranking of vectors.
* The migration runner, the framework adapters' bootstrapping, request validation
  that changes nothing, pagination, search and filters, rendering.
* Audit events: written and never read by the code.
* Password hashing and the cipher of the keys: library calls, modelled by which
  password or key they stand for.

## Plan

1. More of what a step may never do, proved from the invariants that are there: in
   the board, that a card never goes back to an earlier start; in the registry, that
   a document that is known is never forgotten within one life of the process.
2. Normative sources: two processes that seed at once.
