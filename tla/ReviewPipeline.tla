--------------------------- MODULE ReviewPipeline ---------------------------
(***************************************************************************)
(* The review pipeline of the API process: the start request, the          *)
(* in-memory lifecycle service, the inline queue, the orchestration        *)
(* processor it awaits, and the review_run rows, findings and workflow     *)
(* items it writes to Postgres.                                            *)
(*                                                                         *)
(* The API is one JavaScript thread: the code between two awaits is one    *)
(* action, and requests interleave only at awaits.  A repository call is   *)
(* one transaction or one statement, so it is one action as well; it       *)
(* answers "ok", fails with nothing written ("error"), or is committed     *)
(* while the connection breaks before the answer ("lost").                 *)
(***************************************************************************)
EXTENDS Naturals, ReviewRunStatus

CONSTANTS
  Documents,       \* uploaded thesis documents, each with its database row
  Versions,        \* pipeline versions a client can name
  Requests,        \* POST .../review-runs requests, each used once
  RowIds,          \* identities of review_run rows
  None,            \* no run, no row
  RuleCandidates,  \* findings the rule engine may return
  LlmCandidates,   \* findings the CAG review may return
  DbOutcomes,      \* how a database call may end
  MaxCrashes,      \* bound on the restarts of the API process
  CancelEnabled    \* whether cancelReviewRun is ever called

(* A run is identified by its document and pipeline version: resolveRunId  *)
(* returns the same id for the same pair and never gives one id to two.    *)
Run == Documents \X Versions
DocumentOf(r) == r[1]

(* What decides whether persistFinding stores a finding: does the producer *)
(* name a page and a section title; is the section index absent, one of    *)
(* the inserted sections, or unknown; do the values satisfy the table's    *)
(* CHECK constraints and is the evidence text non-empty.                   *)
Candidate ==
  [producer : {"rules", "llm"}, page : BOOLEAN, title : BOOLEAN,
   section : {"null", "known", "unknown"}, wellFormed : BOOLEAN]

ASSUME PipelineAssumption ==
  /\ None \notin RowIds
  /\ None \notin Run
  /\ RuleCandidates \subseteq { c \in Candidate : c.producer = "rules" }
  /\ LlmCandidates \subseteq { c \in Candidate : c.producer = "llm" }
  /\ DbOutcomes \subseteq {"ok", "error", "lost"}
  /\ "ok" \in DbOutcomes
  /\ MaxCrashes \in Nat
  /\ CancelEnabled \in BOOLEAN

VARIABLES
  \* the memory of the API process
  status,          \* reviewRunsById and idempotencyIndex: "none" if no entry
  runRow,          \* reviewRunDbIdByLifecycleId
  processed,       \* processedJobs of the inline queue
  warm,            \* uploadedDocuments: documents known without a lookup
  \* the requests in flight and the locals of the processor they await
  pc, runOf, answer,
  row,             \* reviewRunDbId
  ruleError, ruleFindings, llmError, reviewFindings,
  \* Postgres
  rows,            \* review_run, with the pages and sections of the run
  findings,        \* finding and evidence rows of each run
  item,            \* review_workflow_item.review_run_id of each document
  crashes          \* how often the process restarted

memoryVars == <<status, runRow, processed, warm>>
localVars == <<row, ruleError, ruleFindings, llmError, reviewFindings>>
requestVars == <<pc, runOf, answer>>
dbVars == <<rows, findings, item>>
vars == <<memoryVars, localVars, requestVars, dbVars, crashes>>

Row ==
  [run : Run \cup {None}, epoch : Nat, started : BOOLEAN,
   structure : {"none", "pages", "sections"},
   completed : BOOLEAN, failed : BOOLEAN, partial : SUBSET {"rules", "llm"}]

NoRow ==
  [run |-> None, epoch |-> 0, started |-> FALSE, structure |-> "none",
   completed |-> FALSE, failed |-> FALSE, partial |-> {}]

Inserted(i) == rows[i].run # None

(* listReviewBoardCards and readReviewBoardCardById: the status column is  *)
(* written once, as 'queued', and the two stamps override it.              *)
BoardStatus(i) ==
  IF rows[i].failed THEN "failed"
  ELSE IF rows[i].completed THEN "completed" ELSE "queued"

Init ==
  /\ status = [r \in Run |-> "none"]
  /\ runRow = [r \in Run |-> None]
  /\ processed = {}
  /\ warm \in SUBSET Documents
  /\ pc = [q \in Requests |-> "idle"]
  /\ runOf = [q \in Requests |-> None]
  /\ answer = [q \in Requests |-> "none"]
  /\ row = [q \in Requests |-> None]
  /\ ruleError = [q \in Requests |-> FALSE]
  /\ ruleFindings = [q \in Requests |-> {}]
  /\ llmError = [q \in Requests |-> FALSE]
  /\ reviewFindings = [q \in Requests |-> {}]
  /\ rows = [i \in RowIds |-> NoRow]
  /\ findings = [i \in RowIds |-> {}]
  /\ item = [d \in Documents |-> None]
  /\ crashes = 0

-----------------------------------------------------------------------------
(* Helpers of the steps.                                                   *)

Goto(q, next) == pc' = [pc EXCEPT ![q] = next]

Throw(q) == Goto(q, "catch")

Reply(q, a) ==
  /\ answer' = [answer EXCEPT ![q] = a]
  /\ Goto(q, "done")

SetStatus(r, s) == status' = [status EXCEPT ![r] = s]

(* transitionReviewRun: an invalid transition throws, and the processor's  *)
(* catch block runs.                                                       *)
Advance(q, s, next) ==
  IF TransitionAllowed(status[runOf[q]], s)
  THEN SetStatus(runOf[q], s) /\ Goto(q, next)
  ELSE Throw(q) /\ UNCHANGED status

(* The review_run table after an UPDATE of row i that ended with outcome o.*)
Updated(o, i, new) == IF o = "error" THEN rows ELSE [rows EXCEPT ![i] = new]

(* What each write of the processor makes of the run's row.  A completion  *)
(* records in its metadata which path failed.                              *)
NewRow(q) == [NoRow EXCEPT !.run = runOf[q], !.epoch = crashes]

StartedRow(q) == [rows[row[q]] EXCEPT !.started = TRUE]

StructuredRow(q, s) == [rows[row[q]] EXCEPT !.structure = s]

PartialFailure(q) ==
  (IF ruleError[q] THEN {"rules"} ELSE {}) \cup (IF llmError[q] THEN {"llm"} ELSE {})

CompletedRow(q) ==
  [rows[row[q]] EXCEPT !.completed = TRUE, !.partial = PartialFailure(q)]

FailedRow(q) == [rows[row[q]] EXCEPT !.failed = TRUE]

-----------------------------------------------------------------------------
(* The request.                                                            *)

(* A client posts a start request; isKnownUploadedDocument is awaited.     *)
Post(q) ==
  /\ pc[q] = "idle"
  /\ \E r \in Run : runOf' = [runOf EXCEPT ![q] = r]
  /\ Goto(q, "lookup")
  /\ UNCHANGED <<memoryVars, localVars, answer, dbVars, crashes>>

(* A document that is not in memory is looked up in Postgres; a query that *)
(* gets no answer becomes a 503.                                           *)
LookupFails(q) ==
  /\ pc[q] = "lookup"
  /\ DocumentOf(runOf[q]) \notin warm
  /\ DbOutcomes # {"ok"}
  /\ Reply(q, "refused")
  /\ UNCHANGED <<memoryVars, localVars, runOf, dbVars, crashes>>

(* Variant: a repeated start waits for the queue's memo of the job.         *)
JoinRunProcessed(q) ==
  /\ pc[q] = "lookup"
  /\ runOf[q] \in processed
  /\ warm' = warm \cup {DocumentOf(runOf[q])}
  /\ Reply(q, status[runOf[q]])
  /\ UNCHANGED <<status, runRow, processed, localVars, runOf, dbVars, crashes>>

(* startReviewRun finds the idempotency key: the run is returned as it is. *)
JoinRun(q) ==
  /\ pc[q] = "lookup"
  /\ status[runOf[q]] # "none"
  /\ warm' = warm \cup {DocumentOf(runOf[q])}
  /\ Reply(q, status[runOf[q]])
  /\ UNCHANGED <<status, runRow, processed, localVars, runOf, dbVars, crashes>>

(* Variant: the idempotency index is not consulted, only the queue's memo  *)
(* of finished jobs.                                                       *)
CreateRunUnindexed(q) ==
  /\ pc[q] = "lookup"
  /\ warm' = warm \cup {DocumentOf(runOf[q])}
  /\ SetStatus(runOf[q], "queued")
  /\ IF runOf[q] \in processed
     THEN Reply(q, "queued")
     ELSE Goto(q, "insert") /\ UNCHANGED answer
  /\ UNCHANGED <<runRow, processed, localVars, runOf, dbVars, crashes>>

(* startReviewRun creates the run and awaits queue.add, which starts the   *)
(* processor unless it has already finished a job with this key.           *)
CreateRun(q) ==
  /\ pc[q] = "lookup"
  /\ status[runOf[q]] = "none"
  /\ warm' = warm \cup {DocumentOf(runOf[q])}
  /\ SetStatus(runOf[q], "queued")
  /\ IF runOf[q] \in processed
     THEN Reply(q, "queued")
     ELSE Goto(q, "insert") /\ UNCHANGED answer
  /\ UNCHANGED <<runRow, processed, localVars, runOf, dbVars, crashes>>

-----------------------------------------------------------------------------
(* The processor.  Each step ends where the code awaits the next call.     *)

(* insertReviewRun: one transaction writes the row and points the          *)
(* document's workflow item to it.  The step is the commit; sequence       *)
(* numbers are drawn earlier, so the id is any unused one.                 *)
InsertRow(q, i, new, o) ==
  /\ IF o = "error" THEN UNCHANGED <<rows, item>>
     ELSE /\ rows' = [rows EXCEPT ![i] = new]
          /\ item' = [item EXCEPT ![DocumentOf(runOf[q])] = i]
  /\ IF o = "ok"
     THEN /\ row' = [row EXCEPT ![q] = i]
          /\ runRow' = [runRow EXCEPT ![runOf[q]] = i]
          /\ Goto(q, "stamp")
     ELSE Throw(q) /\ UNCHANGED <<row, runRow>>
  /\ UNCHANGED <<status, processed, warm, runOf, answer, ruleError,
                 ruleFindings, llmError, reviewFindings, findings, crashes>>

(* Variant: the insert takes over the row the document already has.        *)
UpsertReviewRun(q) ==
  /\ pc[q] = "insert"
  /\ \E i \in RowIds, o \in DbOutcomes :
       /\ ~Inserted(i) \/ item[DocumentOf(runOf[q])] = i
       /\ InsertRow(q, i, NewRow(q), o)

InsertReviewRun(q) ==
  /\ pc[q] = "insert"
  /\ \E i \in RowIds, o \in DbOutcomes :
       /\ ~Inserted(i)
       /\ InsertRow(q, i, NewRow(q), o)

(* updateReviewRunStatus with started_at, then the transition to           *)
(* extracting and the call of the extraction worker.                       *)
StampStarted(q) ==
  /\ pc[q] = "stamp"
  /\ \E o \in DbOutcomes :
       /\ rows' = Updated(o, row[q], StartedRow(q))
       /\ IF o = "ok" THEN Advance(q, "extracting", "extract")
          ELSE Throw(q) /\ UNCHANGED status
  /\ UNCHANGED <<runRow, processed, warm, localVars, runOf, answer, findings,
                 item, crashes>>

(* The extraction answers, or the bytes, the worker or its timeout fail.   *)
Extract(q) ==
  /\ pc[q] = "extract"
  /\ Advance(q, "segmenting", "pages") \/ (Throw(q) /\ UNCHANGED status)
  /\ UNCHANGED <<runRow, processed, warm, localVars, runOf, answer, dbVars,
                 crashes>>

InsertDocumentPages(q) ==
  /\ pc[q] = "pages"
  /\ \E o \in DbOutcomes :
       /\ rows' = Updated(o, row[q], StructuredRow(q, "pages"))
       /\ IF o = "ok" THEN Goto(q, "sections") ELSE Throw(q)
  /\ UNCHANGED <<memoryVars, localVars, runOf, answer, findings, item, crashes>>

(* Variant: a failed insert of the sections is ignored.                    *)
InsertDocumentSectionsUnchecked(q) ==
  /\ pc[q] = "sections"
  /\ \E o \in DbOutcomes :
       rows' = Updated(o, row[q], StructuredRow(q, "sections"))
  /\ Advance(q, "validating", "rules")
  /\ UNCHANGED <<runRow, processed, warm, localVars, runOf, answer, findings,
                 item, crashes>>

(* The sections are inserted in one transaction; then validating, and the  *)
(* rule engine of the worker is called.                                    *)
InsertDocumentSections(q) ==
  /\ pc[q] = "sections"
  /\ \E o \in DbOutcomes :
       /\ rows' = Updated(o, row[q], StructuredRow(q, "sections"))
       /\ IF o = "ok" THEN Advance(q, "validating", "rules")
          ELSE Throw(q) /\ UNCHANGED status
  /\ UNCHANGED <<runRow, processed, warm, localVars, runOf, answer, findings,
                 item, crashes>>

(* runRules: its own try block keeps a failure in ruleError.               *)
RunRules(q) ==
  /\ pc[q] = "rules"
  /\ \/ /\ \E F \in SUBSET RuleCandidates :
            ruleFindings' = [ruleFindings EXCEPT ![q] = F]
        /\ UNCHANGED ruleError
     \/ /\ ruleError' = [ruleError EXCEPT ![q] = TRUE]
        /\ UNCHANGED ruleFindings
  /\ Goto(q, "ruleFindings")
  /\ UNCHANGED <<memoryVars, row, llmError, reviewFindings, runOf, answer,
                 dbVars, crashes>>

(* The evidence row the orchestrator builds satisfies the location check:  *)
(* a page, a section, or the page flagged uncertain.  A finding without a  *)
(* section index takes the section of its page, so it has none without a   *)
(* page.  Rule findings carry no section title.                            *)
HasLocation(c) ==
  \/ c.page
  \/ c.section = "known"
  \/ ~c.page /\ (c.producer = "llm" => ~c.title)

Storable(c) == c.wellFormed /\ HasLocation(c)

(* persistFinding: one transaction; a finding it rejects, or any database  *)
(* failure, throws out of the loop.                                        *)
Persist(q, c) ==
  /\ \E o \in DbOutcomes :
       /\ findings' = IF Storable(c) /\ o # "error"
                      THEN [findings EXCEPT ![row[q]] = @ \cup {c}]
                      ELSE findings
       /\ IF Storable(c) /\ o = "ok" THEN UNCHANGED pc ELSE Throw(q)
  /\ UNCHANGED <<memoryVars, localVars, runOf, answer, rows, item, crashes>>

PersistRuleFinding(q) ==
  /\ pc[q] = "ruleFindings"
  /\ \E c \in ruleFindings[q] \ findings[row[q]] : Persist(q, c)

FinishRules(q) ==
  /\ pc[q] = "ruleFindings"
  /\ ruleFindings[q] \subseteq findings[row[q]]
  /\ Advance(q, "rag_reviewing", "llm")
  /\ UNCHANGED <<runRow, processed, warm, localVars, runOf, answer, dbVars,
                 crashes>>

(* runCagReview, with the retrieval before it whose failure is ignored.    *)
RunCagReview(q) ==
  /\ pc[q] = "llm"
  /\ \/ /\ \E F \in SUBSET LlmCandidates :
            reviewFindings' = [reviewFindings EXCEPT ![q] = F]
        /\ UNCHANGED llmError
     \/ /\ llmError' = [llmError EXCEPT ![q] = TRUE]
        /\ UNCHANGED reviewFindings
  /\ Advance(q, "reporting", "llmFindings")
  /\ UNCHANGED <<runRow, processed, warm, row, ruleError, ruleFindings, runOf,
                 answer, dbVars, crashes>>

PersistLlmFinding(q) ==
  /\ pc[q] = "llmFindings"
  /\ \E c \in reviewFindings[q] \ findings[row[q]] : Persist(q, c)

(* Variant: the two failures are not looked at together.                   *)
FinishLlmUnchecked(q) ==
  /\ pc[q] = "llmFindings"
  /\ reviewFindings[q] \subseteq findings[row[q]]
  /\ Goto(q, "complete")
  /\ UNCHANGED <<memoryVars, localVars, runOf, answer, dbVars, crashes>>

(* Both paths failing fails the run; otherwise the completion is written.  *)
FinishLlm(q) ==
  /\ pc[q] = "llmFindings"
  /\ reviewFindings[q] \subseteq findings[row[q]]
  /\ IF ruleError[q] /\ llmError[q] THEN Throw(q) ELSE Goto(q, "complete")
  /\ UNCHANGED <<memoryVars, localVars, runOf, answer, dbVars, crashes>>

-----------------------------------------------------------------------------
(* The ends of the processor, and of the request with it.                  *)

(* transitionReviewRun and markJobFailed, then the queue's memo and the    *)
(* answer with the run as it is now.                                       *)
Settle(q, s) ==
  /\ SetStatus(runOf[q], s)
  /\ processed' = processed \cup {runOf[q]}
  /\ Reply(q, s)

(* Variant: the outcome of the completion update is ignored.               *)
CompleteUnacknowledged(q) ==
  /\ pc[q] = "complete"
  /\ \E o \in DbOutcomes : rows' = Updated(o, row[q], CompletedRow(q))
  /\ IF TransitionAllowed(status[runOf[q]], "completed")
     THEN Settle(q, "completed")
     ELSE Throw(q) /\ UNCHANGED <<status, processed, answer>>
  /\ UNCHANGED <<runRow, warm, localVars, runOf, findings, item, crashes>>

(* updateReviewRunStatus with completed_at and the metadata of a partial   *)
(* failure, then the transition to completed.                              *)
Complete(q) ==
  /\ pc[q] = "complete"
  /\ \E o \in DbOutcomes :
       /\ rows' = Updated(o, row[q], CompletedRow(q))
       /\ IF o = "ok" /\ TransitionAllowed(status[runOf[q]], "completed")
          THEN Settle(q, "completed")
          ELSE Throw(q) /\ UNCHANGED <<status, processed, answer>>
  /\ UNCHANGED <<runRow, warm, localVars, runOf, findings, item, crashes>>

(* Variant: the catch block only marks the job failed.                     *)
CatchUnrecorded(q) ==
  /\ pc[q] = "catch"
  /\ IF TransitionAllowed(status[runOf[q]], "failed")
     THEN Settle(q, "failed")
     ELSE Reply(q, "refused") /\ UNCHANGED <<status, processed>>
  /\ UNCHANGED <<runRow, warm, localVars, runOf, dbVars, crashes>>

(* The catch block: failed_at is written if a row is known, a failure of   *)
(* that update is swallowed; markJobFailed throws for a run that is        *)
(* already terminal, which rejects the request with a 503 and leaves the   *)
(* queue without a memo of the job.                                        *)
Catch(q) ==
  /\ pc[q] = "catch"
  /\ IF row[q] = None THEN UNCHANGED rows
     ELSE \E o \in DbOutcomes :
            rows' = Updated(o, row[q], FailedRow(q))
  /\ IF TransitionAllowed(status[runOf[q]], "failed")
     THEN Settle(q, "failed")
     ELSE Reply(q, "refused") /\ UNCHANGED <<status, processed>>
  /\ UNCHANGED <<runRow, warm, localVars, runOf, findings, item, crashes>>

-----------------------------------------------------------------------------
(* What happens to the requests from outside.                              *)

(* Variant: the status is overwritten without assertAllowedTransition.     *)
CancelUnguarded(r) ==
  /\ CancelEnabled
  /\ status[r] # "none"
  /\ SetStatus(r, "cancelled")
  /\ UNCHANGED <<runRow, processed, warm, localVars, requestVars, dbVars, crashes>>

(* Variant: a status the machine does not have.                            *)
CancelMisspelt(r) ==
  /\ CancelEnabled
  /\ TransitionAllowed(status[r], "cancelled")
  /\ SetStatus(r, "canceled")
  /\ UNCHANGED <<runRow, processed, warm, localVars, requestVars, dbVars, crashes>>

(* cancelReviewRun: synchronous, and the processor is not told.            *)
Cancel(r) ==
  /\ CancelEnabled
  /\ TransitionAllowed(status[r], "cancelled")
  /\ SetStatus(r, "cancelled")
  /\ UNCHANGED <<runRow, processed, warm, localVars, requestVars, dbVars, crashes>>

InFlight(q) == pc[q] \notin {"idle", "done", "gone"}

(* The process dies and starts again: its memory and the requests in       *)
(* flight are gone, the database keeps what was committed.                 *)
Crash ==
  /\ crashes < MaxCrashes
  /\ crashes' = crashes + 1
  /\ status' = [r \in Run |-> "none"]
  /\ runRow' = [r \in Run |-> None]
  /\ processed' = {}
  /\ warm' = {}
  /\ pc' = [q \in Requests |-> IF pc[q] = "idle" THEN "idle" ELSE "gone"]
  /\ answer' = [q \in Requests |-> IF InFlight(q) THEN "lost" ELSE answer[q]]
  /\ row' = [q \in Requests |-> None]
  /\ ruleError' = [q \in Requests |-> FALSE]
  /\ ruleFindings' = [q \in Requests |-> {}]
  /\ llmError' = [q \in Requests |-> FALSE]
  /\ reviewFindings' = [q \in Requests |-> {}]
  /\ UNCHANGED <<runOf, dbVars>>

-----------------------------------------------------------------------------

(* The steps that need nobody but the API, the workers and the database.   *)
Handle(q) ==
  \/ LookupFails(q)
  \/ JoinRun(q)
  \/ CreateRun(q)
  \/ InsertReviewRun(q)
  \/ StampStarted(q)
  \/ Extract(q)
  \/ InsertDocumentPages(q)
  \/ InsertDocumentSections(q)
  \/ RunRules(q)
  \/ PersistRuleFinding(q)
  \/ FinishRules(q)
  \/ RunCagReview(q)
  \/ PersistLlmFinding(q)
  \/ FinishLlm(q)
  \/ Complete(q)
  \/ Catch(q)

Next ==
  \/ \E q \in Requests : Post(q)
  \/ \E q \in Requests : Handle(q)
  \/ \E r \in Run : Cancel(r)
  \/ Crash

(* A started request is carried on: the event loop runs every continuation,*)
(* the worker calls have timeouts, and a database call answers or fails.   *)
(* Nobody has to post a request, cancel a run or restart the process.      *)
Spec == Init /\ [][Next]_vars /\ \A q \in Requests : WF_vars(Handle(q))

-----------------------------------------------------------------------------
(* Properties.                                                             *)

PipelineStates ==
  {"idle", "lookup", "insert", "stamp", "extract", "pages", "sections", "rules",
   "ruleFindings", "llm", "llmFindings", "complete", "catch", "done", "gone"}

(* Every variable has its type; in particular the lifecycle never stores a *)
(* status outside ALLOWED_REVIEW_RUN_STATUSES.                             *)
TypeOK ==
  /\ status \in [Run -> Statuses \cup {"none"}]
  /\ runRow \in [Run -> RowIds \cup {None}]
  /\ processed \subseteq Run
  /\ warm \subseteq Documents
  /\ pc \in [Requests -> PipelineStates]
  /\ runOf \in [Requests -> Run \cup {None}]
  /\ answer \in [Requests -> Statuses \cup {"none", "refused", "lost"}]
  /\ row \in [Requests -> RowIds \cup {None}]
  /\ ruleError \in [Requests -> BOOLEAN]
  /\ ruleFindings \in [Requests -> SUBSET RuleCandidates]
  /\ llmError \in [Requests -> BOOLEAN]
  /\ reviewFindings \in [Requests -> SUBSET LlmCandidates]
  /\ rows \in [RowIds -> Row]
  /\ findings \in [RowIds -> SUBSET (RuleCandidates \cup LlmCandidates)]
  /\ item \in [Documents -> RowIds \cup {None}]
  /\ crashes \in Nat

(* Concurrent and repeated starts of one run create one review_run row in  *)
(* one lifetime of the process, whatever fails: the idempotency index is   *)
(* set before the first await, and it outlives a failed run.               *)
OneRowPerRunAndLifetime ==
  \A i, j \in RowIds :
    (Inserted(i) /\ i # j /\ rows[i].run = rows[j].run)
      => rows[i].epoch # rows[j].epoch

(* A run the API reports as completed has a row in the database that is    *)
(* stamped completed, is not stamped failed and belongs to that run: the   *)
(* completion is written before the transition, and nothing after it fails.*)
CompletedIsDurable ==
  \A r \in Run :
    (status[r] = "completed") =>
      /\ runRow[r] # None
      /\ rows[runRow[r]].run = r
      /\ rows[runRow[r]].completed
      /\ ~rows[runRow[r]].failed

(* A completion tells the truth: a row stamped completed was started and   *)
(* has its whole structure, holds exactly the findings the two review      *)
(* paths returned, records the path that failed, and not both failed.      *)
CompletionIsHonest ==
  \A q \in Requests :
    (row[q] # None /\ rows[row[q]].completed) =>
      /\ rows[row[q]].started
      /\ rows[row[q]].structure = "sections"
      /\ findings[row[q]] = ruleFindings[q] \cup reviewFindings[q]
      /\ ~(ruleError[q] /\ llmError[q])
      /\ ("rules" \in rows[row[q]].partial) <=> ruleError[q]
      /\ ("llm" \in rows[row[q]].partial) <=> llmError[q]

(* No finding is stored before the pages and the sections its evidence     *)
(* points to, also when inserts fail or the process dies between them.     *)
FindingsHaveStructure ==
  \A i \in RowIds :
    (findings[i] # {}) => rows[i].structure = "sections"

(* An answer that names a final status stays true: no later step, of this  *)
(* request, of another one or of a cancellation, changes the run.          *)
AnswerIsFinal ==
  \A q \in Requests :
    (pc[q] = "done" /\ answer[q] \in TerminalStatuses)
      => status[runOf[q]] = answer[q]

Seal(i) ==
  IF ~Inserted(i) THEN "absent"
  ELSE IF rows[i].failed THEN "failed"
  ELSE IF rows[i].completed THEN "completed" ELSE "open"

Contract == INSTANCE ReviewRunContract
  WITH Records <- RowIds,
       Candidate <- RuleCandidates \cup LlmCandidates,
       asked <- runOf,
       subject <- [i \in RowIds |-> rows[i].run],
       seal <- [i \in RowIds |-> Seal(i)],
       content <- findings

(* The pipeline, with its failures, cancellations and restarts, implements *)
(* what it promises its clients.                                           *)
ImplementsContract == Contract!ContractSpec

(* While the database answers and the process stays up, the board shows    *)
(* the outcome the API reports.  A cancelled run, which the processor finds*)
(* out at its next transition, is shown as failed once the processor has   *)
(* ended, even if the completion had been written by then.                 *)
BoardAgrees ==
  \A r \in Run :
    /\ (status[r] \in {"completed", "failed"})
         => (runRow[r] # None /\ BoardStatus(runRow[r]) = status[r])
    /\ (status[r] = "cancelled" /\ runRow[r] # None
          /\ \A q \in Requests : (runOf[q] = r) => ~InFlight(q))
         => BoardStatus(runRow[r]) = "failed"

(* The processor never rethrows and every wait is bounded, so every start  *)
(* request is answered.                                                    *)
EveryRequestAnswered ==
  \A q \in Requests : pc[q] = "lookup" ~> answer[q] # "none"

(* A review run that was started ends with its row completed or failed:    *)
(* the row reaches a terminal status, as the trigger's specification asks. *)
RowsReachTerminal ==
  \A i \in RowIds :
    Inserted(i) ~> (rows[i].completed \/ rows[i].failed)

(* Only extraction or both review paths failing fails a run: a path that   *)
(* succeeded is not undone by the other one.                               *)
OnlyBothPathsFailingFails ==
  \A q \in Requests :
    (pc[q] = "done" /\ answer[q] = "failed" /\ row[q] # None
       /\ rows[row[q]].structure = "sections")
      => ruleError[q] /\ llmError[q]
=============================================================================
