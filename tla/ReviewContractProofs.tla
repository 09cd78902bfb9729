------------------------ MODULE ReviewContractProofs ------------------------
(***************************************************************************)
(* The proof that ReviewPipeline implements ReviewRunContract, for every   *)
(* value of the constants: its initial states satisfy the contract's, and  *)
(* each of its steps is a step of the contract, under the mapping of       *)
(* ReviewPipeline!Contract.                                                *)
(*                                                                         *)
(* Each action of the pipeline moves at most one status, answers at most   *)
(* one request and writes at most one record, so the lemmas say what each  *)
(* of the three kinds of changes is for the contract and the proof picks   *)
(* them action by action.                                                  *)
(***************************************************************************)
EXTENDS ReviewCompletionProofs

(* A request without a final answer has none.                              *)
Unanswered ==
  \A q \in Requests : (pc[q] \notin {"done", "gone"}) => answer[q] = "none"

StatusSteps == \A r \in Run : Contract!StatusStep(r)
AnswerSteps == \A q \in Requests : Contract!AnswerStep(q)
RecordSteps == \A i \in RowIds : Contract!SealStep(i) /\ Contract!ContentStep(i)

-----------------------------------------------------------------------------
(* Lemmas.                                                                 *)

(* The contract and the pipeline have one status machine.                  *)
LEMMA SameMachine ==
  \A s, t : Contract!TransitionAllowed(s, t) <=> TransitionAllowed(s, t)
  BY DEF Contract!TransitionAllowed, TransitionAllowed, Contract!NextStatuses,
     NextStatuses, Contract!ActiveStatuses, ActiveStatuses,
     Contract!TerminalStatuses, TerminalStatuses, Contract!Statuses, Statuses

LEMMA StatusKept ==
  ASSUME status' = status
  PROVE  StatusSteps
  BY DEF StatusSteps, Contract!StatusStep

LEMMA StatusMoves ==
  ASSUME TypeOK, NEW r \in Run, NEW s, TransitionAllowed(status[r], s),
         SetStatus(r, s),
         (s = "completed") =>
           \E i \in RowIds : rows'[i].run = r /\ Seal(i)' = "completed"
  PROVE  StatusSteps
<1>1. status' = [status EXCEPT ![r] = s]
  BY DEF SetStatus
<1>2. \A o \in Run \ {r} : status'[o] = status[o]
  BY <1>1 DEF TypeOK
<1>3. status'[r] = s
  BY <1>1 DEF TypeOK
<1>4. (s = "completed") => Contract!CompletedRecord(r)
  BY DEF Contract!CompletedRecord
<1>5. Contract!StatusStep(r)
  BY <1>3, <1>4, SameMachine DEF Contract!StatusStep
<1>6. QED
  BY <1>2, <1>5 DEF StatusSteps, Contract!StatusStep

(* A transition of the processor that is not the last.                     *)
LEMMA StatusAdvances ==
  ASSUME TypeOK, NEW q \in Requests, runOf[q] \in Run, NEW s, s # "completed", NEW next,
         Advance(q, s, next) \/ status' = status
  PROVE  StatusSteps
  BY StatusKept, StatusMoves DEF Advance

LEMMA AnswersKept ==
  ASSUME answer' = answer, runOf' = runOf
  PROVE  AnswerSteps
  BY DEF AnswerSteps, Contract!AnswerStep

LEMMA Answers ==
  ASSUME TypeOK, NEW q \in Requests, answer[q] = "none", runOf' = runOf, NEW a, Reply(q, a),
         a = "refused" \/ (runOf[q] \in Run /\ a = status'[runOf[q]])
  PROVE  AnswerSteps
<1>1. answer'[q] = a /\ \A p \in Requests \ {q} : answer'[p] = answer[p]
  BY DEF Reply, TypeOK
<1>2. QED
  BY <1>1 DEF AnswerSteps, Contract!AnswerStep

LEMMA RecordsKept ==
  ASSUME rows' = rows, findings' = findings
  PROVE  RecordSteps
<1>1. \A i \in RowIds : Seal(i)' = Seal(i)
  BY DEF Seal, Inserted
<1>2. QED
  BY <1>1 DEF RecordSteps, Contract!SealStep, Contract!ContentStep

(* One record is written: its seal moves along the order, its subject      *)
(* stays once it is there, and it gains a finding only while it is open.   *)
LEMMA RecordMoves ==
  ASSUME NEW i \in RowIds,
         \A j \in RowIds : (j # i) => (rows'[j] = rows[j] /\ findings'[j] = findings[j]),
         Seal(i)' = Seal(i) \/ <<Seal(i), Seal(i)'>> \in Contract!SealOrder,
         (Seal(i) # "absent") => rows'[i].run = rows[i].run,
         \/ findings'[i] = findings[i]
         \/ /\ Seal(i) = "open" /\ Seal(i)' = "open"
            /\ \E c \in (RuleCandidates \cup LlmCandidates) \ findings[i] :
                 findings'[i] = findings[i] \cup {c}
  PROVE  RecordSteps
<1>1. \A j \in RowIds : (j # i) => Seal(j)' = Seal(j)
  BY DEF Seal, Inserted
<1>2. Contract!SealStep(i)
  BY DEF Contract!SealStep
<1>3. Contract!ContentStep(i)
  BY DEF Contract!ContentStep
<1>4. QED
  BY <1>1, <1>2, <1>3 DEF RecordSteps, Contract!SealStep, Contract!ContentStep

(* The row of a processor at work is open.                                 *)
LEMMA OpenRecord ==
  ASSUME Inv, HonestInv, NEW q \in Requests, pc[q] \in Open
  PROVE  /\ row[q] \in RowIds /\ runOf[q] \in Run /\ TypeOK
         /\ rows[row[q]].run = runOf[q]
         /\ ~rows[row[q]].completed /\ ~rows[row[q]].failed
         /\ Seal(row[q]) = "open"
<1>1. row[q] \in RowIds /\ RowStage(q)
  BY HasRow
<1>2. /\ runOf[q] \in Run /\ rows[row[q]].run = runOf[q] /\ ~rows[row[q]].failed
      /\ TypeOK
  BY <1>1, PipelineAssumption
  DEF Open, Reviewing, Inv, TypeInv, OwnRow, OpenRun, Executing
<1>3. ~rows[row[q]].completed
  BY <1>1 DEF RowStage
<1>4. Seal(row[q]) = "open"
  BY <1>2, <1>3, PipelineAssumption DEF Seal, Inserted
<1>5. QED
  BY <1>1, <1>2, <1>3, <1>4

(* A write of the processor that does not end its record.                  *)
LEMMA RecordUpdates ==
  ASSUME Inv, HonestInv, NEW q \in Requests, pc[q] \in Open, findings' = findings,
         NEW o, NEW x, rows' = Updated(o, row[q], x),
         x.run = rows[row[q]].run, x.completed = rows[row[q]].completed,
         x.failed = rows[row[q]].failed
  PROVE  RecordSteps
<1>1. row[q] \in RowIds /\ TypeOK
  BY OpenRecord
<1>2. /\ \A i \in RowIds : (i # row[q]) => rows'[i] = rows[i]
      /\ rows'[row[q]] \in {rows[row[q]], x}
  BY <1>1, RowUpdated
<1>3. PICK i \in RowIds : i = row[q]
  BY <1>1
<1>4. Seal(i)' = Seal(i) /\ rows'[i].run = rows[i].run
  BY <1>2, <1>3 DEF Seal, Inserted
<1>5. QED
  BY <1>2, <1>3, <1>4, RecordMoves

-----------------------------------------------------------------------------
(* The steps, in the order of the pipeline.                                *)

Serves == StatusSteps /\ AnswerSteps /\ RecordSteps

LEMMA UnansweredInit == Init => Unanswered
  BY DEF Init, Unanswered

LEMMA UnansweredStep == TypeOK /\ Unanswered /\ [Next]_vars => Unanswered'
<1> SUFFICES ASSUME TypeOK, Unanswered, [Next]_vars PROVE Unanswered'
  OBVIOUS
<1>1. ASSUME NEW q \in Requests, Post(q) \/ Handle(q) PROVE Unanswered'
  <2>1. /\ \A p \in Requests \ {q} : pc'[p] = pc[p] /\ answer'[p] = answer[p]
        /\ pc[q] \notin {"done", "gone"}
        /\ answer'[q] = answer[q] \/ pc'[q] = "done"
    <3>1. CASE Post(q) \/ LookupFails(q) \/ JoinRun(q) \/ CreateRun(q)
      BY <3>1 DEF TypeOK, Post, LookupFails, JoinRun, CreateRun, Reply, Goto
    <3>2. CASE InsertReviewRun(q) \/ StampStarted(q) \/ Extract(q)
      BY <3>2 DEF TypeOK, InsertReviewRun, InsertRow, StampStarted, Extract, Advance,
         Throw, Goto
    <3>3. CASE InsertDocumentPages(q) \/ InsertDocumentSections(q) \/ RunRules(q)
      BY <3>3 DEF TypeOK, InsertDocumentPages, InsertDocumentSections, RunRules, Advance,
         Throw, Goto
    <3>4. CASE PersistRuleFinding(q) \/ FinishRules(q) \/ RunCagReview(q)
                 \/ PersistLlmFinding(q) \/ FinishLlm(q)
      BY <3>4 DEF TypeOK, PersistRuleFinding, FinishRules, RunCagReview,
         PersistLlmFinding, FinishLlm, Persist, Advance, Throw, Goto
    <3>5. CASE Complete(q) \/ Catch(q)
      BY <3>5 DEF TypeOK, Complete, Catch, Settle, Reply, Throw, Goto
    <3>6. QED
      BY <1>1, <3>1, <3>2, <3>3, <3>4, <3>5 DEF Handle
  <2>2. QED
    BY <2>1 DEF Unanswered
<1>2. ASSUME NEW r \in Run, Cancel(r) PROVE Unanswered'
  BY <1>2 DEF Cancel, requestVars, Unanswered
<1>3. CASE Crash
  BY <1>3 DEF Crash, Unanswered, InFlight
<1>4. CASE UNCHANGED vars
  BY <1>4 DEF vars, requestVars, Unanswered
<1>5. QED
  BY <1>1, <1>2, <1>3, <1>4 DEF Next

LEMMA AdmissionServes ==
  ASSUME Inv, Unanswered, NEW q \in Requests,
         Post(q) \/ LookupFails(q) \/ JoinRun(q) \/ CreateRun(q)
  PROVE  Serves
<1>1. TypeOK /\ RecordSteps
  BY RecordsKept DEF Inv, TypeInv, Post, LookupFails, JoinRun, CreateRun, dbVars
<1>2. CASE Post(q)
  <2>1. StatusSteps
    BY <1>2, StatusKept DEF Post, memoryVars
  <2>2. /\ \A p \in Requests \ {q} : runOf'[p] = runOf[p]
        /\ answer' = answer /\ answer[q] = "none"
    BY <1>1, <1>2 DEF Post, TypeOK, Unanswered
  <2>3. AnswerSteps
    BY <2>2 DEF AnswerSteps, Contract!AnswerStep
  <2>4. QED
    BY <1>1, <2>1, <2>3 DEF Serves
<1>3. CASE pc[q] = "lookup"
  <2>1. answer[q] = "none" /\ runOf[q] \in Run
    BY <1>3 DEF Unanswered, Inv, TypeInv, Asked
  <2>2. CASE LookupFails(q) \/ JoinRun(q)
    BY <1>1, <2>1, <2>2, StatusKept, Answers DEF LookupFails, JoinRun, memoryVars, Serves
  <2>3. CASE CreateRun(q)
    <3>1. /\ status[runOf[q]] = "none" /\ status'[runOf[q]] = "queued"
          /\ \A r \in Run \ {runOf[q]} : status'[r] = status[r]
          /\ runOf' = runOf
      BY <1>1, <2>1, <2>3 DEF CreateRun, SetStatus, TypeOK
    <3>2. StatusSteps
      BY <3>1 DEF StatusSteps, Contract!StatusStep
    <3>3. AnswerSteps
      BY <1>1, <2>1, <2>3, <3>1, AnswersKept, Answers DEF CreateRun
    <3>4. QED
      BY <1>1, <3>2, <3>3 DEF Serves
  <2>4. CASE Post(q)
    BY <1>2, <2>4
  <2>5. QED
    BY <2>2, <2>3, <2>4
<1>4. QED
  BY <1>2, <1>3 DEF LookupFails, JoinRun, CreateRun

(* A new record is open and belongs to the run of the request.             *)
LEMMA InsertServes ==
  ASSUME Inv, NEW q \in Requests, InsertReviewRun(q)
  PROVE  Serves
<1>1. PICK i \in RowIds, o \in DbOutcomes :
        ~Inserted(i) /\ InsertRow(q, i, NewRow(q), o)
  BY DEF InsertReviewRun
<1>2. TypeOK /\ runOf[q] \in Run
  BY DEF InsertReviewRun, Inv, TypeInv, Asked
<1>3. /\ UNCHANGED <<status, runOf, answer, findings>>
      /\ \A j \in RowIds : (j # i) => rows'[j] = rows[j]
      /\ rows'[i] \in {rows[i], NewRow(q)}
  BY <1>1, <1>2 DEF InsertRow, TypeOK
<1>4. /\ NewRow(q).run # None
      /\ NewRow(q).completed = FALSE /\ NewRow(q).failed = FALSE
  BY <1>2, PipelineAssumption DEF NewRow, NoRow
<1>5. Seal(i) = "absent" /\ Seal(i)' \in {"absent", "open"}
  BY <1>1, <1>3, <1>4 DEF Seal, Inserted
<1>6. RecordSteps
  BY <1>3, <1>5, RecordMoves DEF Contract!SealOrder
<1>7. QED
  BY <1>3, <1>6, StatusKept, AnswersKept DEF Serves

(* The writes of the processor before its findings.                        *)
LEMMA StructureServes ==
  ASSUME Inv, HonestInv, NEW q \in Requests,
         StampStarted(q) \/ InsertDocumentPages(q) \/ InsertDocumentSections(q)
  PROVE  Serves
<1>1. pc[q] \in Open /\ UNCHANGED <<runOf, answer, findings>>
  BY DEF Open, StampStarted, InsertDocumentPages, InsertDocumentSections
<1>2. TypeOK /\ row[q] \in RowIds /\ runOf[q] \in Run
  BY <1>1, OpenRecord
<1>3. PICK o \in DbOutcomes, x \in {StartedRow(q), StructuredRow(q, "pages"),
                                   StructuredRow(q, "sections")} :
        rows' = Updated(o, row[q], x)
  BY DEF StampStarted, InsertDocumentPages, InsertDocumentSections
<1>4. /\ x.run = rows[row[q]].run /\ x.completed = rows[row[q]].completed
      /\ x.failed = rows[row[q]].failed
  <2>1. rows[row[q]] \in Row
    BY <1>2 DEF TypeOK
  <2>2. QED
    BY <1>3, <2>1 DEF Row, StartedRow, StructuredRow
<1>5. RecordSteps
  BY <1>1, <1>3, <1>4, RecordUpdates
<1>6. StatusSteps
  BY <1>2, StatusAdvances
  DEF StampStarted, InsertDocumentPages, InsertDocumentSections, memoryVars
<1>7. QED
  BY <1>1, <1>5, <1>6, AnswersKept DEF Serves

(* The steps that leave the database alone.                                *)
LEMMA ReviewServes ==
  ASSUME Inv, NEW q \in Requests,
         Extract(q) \/ RunRules(q) \/ FinishRules(q) \/ RunCagReview(q) \/ FinishLlm(q)
  PROVE  Serves
<1>1. TypeOK /\ runOf[q] \in Run
  BY DEF Inv, TypeInv, Asked, Extract, RunRules, FinishRules, RunCagReview, FinishLlm
<1>2. UNCHANGED <<runOf, answer, rows, findings>>
  BY DEF Extract, RunRules, FinishRules, RunCagReview, FinishLlm, dbVars
<1>3. StatusSteps
  BY <1>1, StatusAdvances
  DEF Extract, RunRules, FinishRules, RunCagReview, FinishLlm, memoryVars
<1>4. QED
  BY <1>2, <1>3, AnswersKept, RecordsKept DEF Serves

(* A finding is added to an open record, one at a time.                    *)
LEMMA PersistServes ==
  ASSUME Inv, HonestInv, NEW q \in Requests, PersistRuleFinding(q) \/ PersistLlmFinding(q)
  PROVE  Serves
<1>1. PICK c \in (RuleCandidates \cup LlmCandidates) \ findings[row[q]] : Persist(q, c)
  BY DEF PersistRuleFinding, PersistLlmFinding, Inv, TypeInv, TypeOK
<1>2. pc[q] \in Open
  BY DEF PersistRuleFinding, PersistLlmFinding, Open, Reviewing
<1>3. PICK i \in RowIds : i = row[q] /\ Seal(i) = "open" /\ TypeOK
  BY <1>2, OpenRecord
<1>4. /\ UNCHANGED <<status, runOf, answer, rows>>
      /\ \A j \in RowIds : (j # i) => findings'[j] = findings[j]
      /\ findings'[i] \in {findings[i], findings[i] \cup {c}}
  BY <1>1, <1>3 DEF Persist, memoryVars, TypeOK
<1>5. Seal(i)' = Seal(i)
  BY <1>4 DEF Seal, Inserted
<1>6. RecordSteps
  BY <1>1, <1>3, <1>4, <1>5, RecordMoves
<1>7. QED
  BY <1>4, <1>6, StatusKept, AnswersKept DEF Serves

(* The record is sealed as completed before the run is.                    *)
LEMMA CompleteServes ==
  ASSUME Inv, HonestInv, Unanswered, NEW q \in Requests, Complete(q)
  PROVE  Serves
<1>1. pc[q] \in Open /\ UNCHANGED <<runOf, findings>> /\ answer[q] = "none"
  BY DEF Complete, Open, Reviewing, Unanswered
<1>2. PICK i \in RowIds : i = row[q]
  BY <1>1, OpenRecord
<1>3. /\ TypeOK /\ runOf[q] \in Run /\ rows[i].run = runOf[q]
      /\ ~rows[i].failed /\ Seal(i) = "open"
  BY <1>1, <1>2, OpenRecord
<1>4. PICK o \in DbOutcomes :
        /\ rows' = Updated(o, row[q], CompletedRow(q))
        /\ IF o = "ok" /\ TransitionAllowed(status[runOf[q]], "completed")
           THEN Settle(q, "completed")
           ELSE Throw(q) /\ UNCHANGED <<status, processed, answer>>
  BY DEF Complete
<1>5. /\ \A j \in RowIds : (j # i) => rows'[j] = rows[j]
      /\ rows'[i] = IF o = "error" THEN rows[i] ELSE CompletedRow(q)
  <2>1. rows' = Updated(o, i, CompletedRow(q))
    BY <1>2, <1>4
  <2>2. QED
    BY <1>3, <2>1 DEF TypeOK, Updated
<1>6. /\ CompletedRow(q).run = runOf[q] /\ CompletedRow(q).completed
      /\ ~CompletedRow(q).failed
  BY <1>2, <1>3, RowFields, CompletedRowStamps
<1>7. /\ rows'[i].run = runOf[q]
      /\ Seal(i)' = IF o = "error" THEN "open" ELSE "completed"
  BY <1>3, <1>5, <1>6, PipelineAssumption DEF Seal, Inserted
<1>8. RecordSteps
  BY <1>1, <1>3, <1>5, <1>7, RecordMoves DEF Contract!SealOrder
<1>9. CASE o = "ok" /\ TransitionAllowed(status[runOf[q]], "completed")
  <2>1. SetStatus(runOf[q], "completed") /\ Reply(q, "completed")
    BY <1>4, <1>9 DEF Settle
  <2>2. StatusSteps
    BY <1>3, <1>7, <1>9, <2>1, StatusMoves
  <2>3. status'[runOf[q]] = "completed"
    BY <1>3, <2>1 DEF SetStatus, TypeOK
  <2>4. AnswerSteps
    BY <1>1, <1>3, <2>1, <2>3, Answers
  <2>5. QED
    BY <1>8, <2>2, <2>4 DEF Serves
<1>10. CASE ~(o = "ok" /\ TransitionAllowed(status[runOf[q]], "completed"))
  BY <1>1, <1>4, <1>8, <1>10, StatusKept, AnswersKept DEF Serves
<1>11. QED
  BY <1>9, <1>10

(* The record, if there is one, is sealed as failed.                       *)
LEMMA CatchServes ==
  ASSUME Inv, HonestInv, Unanswered, NEW q \in Requests, Catch(q)
  PROVE  Serves
<1>1. /\ pc[q] = "catch" /\ UNCHANGED <<runOf, findings>> /\ answer[q] = "none"
      /\ TypeOK /\ runOf[q] \in Run
  BY DEF Catch, Unanswered, Inv, TypeInv, Asked
<1>2. RecordSteps
  <2>1. CASE row[q] = None
    BY <1>1, <2>1, RecordsKept DEF Catch
  <2>2. CASE row[q] # None
    <3>1. PICK i \in RowIds : i = row[q]
      BY <1>1, <2>2 DEF TypeOK
    <3>2. /\ rows[i].run = runOf[q] /\ ~rows[i].failed
      BY <1>1, <2>2, <3>1 DEF Inv, OwnRow, Executing
    <3>3. PICK o \in DbOutcomes : rows' = Updated(o, row[q], FailedRow(q))
      BY <2>2 DEF Catch
    <3>4. /\ \A j \in RowIds : (j # i) => rows'[j] = rows[j]
          /\ rows'[i] \in {rows[i], FailedRow(q)}
      BY <1>1, <3>1, <3>3, RowUpdated
    <3>5. FailedRow(q).run = runOf[q] /\ FailedRow(q).failed
      BY <1>1, <3>1, <3>2 DEF FailedRow, TypeOK, Row
    <3>6. Seal(i) \in {"open", "completed"} /\ Seal(i)' \in {Seal(i), "failed"}
      BY <1>1, <3>2, <3>4, <3>5, PipelineAssumption DEF Seal, Inserted
    <3>7. QED
      BY <1>1, <3>2, <3>4, <3>5, <3>6, RecordMoves DEF Contract!SealOrder
  <2>3. QED
    BY <2>1, <2>2
<1>3. CASE TransitionAllowed(status[runOf[q]], "failed")
  <2>1. SetStatus(runOf[q], "failed") /\ Reply(q, "failed")
    BY <1>3 DEF Catch, Settle
  <2>2. StatusSteps
    BY <1>1, <1>3, <2>1, StatusMoves
  <2>3. status'[runOf[q]] = "failed"
    BY <1>1, <2>1 DEF SetStatus, TypeOK
  <2>4. AnswerSteps
    BY <1>1, <2>1, <2>3, Answers
  <2>5. QED
    BY <1>2, <2>2, <2>4 DEF Serves
<1>4. CASE ~TransitionAllowed(status[runOf[q]], "failed")
  <2>1. Reply(q, "refused") /\ status' = status
    BY <1>4 DEF Catch
  <2>2. AnswerSteps
    BY <1>1, <2>1, Answers
  <2>3. QED
    BY <1>2, <2>1, <2>2, StatusKept DEF Serves
<1>5. QED
  BY <1>3, <1>4

LEMMA CancelServes ==
  ASSUME Inv, NEW r \in Run, Cancel(r)
  PROVE  Serves
<1>1. TypeOK /\ UNCHANGED <<runOf, answer, rows, findings>>
  BY DEF Inv, TypeInv, Cancel, requestVars, dbVars
<1>2. StatusSteps
  BY <1>1, StatusMoves DEF Cancel
<1>3. QED
  BY <1>1, <1>2, AnswersKept, RecordsKept DEF Serves

LEMMA CrashRestarts ==
  ASSUME Unanswered, Crash
  PROVE  Contract!Restart
<1>1. /\ status' = [r \in Run |-> "none"]
      /\ UNCHANGED <<runOf, rows, findings>>
  BY DEF Crash, dbVars
<1>2. \A q \in Requests :
        \/ answer'[q] = answer[q]
        \/ answer[q] = "none" /\ answer'[q] = "lost"
  BY DEF Crash, Unanswered, InFlight
<1>3. [i \in RowIds |-> Seal(i)]' = [i \in RowIds |-> Seal(i)]
  BY <1>1 DEF Seal, Inserted
<1>4. QED
  BY <1>1, <1>2, <1>3 DEF Contract!Restart

LEMMA Stutters ==
  ASSUME UNCHANGED vars
  PROVE  UNCHANGED Contract!contractVars
  BY DEF vars, memoryVars, requestVars, dbVars, Contract!contractVars, Seal, Inserted

-----------------------------------------------------------------------------
(* The theorem.                                                            *)

LEMMA ContractStarts == Init => Contract!ContractInit
  BY DEF Init, Contract!ContractInit, Seal, Inserted, NoRow

LEMMA StepsImplement ==
  Inv /\ HonestInv /\ Unanswered /\ [Next]_vars
    => [Contract!Serve \/ Contract!Restart]_(Contract!contractVars)
<1> SUFFICES ASSUME Inv, HonestInv, Unanswered, [Next]_vars
             PROVE  [Contract!Serve \/ Contract!Restart]_(Contract!contractVars)
  OBVIOUS
<1>1. Serves => Contract!Serve
  BY DEF Serves, StatusSteps, AnswerSteps, RecordSteps, Contract!Serve
<1>2. ASSUME NEW q \in Requests, Post(q) PROVE Serves
  BY <1>2, AdmissionServes
<1>3. ASSUME NEW q \in Requests, Handle(q) PROVE Serves
  BY <1>3, AdmissionServes, InsertServes, StructureServes, ReviewServes, PersistServes,
     CompleteServes, CatchServes DEF Handle
<1>4. ASSUME NEW r \in Run, Cancel(r) PROVE Serves
  BY <1>4, CancelServes
<1>5. CASE Crash
  BY <1>5, CrashRestarts
<1>6. CASE UNCHANGED vars
  BY <1>6, Stutters
<1>7. QED
  BY <1>1, <1>2, <1>3, <1>4, <1>5, <1>6 DEF Next

(* The pipeline keeps every promise of the contract, for any documents,    *)
(* requests and findings, any failures, restarts and cancellations: what a *)
(* client is told and what the records hold move only as it allows.        *)
THEOREM Implements == Spec => ImplementsContract
<1>1. TypeOK /\ Unanswered /\ [Next]_vars => Unanswered'
  BY UnansweredStep
<1>2. Spec => []Unanswered
  BY <1>1, UnansweredInit, TypeCorrect, PTL DEF Spec
<1>3. QED
  BY <1>2, Invariance, HonestAlways, ContractStarts, StepsImplement, PTL
  DEF Spec, ImplementsContract, Contract!ContractSpec
=============================================================================
