------------------------ MODULE ReviewPipelineProofs ------------------------
(***************************************************************************)
(* Proofs about ReviewPipeline, for every set of documents, versions,      *)
(* requests and candidate findings, any number of restarts and whether or  *)
(* not the database fails and runs are cancelled.                          *)
(*                                                                         *)
(* None of the safety properties is inductive by itself.  What carries     *)
(* them is ownership: from the moment a request creates a run until its    *)
(* processor ends, that request is the only one to write the run's row and *)
(* the run's status is neither completed nor failed.                       *)
(***************************************************************************)
EXTENDS ReviewPipeline, TLAPS

Executing(q) == pc[q] \notin {"idle", "lookup", "done", "gone"}

(* The states after insertReviewRun has returned an id.                    *)
WithRow(q) == Executing(q) /\ pc[q] \notin {"insert", "catch"}

(* A request in the processor is about a run that has not ended.           *)
OpenRun ==
  \A q \in Requests :
    Executing(q) =>
      /\ runOf[q] \in Run
      /\ status[runOf[q]] \notin {"none", "completed", "failed"}

(* At most one request is in the processor for a run.                      *)
OneExecutor ==
  \A p, q \in Requests :
    (Executing(p) /\ Executing(q) /\ runOf[p] = runOf[q]) => p = q

(* The processor's row is the run's row, nobody stamped it failed, and it  *)
(* is there from the insert on.                                            *)
OwnRow ==
  \A q \in Requests :
    /\ (pc[q] \in {"idle", "lookup", "insert"}) => row[q] = None
    /\ WithRow(q) => row[q] # None
    /\ (Executing(q) /\ row[q] # None) =>
         /\ rows[row[q]].run = runOf[q]
         /\ runRow[runOf[q]] = row[q]
         /\ ~rows[row[q]].failed

(* A posted request is about a run.                                        *)
Asked == \A q \in Requests : (pc[q] # "idle") => runOf[q] \in Run

(* A row of this lifetime belongs to a run the lifecycle knows, and nobody *)
(* is about to insert another one for it.                                  *)
RowOfLifetime ==
  \A i \in RowIds :
    Inserted(i) =>
      /\ rows[i].epoch <= crashes
      /\ (rows[i].epoch = crashes) =>
           /\ status[rows[i].run] # "none"
           /\ \A q \in Requests : (pc[q] = "insert") => runOf[q] # rows[i].run

-----------------------------------------------------------------------------

(* The status machine: a run that ended, or is unknown, moves nowhere, and *)
(* every move is to a status.                                              *)
LEMMA Transitions ==
  \A s, t : TransitionAllowed(s, t) =>
    s \in ActiveStatuses /\ t \in Statuses \ {"queued"}
  BY DEF TransitionAllowed, NextStatuses, ActiveStatuses, TerminalStatuses,
         Statuses

(* What each write makes of the row of the processor.                      *)
LEMMA RowUpdates ==
  ASSUME TypeOK, NEW q \in Requests, row[q] \in RowIds,
         NEW s \in {"pages", "sections"},
         NEW x \in {StartedRow(q), StructuredRow(q, s), CompletedRow(q),
                    FailedRow(q)}
  PROVE  /\ x \in Row
         /\ x.run = rows[row[q]].run
         /\ x.epoch = rows[row[q]].epoch
<1>1. rows[row[q]] \in Row /\ PartialFailure(q) \in SUBSET {"rules", "llm"}
  BY DEF TypeOK, PartialFailure
<1>2. QED
  BY <1>1 DEF Row, StartedRow, StructuredRow, CompletedRow, FailedRow

LEMMA CompletedRowStamps ==
  ASSUME TypeOK, NEW q \in Requests, row[q] \in RowIds
  PROVE  /\ CompletedRow(q).completed
         /\ CompletedRow(q).failed = rows[row[q]].failed
         /\ StartedRow(q).failed = rows[row[q]].failed
         /\ \A s \in {"pages", "sections"} :
              StructuredRow(q, s).failed = rows[row[q]].failed
<1>1. rows[row[q]] \in Row
  BY DEF TypeOK
<1>2. QED
  BY <1>1 DEF Row, StartedRow, StructuredRow, CompletedRow

LEMMA NewRowFields ==
  ASSUME NEW q, runOf[q] \in Run, crashes \in Nat
  PROVE  /\ NewRow(q) \in Row
         /\ NewRow(q).run = runOf[q]
         /\ NewRow(q).epoch = crashes
         /\ ~NewRow(q).failed
  BY DEF Row, NewRow, NoRow

(* An update of the row of the processor keeps the table well typed,       *)
(* whatever becomes of it; without a row it changes nothing.               *)
LEMMA UpdatedType ==
  ASSUME TypeOK, NEW q \in Requests, NEW o, NEW s \in {"pages", "sections"},
         NEW x \in {StartedRow(q), StructuredRow(q, s), CompletedRow(q),
                    FailedRow(q)}
  PROVE  Updated(o, row[q], x) \in [RowIds -> Row]
<1>1. (row[q] \in RowIds) => x \in Row
  BY RowUpdates
<1>2. rows \in [RowIds -> Row]
  BY DEF TypeOK
<1>3. QED
  BY <1>1, <1>2 DEF Updated

LEMMA AdvanceType ==
  ASSUME TypeOK, NEW q \in Requests, NEW s \in Statuses,
         NEW next \in PipelineStates, Advance(q, s, next)
  PROVE  /\ status' \in [Run -> Statuses \cup {"none"}]
         /\ pc' \in [Requests -> PipelineStates]
  BY DEF TypeOK, Advance, SetStatus, Throw, Goto, PipelineStates

LEMMA GotoType ==
  ASSUME TypeOK, NEW q \in Requests, NEW next \in PipelineStates,
         Goto(q, next)
  PROVE  pc' \in [Requests -> PipelineStates]
  BY DEF TypeOK, Goto

LEMMA PersistType ==
  ASSUME TypeOK, NEW q \in Requests, NEW c \in RuleCandidates \cup LlmCandidates,
         Persist(q, c)
  PROVE  findings' \in [RowIds -> SUBSET (RuleCandidates \cup LlmCandidates)]
<1> DEFINE F == [findings EXCEPT ![row[q]] = @ \cup {c}]
<1>1. findings \in [RowIds -> SUBSET (RuleCandidates \cup LlmCandidates)]
  BY DEF TypeOK
<1>2. F \in [RowIds -> SUBSET (RuleCandidates \cup LlmCandidates)]
  <2>1. ASSUME NEW i \in RowIds PROVE F[i] \subseteq RuleCandidates \cup LlmCandidates
    BY <1>1
  <2>2. QED
    BY <1>1, <2>1
<1>3. findings' = F \/ findings' = findings
  BY DEF Persist
<1>4. QED
  BY <1>1, <1>2, <1>3

LEMMA DocumentOfRun == \A r \in Run : DocumentOf(r) \in Documents
  BY DEF Run, DocumentOf

TypeInv == TypeOK /\ Asked

LEMMA TypeInit == Init => TypeInv
  BY PipelineAssumption
  DEF Init, TypeInv, Asked, TypeOK, Row, NoRow, Run, PipelineStates

LEMMA TypeStep == TypeInv /\ [Next]_vars => TypeInv'
<1> SUFFICES ASSUME TypeInv, [Next]_vars PROVE TypeInv'
  OBVIOUS
<1> USE DEF TypeInv, TypeOK, Asked, PipelineStates, memoryVars, localVars,
            requestVars, dbVars
<1>1. ASSUME NEW q \in Requests, Post(q) PROVE TypeInv'
  BY <1>1 DEF Post, Goto
<1>2. ASSUME NEW q \in Requests, LookupFails(q) PROVE TypeInv'
  BY <1>2 DEF LookupFails, Reply, Goto
<1>3. ASSUME NEW q \in Requests, JoinRun(q) PROVE TypeInv'
  BY <1>3, DocumentOfRun DEF JoinRun, Reply, Goto
<1>4. ASSUME NEW q \in Requests, CreateRun(q) PROVE TypeInv'
  BY <1>4, DocumentOfRun DEF CreateRun, Reply, Goto, SetStatus, Statuses
<1>5. ASSUME NEW q \in Requests, InsertReviewRun(q) PROVE TypeInv'
  <2>1. rows' \in [RowIds -> Row]
    BY <1>5, NewRowFields DEF InsertReviewRun, InsertRow
  <2>2. QED
    BY <1>5, <2>1 DEF InsertReviewRun, InsertRow, Throw, Goto
<1>6. ASSUME NEW q \in Requests, StampStarted(q) PROVE TypeInv'
  <2>1. rows' \in [RowIds -> Row]
    BY <1>6, UpdatedType DEF StampStarted
  <2>2. QED
    BY <1>6, <2>1, Transitions DEF StampStarted, Advance, SetStatus, Throw, Goto, Statuses
<1>7. ASSUME NEW q \in Requests, Extract(q) PROVE TypeInv'
  BY <1>7 DEF Extract, Advance, SetStatus, Throw, Goto, Statuses
<1>8. ASSUME NEW q \in Requests, InsertDocumentPages(q) PROVE TypeInv'
  <2>1. rows' \in [RowIds -> Row]
    BY <1>8, UpdatedType DEF InsertDocumentPages
  <2>2. QED
    BY <1>8, <2>1, Transitions DEF InsertDocumentPages, Throw, Goto
<1>9. ASSUME NEW q \in Requests, InsertDocumentSections(q) PROVE TypeInv'
  <2>1. rows' \in [RowIds -> Row]
    BY <1>9, UpdatedType DEF InsertDocumentSections
  <2>2. QED
    BY <1>9, <2>1, Transitions DEF InsertDocumentSections, Advance, SetStatus, Throw, Goto, Statuses
<1>10. ASSUME NEW q \in Requests, RunRules(q) PROVE TypeInv'
  <2>1. ruleFindings' \in [Requests -> SUBSET RuleCandidates]
    BY <1>10 DEF RunRules
  <2>2. QED
    BY <1>10, <2>1 DEF RunRules, Goto
<1>11. ASSUME NEW q \in Requests, PersistRuleFinding(q) PROVE TypeInv'
  <2>1. findings' \in [RowIds -> SUBSET (RuleCandidates \cup LlmCandidates)]
    BY <1>11, PersistType DEF PersistRuleFinding
  <2>2. QED
    BY <1>11, <2>1 DEF PersistRuleFinding, Persist, Throw, Goto
<1>12. ASSUME NEW q \in Requests, FinishRules(q) PROVE TypeInv'
  BY <1>12 DEF FinishRules, Advance, SetStatus, Throw, Goto, Statuses
<1>13. ASSUME NEW q \in Requests, RunCagReview(q) PROVE TypeInv'
  <2>1. reviewFindings' \in [Requests -> SUBSET LlmCandidates]
    BY <1>13 DEF RunCagReview
  <2>2. QED
    BY <1>13, <2>1 DEF RunCagReview, Advance, SetStatus, Throw, Goto, Statuses
<1>14. ASSUME NEW q \in Requests, PersistLlmFinding(q) PROVE TypeInv'
  <2>1. findings' \in [RowIds -> SUBSET (RuleCandidates \cup LlmCandidates)]
    BY <1>14, PersistType DEF PersistLlmFinding
  <2>2. QED
    BY <1>14, <2>1 DEF PersistLlmFinding, Persist, Throw, Goto
<1>15. ASSUME NEW q \in Requests, FinishLlm(q) PROVE TypeInv'
  BY <1>15 DEF FinishLlm, Throw, Goto
<1>16. ASSUME NEW q \in Requests, Complete(q) PROVE TypeInv'
  <2>1. rows' \in [RowIds -> Row]
    BY <1>16, UpdatedType DEF Complete
  <2>2. QED
    BY <1>16, <2>1, Transitions DEF Complete, Settle, SetStatus, Reply, Throw, Goto, Statuses
<1>17. ASSUME NEW q \in Requests, Catch(q) PROVE TypeInv'
  <2>1. rows' \in [RowIds -> Row]
    BY <1>17, UpdatedType DEF Catch
  <2>2. QED
    BY <1>17, <2>1, Transitions DEF Catch, Settle, SetStatus, Reply, Throw, Goto, Statuses
<1>18. ASSUME NEW r \in Run, Cancel(r) PROVE TypeInv'
  BY <1>18 DEF Cancel, SetStatus, Statuses
<1>19. CASE Crash
  BY <1>19 DEF Crash
<1>20. CASE UNCHANGED vars
  BY <1>20 DEF vars
<1>21. QED
  BY <1>1, <1>2, <1>3, <1>4, <1>5, <1>6, <1>7, <1>8, <1>9, <1>10, <1>11, <1>12, <1>13, <1>14, <1>15, <1>16, <1>17, <1>18, <1>19, <1>20 DEF Next, Handle

(* The variables keep their types, for every value of the constants.       *)
THEOREM TypeCorrect == Spec => []TypeOK
<1>1. TypeInv => TypeOK
  BY DEF TypeInv
<1>2. QED
  BY <1>1, TypeInit, TypeStep, PTL DEF Spec

-----------------------------------------------------------------------------

Inv ==
  /\ TypeInv
  /\ OpenRun
  /\ OneExecutor
  /\ OwnRow
  /\ RowOfLifetime
  /\ OneRowPerRunAndLifetime
  /\ CompletedIsDurable
  /\ AnswerIsFinal

(* The steps of the processor between the insert of its row and its end    *)
(* have one shape: it stays in the processor, moves its run to a status    *)
(* that is not final, and keeps the run, the lifetime and the failure      *)
(* stamp of its row.                                                       *)
Working == PipelineStates \ {"idle", "lookup", "insert", "done", "gone"}

Kept(q, x) ==
  x.run = rows[row[q]].run /\ x.epoch = rows[row[q]].epoch
    /\ x.failed = rows[row[q]].failed

Work(q) ==
  /\ WithRow(q)
  /\ \E next \in Working : pc' = [pc EXCEPT ![q] = next]
  /\ \/ status' = status
     \/ \E s \in ActiveStatuses :
          status[runOf[q]] \in ActiveStatuses
            /\ status' = [status EXCEPT ![runOf[q]] = s]
  /\ \/ rows' = rows
     \/ \E x \in Row : Kept(q, x) /\ rows' = [rows EXCEPT ![row[q]] = x]
  /\ UNCHANGED <<runRow, row, runOf, answer, crashes>>

LEMMA AdvanceWorks ==
  ASSUME NEW q \in Requests, NEW s \in ActiveStatuses, NEW next \in Working,
         Advance(q, s, next)
  PROVE  /\ \E n \in Working : pc' = [pc EXCEPT ![q] = n]
         /\ \/ status' = status
            \/ \E t \in ActiveStatuses :
                 status[runOf[q]] \in ActiveStatuses
                   /\ status' = [status EXCEPT ![runOf[q]] = t]
  BY Transitions
  DEF Advance, SetStatus, Throw, Goto, Working, PipelineStates

LEMMA UpdateWorks ==
  ASSUME Inv, NEW q \in Requests, WithRow(q), NEW o,
         NEW s \in {"pages", "sections"},
         NEW x \in {StartedRow(q), StructuredRow(q, s), CompletedRow(q)},
         rows' = Updated(o, row[q], x)
  PROVE  \/ rows' = rows
         \/ \E y \in Row : Kept(q, y) /\ rows' = [rows EXCEPT ![row[q]] = y]
<1>1. row[q] \in RowIds
  BY DEF Inv, TypeInv, TypeOK, OwnRow
<1>2. x \in Row /\ Kept(q, x)
  BY <1>1, RowUpdates, CompletedRowStamps DEF Inv, TypeInv, Kept
<1>3. QED
  BY <1>2 DEF Updated

LEMMA WorkSteps ==
  ASSUME Inv, NEW q \in Requests,
         \/ StampStarted(q)
         \/ Extract(q)
         \/ InsertDocumentPages(q)
         \/ InsertDocumentSections(q)
         \/ RunRules(q)
         \/ PersistRuleFinding(q)
         \/ FinishRules(q)
         \/ RunCagReview(q)
         \/ PersistLlmFinding(q)
         \/ FinishLlm(q)
         \/ Complete(q) /\ pc'[q] = "catch"
  PROVE  Work(q)
<1> USE DEF Work, WithRow, Executing, memoryVars, localVars, requestVars, dbVars
<1> DEFINE A == ActiveStatuses
<1>1. {"extracting", "segmenting", "validating", "rag_reviewing", "reporting"}
        \subseteq A
  BY DEF ActiveStatuses, Statuses, TerminalStatuses
<1>2. {"stamp", "extract", "pages", "sections", "rules", "ruleFindings", "llm",
       "llmFindings", "complete", "catch"} \subseteq Working
  BY DEF Working, PipelineStates
<1>3. pc \in [Requests -> PipelineStates]
  BY DEF Inv, TypeInv, TypeOK
<1>4. CASE StampStarted(q)
  BY <1>1, <1>2, <1>4, AdvanceWorks, UpdateWorks DEF StampStarted, Throw, Goto
<1>5. CASE Extract(q)
  BY <1>1, <1>2, <1>5, AdvanceWorks DEF Extract, Throw, Goto
<1>6. CASE InsertDocumentPages(q)
  BY <1>2, <1>6, UpdateWorks DEF InsertDocumentPages, Throw, Goto
<1>7. CASE InsertDocumentSections(q)
  BY <1>1, <1>2, <1>7, AdvanceWorks, UpdateWorks
  DEF InsertDocumentSections, Throw, Goto
<1>8. CASE RunRules(q)
  BY <1>2, <1>8 DEF RunRules, Goto
<1>9. CASE PersistRuleFinding(q)
  BY <1>2, <1>3, <1>9 DEF PersistRuleFinding, Persist, Throw, Goto
<1>10. CASE FinishRules(q)
  BY <1>1, <1>2, <1>10, AdvanceWorks DEF FinishRules
<1>11. CASE RunCagReview(q)
  BY <1>1, <1>2, <1>11, AdvanceWorks DEF RunCagReview
<1>12. CASE PersistLlmFinding(q)
  BY <1>2, <1>3, <1>12 DEF PersistLlmFinding, Persist, Throw, Goto
<1>13. CASE FinishLlm(q)
  BY <1>2, <1>13 DEF FinishLlm, Throw, Goto
<1>14. CASE Complete(q) /\ pc'[q] = "catch"
  BY <1>2, <1>3, <1>14, UpdateWorks
  DEF Complete, Settle, Reply, Throw, Goto
<1>15. QED
  BY <1>4, <1>5, <1>6, <1>7, <1>8, <1>9, <1>10, <1>11, <1>12, <1>13, <1>14

LEMMA WorkKeepsInv ==
  ASSUME Inv, TypeInv', NEW q \in Requests, Work(q)
  PROVE  Inv'
<1> USE DEF Executing, WithRow
<1>1. row[q] \in RowIds /\ runOf[q] \in Run
  BY DEF Inv, TypeInv, TypeOK, OwnRow, Work, OpenRun
<1>2. \A p \in Requests : Executing(p)' <=> Executing(p)
  BY DEF Inv, TypeInv, TypeOK, Work, Working
<1>3. \A r \in Run : r # runOf[q] => status'[r] = status[r]
  BY <1>1 DEF Inv, TypeInv, TypeOK, Work
<1>4. status'[runOf[q]] \notin {"none", "completed", "failed"}
  BY <1>1 DEF Inv, TypeInv, TypeOK, OpenRun, Work, ActiveStatuses, Statuses,
              TerminalStatuses
<1>5. \A i \in RowIds :
        /\ rows'[i].run = rows[i].run
        /\ rows'[i].epoch = rows[i].epoch
        /\ rows'[i].failed = rows[i].failed
        /\ i # row[q] => rows'[i] = rows[i]
  BY <1>1 DEF Inv, TypeInv, TypeOK, Work, Kept
<1>6. OpenRun'
  BY <1>2, <1>3, <1>4 DEF Inv, OpenRun, Work
<1>7. OneExecutor'
  BY <1>2 DEF Inv, OneExecutor, Work
<1>8. OwnRow'
  BY <1>1, <1>2, <1>5 DEF Inv, OwnRow, Work, TypeInv, TypeOK, Working
<1>9. RowOfLifetime'
  BY <1>1, <1>3, <1>4, <1>5
  DEF Inv, RowOfLifetime, Inserted, Work, TypeInv, TypeOK, Working, Row
<1>10. OneRowPerRunAndLifetime'
  BY <1>5 DEF Inv, OneRowPerRunAndLifetime, Inserted, Work
<1>11. CompletedIsDurable'
  BY <1>1, <1>3, <1>4, <1>5
  DEF Inv, CompletedIsDurable, Work, OwnRow, TypeInv, TypeOK
<1>12. AnswerIsFinal'
  BY <1>1, <1>3 DEF Inv, AnswerIsFinal, Work, TypeInv, TypeOK, Working,
     OpenRun, Asked, TerminalStatuses, ActiveStatuses
<1>13. QED
  BY <1>6, <1>7, <1>8, <1>9, <1>10, <1>11, <1>12 DEF Inv

(* The steps before the processor starts leave the database alone.         *)
LEMMA AdmissionKeepsInv ==
  ASSUME Inv, TypeInv', NEW q \in Requests,
         Post(q) \/ LookupFails(q) \/ JoinRun(q)
  PROVE  Inv'
<1> USE DEF Executing, WithRow, Reply, Goto, memoryVars, localVars, dbVars
<1>1. /\ UNCHANGED <<status, runRow, row, rows, crashes>>
      /\ \A p \in Requests : p # q => /\ pc'[p] = pc[p] /\ runOf'[p] = runOf[p]
                                     /\ answer'[p] = answer[p]
      /\ pc[q] \in {"idle", "lookup"} /\ pc'[q] \in {"lookup", "done"}
      /\ pc'[q] = "done" => answer'[q] \in {"refused", status'[runOf'[q]]}
  BY DEF Inv, TypeInv, TypeOK, Post, LookupFails, JoinRun
<1>2. OpenRun' /\ OneExecutor' /\ OwnRow'
  BY <1>1 DEF Inv, OpenRun, OneExecutor, OwnRow
<1>3. RowOfLifetime' /\ OneRowPerRunAndLifetime' /\ CompletedIsDurable'
  BY <1>1 DEF Inv, RowOfLifetime, OneRowPerRunAndLifetime, CompletedIsDurable,
              Inserted
<1>4. AnswerIsFinal'
  BY <1>1 DEF Inv, AnswerIsFinal, TerminalStatuses
<1>5. QED
  BY <1>2, <1>3, <1>4 DEF Inv

(* A run is created only when the lifecycle does not know it, so no other  *)
(* request is in the processor for it and it has no row of this lifetime.  *)
LEMMA CreationKeepsInv ==
  ASSUME Inv, TypeInv', NEW q \in Requests, CreateRun(q)
  PROVE  Inv'
<1> USE DEF Executing, WithRow, SetStatus, Reply, Goto, localVars, dbVars
<1>1. /\ runOf[q] \in Run /\ status[runOf[q]] = "none"
      /\ status'[runOf[q]] = "queued"
      /\ \A r \in Run : r # runOf[q] => status'[r] = status[r]
      /\ \A p \in Requests : p # q => pc'[p] = pc[p] /\ answer'[p] = answer[p]
      /\ UNCHANGED <<runRow, row, runOf, rows, crashes>>
      /\ pc'[q] = "insert" \/ (pc'[q] = "done" /\ answer'[q] = "queued")
      /\ pc[q] = "lookup"
  BY DEF Inv, TypeInv, TypeOK, CreateRun, Asked
<1>2. \A p \in Requests : Executing(p) => runOf[p] # runOf[q]
  BY <1>1 DEF Inv, OpenRun
<1>3. OpenRun'
  BY <1>1, <1>2 DEF Inv, OpenRun
<1>4. OneExecutor'
  BY <1>1, <1>2 DEF Inv, OneExecutor
<1>5. OwnRow'
  BY <1>1 DEF Inv, OwnRow
<1>6. RowOfLifetime'
  BY <1>1 DEF Inv, RowOfLifetime, Inserted, TypeInv, TypeOK, Row
<1>7. OneRowPerRunAndLifetime' /\ CompletedIsDurable'
  BY <1>1 DEF Inv, OneRowPerRunAndLifetime, CompletedIsDurable, Inserted
<1>8. AnswerIsFinal'
  BY <1>1 DEF Inv, AnswerIsFinal, TerminalStatuses, TypeInv, Asked
<1>9. QED
  BY <1>3, <1>4, <1>5, <1>6, <1>7, <1>8 DEF Inv

(* The insert adds a row at an unused id, the first of this lifetime for   *)
(* its run; the request keeps the id unless the answer is lost.            *)
LEMMA InsertKeepsInv ==
  ASSUME Inv, TypeInv', NEW q \in Requests, InsertReviewRun(q)
  PROVE  Inv'
<1> USE DEF Executing, WithRow, Throw, Goto
<1>1. PICK i \in RowIds, o \in DbOutcomes :
        ~Inserted(i) /\ InsertRow(q, i, NewRow(q), o)
  BY DEF InsertReviewRun
<1>2. /\ pc[q] = "insert" /\ runOf[q] \in Run
      /\ status[runOf[q]] \notin {"none", "completed", "failed"}
      /\ row[q] = None /\ i # None
  BY PipelineAssumption DEF InsertReviewRun, Inv, OpenRun, OwnRow
<1>3. /\ NewRow(q).run = runOf[q] /\ NewRow(q).epoch = crashes
      /\ ~NewRow(q).failed
  BY <1>2, NewRowFields DEF Inv, TypeInv, TypeOK
<1>4. /\ UNCHANGED <<status, runOf, answer, crashes>>
      /\ \A p \in Requests : p # q => pc'[p] = pc[p] /\ row'[p] = row[p]
      /\ \A r \in Run : r # runOf[q] => runRow'[r] = runRow[r]
      /\ \A j \in RowIds : j # i => rows'[j] = rows[j]
  BY <1>1 DEF InsertRow, Inv, TypeInv, TypeOK
<1>5. \/ /\ pc'[q] = "stamp" /\ row'[q] = i /\ runRow'[runOf[q]] = i
         /\ rows'[i] = NewRow(q)
      \/ /\ pc'[q] = "catch" /\ row'[q] = None /\ runRow' = runRow
         /\ rows'[i] \in {rows[i], NewRow(q)}
  BY <1>1, <1>2 DEF InsertRow, Inv, TypeInv, TypeOK
<1>6. \A p \in Requests : Executing(p)' <=> Executing(p)
  BY <1>2, <1>4, <1>5
<1>7. \A p \in Requests : (p # q /\ Executing(p)) => runOf[p] # runOf[q]
  BY <1>2 DEF Inv, OneExecutor
<1>8. \A j \in RowIds :
        (Inserted(j) /\ rows[j].run = runOf[q]) => rows[j].epoch # crashes
  BY <1>2 DEF Inv, RowOfLifetime
<1>9. OpenRun' /\ OneExecutor' /\ AnswerIsFinal'
  BY <1>2, <1>4, <1>5, <1>6 DEF Inv, OpenRun, OneExecutor, AnswerIsFinal
<1>10. OwnRow'
  <2>1. ASSUME NEW p \in Requests, Executing(p), row[p] # None
        PROVE  row[p] \in RowIds /\ row[p] # i /\ runOf[p] \in Run
    BY <1>1, <2>1, PipelineAssumption
    DEF Inv, OwnRow, OpenRun, Inserted, TypeInv, TypeOK
  <2>2. ASSUME NEW p \in Requests, p # q PROVE OwnRow!(p)'
    BY <1>4, <1>6, <1>7, <2>1, <2>2 DEF Inv, OwnRow
  <2>3. OwnRow!(q)'
    BY <1>1, <1>2, <1>3, <1>4, <1>5 DEF Inv, OwnRow
  <2>4. QED
    BY <2>2, <2>3 DEF OwnRow
<1>11. RowOfLifetime'
  BY <1>1, <1>2, <1>3, <1>4, <1>5, <1>7
  DEF Inv, RowOfLifetime, Inserted, TypeInv, TypeOK
<1>12. OneRowPerRunAndLifetime'
  BY <1>1, <1>2, <1>3, <1>4, <1>5, <1>8
  DEF Inv, OneRowPerRunAndLifetime, RowOfLifetime, Inserted
<1>13. CompletedIsDurable'
  BY <1>1, <1>2, <1>4, PipelineAssumption
  DEF Inv, CompletedIsDurable, Inserted, TypeInv, TypeOK
<1>14. QED
  BY <1>9, <1>10, <1>11, <1>12, <1>13 DEF Inv

(* The processor ends: its run takes its final status.                     *)
LEMMA EndKeepsInv ==
  ASSUME Inv, TypeInv', NEW q \in Requests,
         Catch(q) \/ (Complete(q) /\ pc'[q] # "catch")
  PROVE  Inv'
<1> USE DEF Executing, WithRow
<1>1. /\ Executing(q) /\ runOf[q] \in Run /\ pc'[q] = "done"
      /\ status[runOf[q]] \notin {"none", "completed", "failed"}
      /\ \A p \in Requests : p # q => pc'[p] = pc[p] /\ answer'[p] = answer[p]
      /\ UNCHANGED <<runRow, row, runOf, crashes>>
  BY DEF Inv, OpenRun, TypeInv, TypeOK, Catch, Complete, Settle, Reply, Throw,
         Goto, localVars
<1>2. \A r \in Run : r # runOf[q] => status'[r] = status[r]
  BY <1>1 DEF Catch, Complete, Settle, SetStatus, Inv, TypeInv, TypeOK
<1>3. \/ /\ status' = status /\ answer'[q] = "refused"
      \/ /\ status[runOf[q]] \in ActiveStatuses
         /\ status'[runOf[q]] \in {"completed", "failed"}
         /\ answer'[q] = status'[runOf[q]]
         /\ status'[runOf[q]] = "completed" => pc[q] = "complete"
  BY <1>1, Transitions
  DEF Catch, Complete, Settle, SetStatus, Reply, Throw, Goto, Inv, TypeInv, TypeOK
<1>4. row[q] \in RowIds \/ (row[q] = None /\ pc[q] = "catch")
  BY <1>1 DEF Inv, OwnRow, TypeInv, TypeOK, Catch, Complete
<1>5. row[q] \in RowIds =>
        /\ rows[row[q]].run = runOf[q]
        /\ runRow[runOf[q]] = row[q]
        /\ ~rows[row[q]].failed
  BY <1>1, PipelineAssumption DEF Inv, OwnRow
<1>6. \/ rows' = rows
      \/ /\ row[q] \in RowIds
         /\ \E x \in Row : /\ x.run = rows[row[q]].run
                          /\ x.epoch = rows[row[q]].epoch
                          /\ rows' = [rows EXCEPT ![row[q]] = x]
  BY <1>4, RowUpdates, PipelineAssumption
  DEF Catch, Complete, Updated, Inv, TypeInv
<1>7. \A i \in RowIds :
        /\ rows'[i].run = rows[i].run
        /\ rows'[i].epoch = rows[i].epoch
        /\ i # row[q] => rows'[i] = rows[i]
  BY <1>6 DEF Inv, TypeInv, TypeOK
<1>8. \A p \in Requests : (p # q /\ Executing(p)) => runOf[p] # runOf[q]
  BY <1>1 DEF Inv, OneExecutor
<1>9. OpenRun' /\ OneExecutor'
  BY <1>1, <1>2, <1>8 DEF Inv, OpenRun, OneExecutor
<1>10. OwnRow'
  BY <1>1, <1>5, <1>7, <1>8 DEF Inv, OwnRow, TypeInv, TypeOK
<1>11. RowOfLifetime'
  BY <1>1, <1>2, <1>3, <1>7
  DEF Inv, RowOfLifetime, Inserted, TypeInv, TypeOK, Row
<1>12. OneRowPerRunAndLifetime'
  BY <1>7 DEF Inv, OneRowPerRunAndLifetime, Inserted
<1>13. CompletedIsDurable'
  <2>1. ASSUME NEW r \in Run, r # runOf[q], status'[r] = "completed"
        PROVE  /\ runRow'[r] # None /\ rows'[runRow'[r]].run = r
               /\ rows'[runRow'[r]].completed /\ ~rows'[runRow'[r]].failed
    BY <1>1, <1>2, <1>5, <1>7, <2>1 DEF Inv, CompletedIsDurable, TypeInv, TypeOK
  <2>2. ASSUME status'[runOf[q]] = "completed"
        PROVE  /\ pc[q] = "complete" /\ row[q] \in RowIds
               /\ rows' = [rows EXCEPT ![row[q]] = CompletedRow(q)]
    <3>1. pc[q] = "complete" /\ Complete(q)
      BY <1>1, <1>3, <2>2 DEF Catch
    <3>2. PICK o \in DbOutcomes :
            /\ rows' = Updated(o, row[q], CompletedRow(q))
            /\ o = "ok" \/ pc'[q] = "catch"
      BY <3>1 DEF Complete, Throw, Goto, Inv, TypeInv, TypeOK
    <3>3. QED
      BY <1>1, <1>4, <3>1, <3>2 DEF Updated
  <2>3. ASSUME status'[runOf[q]] = "completed"
        PROVE  /\ runRow'[runOf[q]] # None
               /\ rows'[runRow'[runOf[q]]].run = runOf[q]
               /\ rows'[runRow'[runOf[q]]].completed
               /\ ~rows'[runRow'[runOf[q]]].failed
    BY <1>1, <1>5, <1>7, <2>2, <2>3, CompletedRowStamps, PipelineAssumption
    DEF Inv, TypeInv, TypeOK
  <2>4. QED
    BY <2>1, <2>3 DEF CompletedIsDurable
<1>14. AnswerIsFinal'
  BY <1>1, <1>2, <1>3
  DEF Inv, AnswerIsFinal, TypeInv, Asked, ActiveStatuses, TerminalStatuses
<1>15. QED
  BY <1>9, <1>10, <1>11, <1>12, <1>13, <1>14 DEF Inv

LEMMA CancelKeepsInv ==
  ASSUME Inv, TypeInv', NEW c \in Run, Cancel(c)
  PROVE  Inv'
<1> USE DEF Executing, WithRow, requestVars, localVars, dbVars
<1>1. /\ status[c] \in ActiveStatuses /\ status'[c] = "cancelled"
      /\ \A r \in Run : r # c => status'[r] = status[r]
      /\ UNCHANGED <<runRow, row, runOf, pc, answer, rows, crashes>>
  BY Transitions DEF Cancel, SetStatus, Inv, TypeInv, TypeOK
<1>2. OpenRun' /\ OneExecutor' /\ OwnRow'
  BY <1>1 DEF Inv, OpenRun, OneExecutor, OwnRow
<1>3. RowOfLifetime'
  BY <1>1 DEF Inv, RowOfLifetime, Inserted, TypeInv, TypeOK, Row
<1>4. OneRowPerRunAndLifetime' /\ CompletedIsDurable'
  BY <1>1 DEF Inv, OneRowPerRunAndLifetime, CompletedIsDurable, Inserted
<1>5. AnswerIsFinal'
  BY <1>1 DEF Inv, AnswerIsFinal, TypeInv, Asked, ActiveStatuses, TerminalStatuses
<1>6. QED
  BY <1>2, <1>3, <1>4, <1>5 DEF Inv

LEMMA CrashKeepsInv ==
  ASSUME Inv, TypeInv', Crash
  PROVE  Inv'
<1> USE DEF Executing, WithRow, dbVars
<1>1. /\ \A q \in Requests : pc'[q] \in {"idle", "gone"} /\ row'[q] = None
      /\ \A r \in Run : status'[r] = "none"
      /\ crashes' = crashes + 1 /\ rows' = rows /\ crashes \in Nat
  BY DEF Crash, Inv, TypeInv, TypeOK
<1>2. OpenRun' /\ OneExecutor' /\ OwnRow'
  BY <1>1 DEF OpenRun, OneExecutor, OwnRow
<1>3. RowOfLifetime'
  BY <1>1 DEF Inv, RowOfLifetime, Inserted, TypeInv, TypeOK, Row
<1>4. OneRowPerRunAndLifetime' /\ CompletedIsDurable' /\ AnswerIsFinal'
  BY <1>1 DEF Inv, OneRowPerRunAndLifetime, CompletedIsDurable, AnswerIsFinal,
              Inserted
<1>5. QED
  BY <1>2, <1>3, <1>4 DEF Inv

LEMMA InvInit == Init => Inv
  BY TypeInit, PipelineAssumption
  DEF Init, Inv, TypeInv, OpenRun, OneExecutor, OwnRow, RowOfLifetime,
      OneRowPerRunAndLifetime, CompletedIsDurable, AnswerIsFinal, Executing,
      WithRow, Inserted, NoRow, TerminalStatuses

LEMMA InvStep == Inv /\ [Next]_vars => Inv'
<1> SUFFICES ASSUME Inv, [Next]_vars PROVE Inv'
  OBVIOUS
<1>1. TypeInv'
  BY TypeStep DEF Inv
<1>2. ASSUME NEW q \in Requests, Post(q) PROVE Inv'
  BY <1>1, <1>2, AdmissionKeepsInv
<1>3. ASSUME NEW q \in Requests, Handle(q) PROVE Inv'
  <2>1. CASE LookupFails(q) \/ JoinRun(q)
    BY <1>1, <2>1, AdmissionKeepsInv
  <2>2. CASE CreateRun(q)
    BY <1>1, <2>2, CreationKeepsInv
  <2>3. CASE InsertReviewRun(q)
    BY <1>1, <2>3, InsertKeepsInv
  <2>4. CASE Catch(q) \/ (Complete(q) /\ pc'[q] # "catch")
    BY <1>1, <2>4, EndKeepsInv
  <2>5. QED
    BY <1>1, <1>3, <2>1, <2>2, <2>3, <2>4, WorkSteps, WorkKeepsInv DEF Handle
<1>4. ASSUME NEW r \in Run, Cancel(r) PROVE Inv'
  BY <1>1, <1>4, CancelKeepsInv
<1>5. CASE Crash
  BY <1>1, <1>5, CrashKeepsInv
<1>6. CASE UNCHANGED vars
  BY <1>1, <1>6
  DEF vars, memoryVars, localVars, requestVars, dbVars, Inv, OpenRun, OneExecutor,
      OwnRow, RowOfLifetime, OneRowPerRunAndLifetime, CompletedIsDurable,
      AnswerIsFinal, Executing, WithRow, Inserted
<1>7. QED
  BY <1>2, <1>3, <1>4, <1>5, <1>6 DEF Next

LEMMA Invariance == Spec => []Inv
  BY InvInit, InvStep, PTL DEF Spec

(* Whatever fails and however starts interleave, a run has at most one     *)
(* review_run row from each lifetime of the process.                       *)
THEOREM OneRow == Spec => []OneRowPerRunAndLifetime
<1>1. Inv => OneRowPerRunAndLifetime
  BY DEF Inv
<1>2. QED
  BY <1>1, Invariance, PTL

(* A run the API reports as completed has a completed row in the database. *)
THEOREM Durability == Spec => []CompletedIsDurable
<1>1. Inv => CompletedIsDurable
  BY DEF Inv
<1>2. QED
  BY <1>1, Invariance, PTL

(* An answer that names a final status stays true.                         *)
THEOREM Finality == Spec => []AnswerIsFinal
<1>1. Inv => AnswerIsFinal
  BY DEF Inv
<1>2. QED
  BY <1>1, Invariance, PTL
=============================================================================
