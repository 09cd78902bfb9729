----------------------- MODULE ReviewCompletionProofs -----------------------
(***************************************************************************)
(* Proofs that a completed run tells the truth and that the board shows    *)
(* the outcome the API reports, for every value of the constants of        *)
(* ReviewPipeline.                                                         *)
(*                                                                         *)
(* The first argument follows the processor: at each of its steps the row  *)
(* says how far it has come and holds the findings stored so far, and      *)
(* since no two requests have one row, nobody else changes what it says.   *)
(* The second needs a database that answers and a process that stays up:   *)
(* then every processor that passed the insert knows its row, so whatever  *)
(* ends it stamps that row; and until it has ended, the run it works for   *)
(* is neither completed nor failed.                                        *)
(***************************************************************************)
EXTENDS ReviewPipelineProofs

(* The processor before its rule path has answered, from the insert of its *)
(* row to its completion, and while its findings are stored.               *)
Early == {"idle", "lookup", "insert", "stamp", "extract", "pages", "sections", "rules"}
Reviewing == {"rules", "ruleFindings", "llm", "llmFindings", "complete"}
Open == {"stamp", "extract", "pages", "sections"} \cup Reviewing

(* CompletionIsHonest for one request.                                     *)
Honest(q) ==
  /\ rows[row[q]].started
  /\ rows[row[q]].structure = "sections"
  /\ findings[row[q]] = ruleFindings[q] \cup reviewFindings[q]
  /\ ~(ruleError[q] /\ llmError[q])
  /\ ("rules" \in rows[row[q]].partial) <=> ruleError[q]
  /\ ("llm" \in rows[row[q]].partial) <=> llmError[q]

(* What has been written of the row when the processor is at a step.       *)
RowStage(q) ==
  /\ (pc[q] \in Open) => ~rows[row[q]].completed
  /\ (pc[q] \in Open \ {"stamp"}) => rows[row[q]].started
  /\ (pc[q] \in Reviewing \/ findings[row[q]] # {}) => rows[row[q]].structure = "sections"
  /\ (pc[q] \in Early) => findings[row[q]] = {}
  /\ (pc[q] = "ruleFindings") => findings[row[q]] \subseteq ruleFindings[q]
  /\ (pc[q] = "llm") => findings[row[q]] = ruleFindings[q]
  /\ (pc[q] = "llmFindings") =>
       /\ ruleFindings[q] \subseteq findings[row[q]]
       /\ findings[row[q]] \subseteq ruleFindings[q] \cup reviewFindings[q]
  /\ (pc[q] = "complete") =>
       /\ findings[row[q]] = ruleFindings[q] \cup reviewFindings[q]
       /\ ~(ruleError[q] /\ llmError[q])
  /\ rows[row[q]].completed => Honest(q)

Stage(q) ==
  /\ (pc[q] \in Early) => (~ruleError[q] /\ ruleFindings[q] = {})
  /\ (pc[q] \in Early \cup {"ruleFindings", "llm"}) => (~llmError[q] /\ reviewFindings[q] = {})
  /\ (row[q] # None) => RowStage(q)

(* No two requests have one row, and a row nobody inserted has nothing.    *)
OwnRows ==
  \A p, q \in Requests : (p # q /\ row[p] # None) => row[p] # row[q]

RowsInserted == \A q \in Requests : (row[q] # None) => Inserted(row[q])

UnusedRows == \A i \in RowIds : ~Inserted(i) => findings[i] = {}

HonestInv ==
  /\ OwnRows
  /\ RowsInserted
  /\ UnusedRows
  /\ FindingsHaveStructure
  /\ \A q \in Requests : Stage(q)

-----------------------------------------------------------------------------
(* Lemmas.                                                                 *)

(* A step of one request that writes no row but its own.                   *)
Touches(q) ==
  /\ row' = row
  /\ \A p \in Requests \ {q} :
       /\ pc'[p] = pc[p]
       /\ ruleError'[p] = ruleError[p] /\ ruleFindings'[p] = ruleFindings[p]
       /\ llmError'[p] = llmError[p] /\ reviewFindings'[p] = reviewFindings[p]
  /\ \A i \in RowIds : (i # row[q]) => (rows'[i] = rows[i] /\ findings'[i] = findings[i])
  /\ (row[q] # None) => rows'[row[q]].run = rows[row[q]].run

LEMMA OwnStep ==
  ASSUME TypeOK, HonestInv, NEW q \in Requests, Touches(q), Stage(q)'
  PROVE  HonestInv'
<1>1. \A p \in Requests : row'[p] = row[p] /\ ((row[p] # None) => row[p] \in RowIds)
  BY DEF TypeOK, Touches
<1>2. OwnRows'
  BY <1>1 DEF HonestInv, OwnRows
<1>3. ASSUME NEW p \in Requests \ {q}, row[p] # None
      PROVE  rows'[row[p]] = rows[row[p]] /\ findings'[row[p]] = findings[row[p]]
  BY <1>1, <1>3 DEF HonestInv, OwnRows, Touches
<1>4. RowsInserted'
  BY <1>1, <1>3 DEF HonestInv, RowsInserted, Inserted, Touches
<1>5. UnusedRows'
  <2>1. ASSUME NEW i \in RowIds, i = row[q] PROVE Inserted(i)'
    BY <1>1, <2>1, PipelineAssumption DEF HonestInv, RowsInserted, Inserted, Touches
  <2>2. QED
    BY <2>1 DEF HonestInv, UnusedRows, Inserted, Touches
<1>6. FindingsHaveStructure'
  <2>1. ASSUME NEW i \in RowIds, i = row[q], findings'[i] # {}
        PROVE  rows'[i].structure = "sections"
    BY <1>1, <2>1, PipelineAssumption DEF Stage, RowStage
  <2>2. QED
    BY <2>1 DEF HonestInv, FindingsHaveStructure, Touches
<1>7. ASSUME NEW p \in Requests \ {q} PROVE Stage(p)'
  <2>1. /\ pc'[p] = pc[p] /\ row'[p] = row[p]
        /\ ruleError'[p] = ruleError[p] /\ ruleFindings'[p] = ruleFindings[p]
        /\ llmError'[p] = llmError[p] /\ reviewFindings'[p] = reviewFindings[p]
    BY <1>1 DEF Touches
  <2>2. Stage(p)
    BY DEF HonestInv
  <2>3. ASSUME row[p] # None PROVE RowStage(p)'
    <3>1. RowStage(p)
      BY <2>2, <2>3 DEF Stage
    <3>2. rows'[row'[p]] = rows[row[p]] /\ findings'[row'[p]] = findings[row[p]]
      BY <1>3, <2>1, <2>3
    <3>3. QED
      BY <2>1, <3>1, <3>2 DEF RowStage, Honest
  <2>4. QED
    BY <2>1, <2>2, <2>3 DEF Stage
<1>8. QED
  BY <1>2, <1>4, <1>5, <1>6, <1>7 DEF HonestInv

LEMMA PcMoves ==
  ASSUME TypeOK, NEW q \in Requests, NEW next \in PipelineStates, Goto(q, next)
  PROVE  pc'[q] = next /\ \A p \in Requests \ {q} : pc'[p] = pc[p]
  BY DEF TypeOK, Goto

LEMMA AdvanceMoves ==
  ASSUME TypeOK, NEW q \in Requests, NEW next \in PipelineStates, NEW s,
         Advance(q, s, next)
  PROVE  pc'[q] \in {next, "catch"} /\ \A p \in Requests \ {q} : pc'[p] = pc[p]
  BY DEF TypeOK, Advance, Throw, Goto, PipelineStates

(* The fields of a row after each write of the processor.                  *)
LEMMA RowFields ==
  ASSUME TypeOK, NEW q \in Requests, row[q] \in RowIds
  PROVE  /\ StartedRow(q).run = rows[row[q]].run
         /\ StartedRow(q).completed = rows[row[q]].completed
         /\ StartedRow(q).structure = rows[row[q]].structure
         /\ StartedRow(q).started = TRUE
         /\ CompletedRow(q).run = rows[row[q]].run
         /\ CompletedRow(q).partial = PartialFailure(q)
         /\ CompletedRow(q).structure = rows[row[q]].structure
         /\ CompletedRow(q).started = rows[row[q]].started
         /\ FailedRow(q).run = rows[row[q]].run
         /\ FailedRow(q).completed = rows[row[q]].completed
         /\ FailedRow(q).partial = rows[row[q]].partial
         /\ FailedRow(q).structure = rows[row[q]].structure
         /\ FailedRow(q).started = rows[row[q]].started
<1>1. rows[row[q]] \in Row
  BY DEF TypeOK
<1>2. QED
  BY <1>1 DEF Row, StartedRow, CompletedRow, FailedRow

LEMMA StructuredFields ==
  ASSUME TypeOK, NEW q \in Requests, row[q] \in RowIds, NEW s
  PROVE  /\ StructuredRow(q, s).run = rows[row[q]].run
         /\ StructuredRow(q, s).completed = rows[row[q]].completed
         /\ StructuredRow(q, s).structure = s
         /\ StructuredRow(q, s).started = rows[row[q]].started
<1>1. rows[row[q]] \in Row
  BY DEF TypeOK
<1>2. QED
  BY <1>1 DEF Row, StructuredRow

(* The row after an update.                                                *)
LEMMA RowUpdated ==
  ASSUME TypeOK, NEW q \in Requests, row[q] \in RowIds, NEW o, NEW x,
         rows' = Updated(o, row[q], x)
  PROVE  /\ \A i \in RowIds : (i # row[q]) => rows'[i] = rows[i]
         /\ rows'[row[q]] = IF o = "error" THEN rows[row[q]] ELSE x
  BY DEF TypeOK, Updated

(* The processor at work has a row.                                        *)
LEMMA HasRow ==
  ASSUME Inv, HonestInv, NEW q \in Requests, pc[q] \in Open
  PROVE  row[q] \in RowIds /\ row[q] # None /\ Stage(q) /\ RowStage(q)
  BY DEF Inv, TypeInv, TypeOK, OwnRow, WithRow, Executing, Open, Reviewing, HonestInv, Stage

-----------------------------------------------------------------------------
(* The steps, in the order of the pipeline.                                *)

LEMMA AdmissionHonest ==
  ASSUME Inv, HonestInv, NEW q \in Requests,
         Post(q) \/ LookupFails(q) \/ JoinRun(q) \/ CreateRun(q)
  PROVE  HonestInv'
<1>1. /\ pc[q] \in {"idle", "lookup"}
      /\ pc'[q] \in {"lookup", "insert", "done"}
      /\ \A p \in Requests \ {q} : pc'[p] = pc[p]
      /\ UNCHANGED <<localVars, rows, findings>>
  BY DEF Inv, TypeInv, TypeOK, Post, LookupFails, JoinRun, CreateRun, Reply, Goto, dbVars
<1>2. row[q] = None
  BY <1>1 DEF Inv, OwnRow
<1>3. Touches(q)
  BY <1>1 DEF Touches, localVars
<1>4. Stage(q)'
  BY <1>1, <1>2 DEF HonestInv, Stage, Early, localVars
<1>5. QED
  BY <1>3, <1>4, OwnStep DEF Inv, TypeInv

LEMMA InsertHonest ==
  ASSUME Inv, HonestInv, NEW q \in Requests, InsertReviewRun(q)
  PROVE  HonestInv'
<1>1. PICK i \in RowIds, o \in DbOutcomes :
        ~Inserted(i) /\ InsertRow(q, i, NewRow(q), o)
  BY DEF InsertReviewRun
<1>2. /\ pc[q] = "insert" /\ row[q] = None /\ runOf[q] \in Run /\ runOf[q] # None
      /\ TypeOK /\ Stage(q) /\ i # None
  BY PipelineAssumption
  DEF InsertReviewRun, Inv, OwnRow, OpenRun, Executing, TypeInv, HonestInv
<1>3. /\ NewRow(q).run = runOf[q] /\ NewRow(q).completed = FALSE
  BY DEF NewRow, NoRow
<1>4. /\ UNCHANGED <<ruleError, ruleFindings, llmError, reviewFindings, findings>>
      /\ \A p \in Requests \ {q} : pc'[p] = pc[p] /\ row'[p] = row[p]
      /\ \A j \in RowIds : (j # i) => rows'[j] = rows[j]
      /\ rows'[i] \in {rows[i], NewRow(q)}
  BY <1>1, <1>2 DEF InsertRow, TypeOK, Throw, Goto
<1>5. \/ pc'[q] = "stamp" /\ row'[q] = i /\ rows'[i] = NewRow(q)
      \/ pc'[q] = "catch" /\ row'[q] = None
  BY <1>1, <1>2 DEF InsertRow, TypeOK, Throw, Goto
<1>6. \A p \in Requests \ {q} : (row[p] # None) => (row[p] \in RowIds /\ row[p] # i)
  BY <1>1, <1>2 DEF TypeOK, HonestInv, RowsInserted
<1>7. OwnRows'
  BY <1>4, <1>5, <1>6, <1>2 DEF HonestInv, OwnRows
<1>8. RowsInserted'
  BY <1>2, <1>3, <1>4, <1>5, <1>6 DEF HonestInv, RowsInserted, Inserted
<1>9. findings[i] = {}
  BY <1>1 DEF HonestInv, UnusedRows
<1>10. UnusedRows' /\ FindingsHaveStructure'
  BY <1>4, <1>9 DEF HonestInv, UnusedRows, FindingsHaveStructure, Inserted
<1>11. Stage(q)'
  BY <1>2, <1>3, <1>4, <1>5, <1>9
  DEF Stage, RowStage, Early, Open, Reviewing
<1>12. ASSUME NEW p \in Requests \ {q} PROVE Stage(p)'
  <2>1. Stage(p)
    BY DEF HonestInv
  <2>2. (row[p] # None) => rows'[row[p]] = rows[row[p]]
    BY <1>4, <1>6
  <2>3. QED
    BY <1>4, <2>1, <2>2 DEF Stage, RowStage, Honest
<1>13. QED
  BY <1>7, <1>8, <1>10, <1>11, <1>12 DEF HonestInv

LEMMA StampHonest ==
  ASSUME Inv, HonestInv, NEW q \in Requests, StampStarted(q)
  PROVE  HonestInv'
<1>1. /\ row[q] \in RowIds /\ row[q] # None /\ Stage(q) /\ RowStage(q) /\ TypeOK
      /\ pc[q] = "stamp"
  BY HasRow DEF StampStarted, Open, Inv, TypeInv
<1>2. PICK o \in DbOutcomes :
        /\ rows' = Updated(o, row[q], StartedRow(q))
        /\ IF o = "ok" THEN Advance(q, "extracting", "extract")
           ELSE Throw(q) /\ UNCHANGED status
  BY DEF StampStarted
<1>3. /\ \A i \in RowIds : (i # row[q]) => rows'[i] = rows[i]
      /\ rows'[row[q]] = IF o = "error" THEN rows[row[q]] ELSE StartedRow(q)
  BY <1>1, <1>2, RowUpdated
<1>4. /\ pc'[q] = "catch" \/ (pc'[q] = "extract" /\ o = "ok")
      /\ \A p \in Requests \ {q} : pc'[p] = pc[p]
  BY <1>1, <1>2, AdvanceMoves, PcMoves DEF Throw, PipelineStates
<1>5. UNCHANGED <<localVars, findings>>
  BY DEF StampStarted
<1>6. Touches(q)
  BY <1>1, <1>3, <1>4, <1>5, RowFields DEF Touches, localVars
<1>7. Stage(q)'
  BY <1>1, <1>3, <1>4, <1>5, RowFields
  DEF Stage, RowStage, Early, Open, Reviewing, localVars
<1>8. QED
  BY <1>1, <1>6, <1>7, OwnStep

(* A step that only moves on.                                              *)
LEMMA MoveHonest ==
  ASSUME Inv, HonestInv, NEW q \in Requests,
         UNCHANGED <<localVars, rows, findings>>,
         \A p \in Requests \ {q} : pc'[p] = pc[p],
         pc[q] \in Open, pc'[q] # pc[q],
         \/ pc'[q] = "catch"
         \/ pc[q] = "extract" /\ pc'[q] = "pages"
         \/ pc[q] = "ruleFindings" /\ pc'[q] = "llm" /\ ruleFindings[q] \subseteq findings[row[q]]
         \/ /\ pc[q] = "llmFindings" /\ pc'[q] = "complete"
            /\ reviewFindings[q] \subseteq findings[row[q]]
            /\ ~(ruleError[q] /\ llmError[q])
  PROVE  HonestInv'
<1>1. row[q] \in RowIds /\ row[q] # None /\ Stage(q) /\ RowStage(q) /\ TypeOK
  BY HasRow DEF Inv, TypeInv
<1>2. Touches(q)
  BY DEF Touches, localVars
<1>3. Stage(q)'
  BY <1>1 DEF Stage, RowStage, Honest, Early, Open, Reviewing, localVars
<1>4. QED
  BY <1>1, <1>2, <1>3, OwnStep

LEMMA ExtractHonest ==
  ASSUME Inv, HonestInv, NEW q \in Requests, Extract(q)
  PROVE  HonestInv'
<1>1. pc[q] = "extract" /\ TypeOK /\ UNCHANGED <<localVars, rows, findings>>
  BY DEF Extract, Inv, TypeInv, dbVars
<1>2. pc'[q] \in {"pages", "catch"} /\ \A p \in Requests \ {q} : pc'[p] = pc[p]
  BY <1>1, AdvanceMoves, PcMoves DEF Extract, Throw, PipelineStates
<1>3. QED
  BY <1>1, <1>2, MoveHonest DEF Open

LEMMA StructureHonest ==
  ASSUME Inv, HonestInv, NEW q \in Requests,
         InsertDocumentPages(q) \/ InsertDocumentSections(q)
  PROVE  HonestInv'
<1>1. /\ pc[q] \in {"pages", "sections"} /\ UNCHANGED <<localVars, findings>>
      /\ TypeOK
  BY DEF InsertDocumentPages, InsertDocumentSections, memoryVars, Inv, TypeInv
<1>2. row[q] \in RowIds /\ row[q] # None /\ Stage(q) /\ RowStage(q)
  BY <1>1, HasRow DEF Open
<1>3. PICK o \in DbOutcomes, s \in {"pages", "sections"} :
        /\ rows' = Updated(o, row[q], StructuredRow(q, s))
        /\ \/ pc'[q] = "catch"
           \/ s = "pages" /\ o = "ok" /\ pc'[q] = "sections"
           \/ s = "sections" /\ o = "ok" /\ pc'[q] = "rules"
        /\ \A p \in Requests \ {q} : pc'[p] = pc[p]
  <2>1. CASE InsertDocumentPages(q)
    BY <1>1, <2>1, PcMoves DEF InsertDocumentPages, Throw, PipelineStates
  <2>2. CASE InsertDocumentSections(q)
    BY <1>1, <2>2, PcMoves, AdvanceMoves DEF InsertDocumentSections, Throw, PipelineStates
  <2>3. QED
    BY <2>1, <2>2
<1>4. /\ \A i \in RowIds : (i # row[q]) => rows'[i] = rows[i]
      /\ rows'[row[q]] = IF o = "error" THEN rows[row[q]] ELSE StructuredRow(q, s)
  <2>1. PICK x : x = StructuredRow(q, s)
    OBVIOUS
  <2>2. rows' = Updated(o, row[q], x)
    BY <1>3, <2>1
  <2>3. QED
    BY <1>1, <1>2, <2>1, <2>2, RowUpdated
<1>5. Touches(q)
  BY <1>1, <1>2, <1>3, <1>4, StructuredFields DEF Touches, localVars
<1>6. findings[row[q]] = {} /\ ~rows[row[q]].completed /\ rows[row[q]].started
  BY <1>1, <1>2 DEF RowStage, Early, Open
<1>7. Stage(q)'
  BY <1>1, <1>2, <1>3, <1>4, <1>6, StructuredFields
  DEF Stage, RowStage, Early, Open, Reviewing, localVars
<1>8. QED
  BY <1>1, <1>5, <1>7, OwnStep

LEMMA RulesHonest ==
  ASSUME Inv, HonestInv, NEW q \in Requests, RunRules(q)
  PROVE  HonestInv'
<1>1. /\ pc[q] = "rules" /\ pc'[q] = "ruleFindings" /\ TypeOK
      /\ UNCHANGED <<row, llmError, reviewFindings, rows, findings>>
      /\ \A p \in Requests \ {q} :
           /\ pc'[p] = pc[p] /\ ruleError'[p] = ruleError[p]
           /\ ruleFindings'[p] = ruleFindings[p]
  BY DEF RunRules, Goto, Inv, TypeInv, TypeOK, dbVars
<1>2. row[q] \in RowIds /\ row[q] # None /\ Stage(q) /\ RowStage(q)
  BY <1>1, HasRow DEF Open, Reviewing
<1>3. Touches(q)
  BY <1>1 DEF Touches
<1>4. Stage(q)'
  BY <1>1, <1>2 DEF Stage, RowStage, Early, Open, Reviewing
<1>5. QED
  BY <1>1, <1>3, <1>4, OwnStep

(* A finding is stored in the processor's row, or it is not and the run    *)
(* fails.                                                                  *)
LEMMA PersistHonest ==
  ASSUME Inv, HonestInv, NEW q \in Requests, PersistRuleFinding(q) \/ PersistLlmFinding(q)
  PROVE  HonestInv'
<1>1. PICK c \in RuleCandidates \cup LlmCandidates :
        /\ Persist(q, c)
        /\ \/ pc[q] = "ruleFindings" /\ c \in ruleFindings[q]
           \/ pc[q] = "llmFindings" /\ c \in reviewFindings[q]
  BY DEF PersistRuleFinding, PersistLlmFinding, Inv, TypeInv, TypeOK
<1>2. /\ row[q] \in RowIds /\ row[q] # None /\ Stage(q) /\ RowStage(q) /\ TypeOK
  BY <1>1, HasRow DEF Open, Reviewing, Inv, TypeInv
<1>3. /\ \A i \in RowIds : (i # row[q]) => findings'[i] = findings[i]
      /\ findings'[row[q]] \in {findings[row[q]], findings[row[q]] \cup {c}}
  BY <1>1, <1>2 DEF Persist, TypeOK
<1>4. /\ pc'[q] \in {pc[q], "catch"} /\ \A p \in Requests \ {q} : pc'[p] = pc[p]
  BY <1>1, <1>2 DEF Persist, Throw, Goto, TypeOK
<1>5. UNCHANGED <<localVars, rows>>
  BY <1>1 DEF Persist
<1>6. Touches(q)
  BY <1>3, <1>4, <1>5 DEF Touches, localVars
<1>7. ~rows[row[q]].completed /\ rows[row[q]].structure = "sections"
  BY <1>1, <1>2 DEF RowStage, Open, Reviewing
<1>8. Stage(q)'
  <2>1. CASE pc'[q] = "catch"
    BY <1>2, <1>5, <1>7, <2>1 DEF Stage, RowStage, Early, Open, Reviewing, localVars
  <2>2. CASE pc[q] = "ruleFindings" /\ c \in ruleFindings[q] /\ pc'[q] = pc[q]
    BY <1>2, <1>3, <1>5, <1>7, <2>2 DEF Stage, RowStage, Early, Open, Reviewing, localVars
  <2>3. CASE pc[q] = "llmFindings" /\ c \in reviewFindings[q] /\ pc'[q] = pc[q]
    BY <1>2, <1>3, <1>5, <1>7, <2>3 DEF Stage, RowStage, Early, Open, Reviewing, localVars
  <2>4. QED
    BY <1>1, <1>4, <2>1, <2>2, <2>3
<1>9. QED
  BY <1>2, <1>6, <1>8, OwnStep

LEMMA FinishRulesHonest ==
  ASSUME Inv, HonestInv, NEW q \in Requests, FinishRules(q)
  PROVE  HonestInv'
<1>1. /\ pc[q] = "ruleFindings" /\ TypeOK /\ UNCHANGED <<localVars, rows, findings>>
      /\ ruleFindings[q] \subseteq findings[row[q]]
  BY DEF FinishRules, Inv, TypeInv, dbVars
<1>2. pc'[q] \in {"llm", "catch"} /\ \A p \in Requests \ {q} : pc'[p] = pc[p]
  BY <1>1, AdvanceMoves DEF FinishRules, PipelineStates
<1>3. QED
  BY <1>1, <1>2, MoveHonest DEF Open, Reviewing

LEMMA CagReviewHonest ==
  ASSUME Inv, HonestInv, NEW q \in Requests, RunCagReview(q)
  PROVE  HonestInv'
<1>1. /\ pc[q] = "llm" /\ TypeOK
      /\ UNCHANGED <<row, ruleError, ruleFindings, rows, findings>>
      /\ \A p \in Requests \ {q} :
           llmError'[p] = llmError[p] /\ reviewFindings'[p] = reviewFindings[p]
  BY DEF RunCagReview, Inv, TypeInv, TypeOK, dbVars
<1>2. pc'[q] \in {"llmFindings", "catch"} /\ \A p \in Requests \ {q} : pc'[p] = pc[p]
  BY <1>1, AdvanceMoves DEF RunCagReview, PipelineStates
<1>3. row[q] \in RowIds /\ row[q] # None /\ Stage(q) /\ RowStage(q)
  BY <1>1, HasRow DEF Open, Reviewing
<1>4. Touches(q)
  BY <1>1, <1>2 DEF Touches
<1>5. Stage(q)'
  BY <1>1, <1>2, <1>3 DEF Stage, RowStage, Early, Open, Reviewing
<1>6. QED
  BY <1>1, <1>4, <1>5, OwnStep

LEMMA FinishLlmHonest ==
  ASSUME Inv, HonestInv, NEW q \in Requests, FinishLlm(q)
  PROVE  HonestInv'
<1>1. /\ pc[q] = "llmFindings" /\ TypeOK /\ UNCHANGED <<localVars, rows, findings>>
      /\ reviewFindings[q] \subseteq findings[row[q]]
  BY DEF FinishLlm, Inv, TypeInv, dbVars
<1>2. /\ pc'[q] = "catch" \/ (pc'[q] = "complete" /\ ~(ruleError[q] /\ llmError[q]))
      /\ \A p \in Requests \ {q} : pc'[p] = pc[p]
  BY <1>1, PcMoves DEF FinishLlm, Throw, PipelineStates
<1>3. QED
  BY <1>1, <1>2, MoveHonest DEF Open, Reviewing

(* The completion names the paths that failed; it may be committed although*)
(* the processor never learns of it.                                       *)
LEMMA CompleteHonest ==
  ASSUME Inv, HonestInv, NEW q \in Requests, Complete(q)
  PROVE  HonestInv'
<1>1. pc[q] = "complete" /\ TypeOK /\ UNCHANGED <<localVars, findings>>
  BY DEF Complete, Inv, TypeInv
<1>2. row[q] \in RowIds /\ row[q] # None /\ Stage(q) /\ RowStage(q)
  BY <1>1, HasRow DEF Open, Reviewing
<1>3. PICK o \in DbOutcomes : rows' = Updated(o, row[q], CompletedRow(q))
  BY DEF Complete
<1>4. /\ \A i \in RowIds : (i # row[q]) => rows'[i] = rows[i]
      /\ rows'[row[q]] = IF o = "error" THEN rows[row[q]] ELSE CompletedRow(q)
  BY <1>1, <1>2, <1>3, RowUpdated
<1>5. pc'[q] \in {"done", "catch"} /\ \A p \in Requests \ {q} : pc'[p] = pc[p]
  BY <1>1 DEF Complete, Settle, Reply, Throw, Goto, TypeOK
<1>6. Touches(q)
  BY <1>1, <1>2, <1>4, <1>5, RowFields DEF Touches, localVars
<1>7. /\ ("rules" \in PartialFailure(q)) <=> ruleError[q]
      /\ ("llm" \in PartialFailure(q)) <=> llmError[q]
  BY DEF PartialFailure
<1>8. /\ rows[row[q]].started /\ rows[row[q]].structure = "sections"
      /\ ~rows[row[q]].completed
      /\ findings[row[q]] = ruleFindings[q] \cup reviewFindings[q]
      /\ ~(ruleError[q] /\ llmError[q])
  BY <1>1, <1>2 DEF RowStage, Open, Reviewing
<1>9. /\ rows'[row[q]].structure = "sections"
      /\ rows'[row[q]].completed => Honest(q)'
  BY <1>1, <1>2, <1>4, <1>7, <1>8, RowFields DEF Honest, localVars
<1>10. Stage(q)'
  BY <1>1, <1>5, <1>9 DEF Stage, RowStage, Early, Open, Reviewing, localVars
<1>11. QED
  BY <1>1, <1>6, <1>10, OwnStep

LEMMA CatchHonest ==
  ASSUME Inv, HonestInv, NEW q \in Requests, Catch(q)
  PROVE  HonestInv'
<1>1. pc[q] = "catch" /\ TypeOK /\ Stage(q) /\ UNCHANGED <<localVars, findings>>
  BY DEF Catch, Inv, TypeInv, HonestInv
<1>2. pc'[q] = "done" /\ \A p \in Requests \ {q} : pc'[p] = pc[p]
  BY <1>1 DEF Catch, Settle, Reply, Goto, TypeOK
<1>3. CASE row[q] = None
  <2>1. rows' = rows
    BY <1>3 DEF Catch
  <2>2. Touches(q)
    BY <1>1, <1>2, <1>3, <2>1 DEF Touches, localVars
  <2>3. Stage(q)'
    BY <1>1, <1>2, <1>3 DEF Stage, Early, localVars
  <2>4. QED
    BY <1>1, <2>2, <2>3, OwnStep
<1>4. CASE row[q] # None
  <2>1. row[q] \in RowIds /\ RowStage(q)
    BY <1>1, <1>4 DEF TypeOK, Stage
  <2>2. PICK o \in DbOutcomes : rows' = Updated(o, row[q], FailedRow(q))
    BY <1>4 DEF Catch
  <2>3. /\ \A i \in RowIds : (i # row[q]) => rows'[i] = rows[i]
        /\ rows'[row[q]] = IF o = "error" THEN rows[row[q]] ELSE FailedRow(q)
    BY <1>1, <2>1, <2>2, RowUpdated
  <2>4. LET r == rows[row[q]] s == rows'[row[q]]
        IN  /\ s.run = r.run /\ s.started = r.started /\ s.structure = r.structure
            /\ s.completed = r.completed /\ s.partial = r.partial
    BY <1>1, <2>1, <2>3, RowFields
  <2>5. Touches(q)
    BY <1>1, <1>2, <2>3, <2>4 DEF Touches, localVars
  <2>6. Stage(q)'
    BY <1>1, <1>2, <2>1, <2>4 DEF Stage, RowStage, Honest, Early, Open, Reviewing, localVars
  <2>7. QED
    BY <1>1, <2>5, <2>6, OwnStep
<1>5. QED
  BY <1>3, <1>4

LEMMA CrashHonest ==
  ASSUME Inv, HonestInv, Crash
  PROVE  HonestInv'
<1>1. /\ UNCHANGED <<rows, findings>>
      /\ \A q \in Requests :
           /\ row'[q] = None
           /\ ruleError'[q] = FALSE /\ ruleFindings'[q] = {}
           /\ llmError'[q] = FALSE /\ reviewFindings'[q] = {}
  BY DEF Crash, dbVars
<1>2. OwnRows' /\ RowsInserted' /\ \A q \in Requests : Stage(q)'
  BY <1>1 DEF OwnRows, RowsInserted, Stage
<1>3. UnusedRows' /\ FindingsHaveStructure'
  BY <1>1 DEF HonestInv, UnusedRows, FindingsHaveStructure, Inserted
<1>4. QED
  BY <1>2, <1>3 DEF HonestInv

(* A step that changes no request, no row and no finding.                  *)
LEMMA QuietHonest ==
  ASSUME HonestInv, UNCHANGED <<pc, localVars, rows, findings>>
  PROVE  HonestInv'
  BY DEF HonestInv, OwnRows, RowsInserted, UnusedRows, FindingsHaveStructure, Inserted,
     Stage, RowStage, Honest, localVars

LEMMA HonestInit == Init => HonestInv
  BY DEF Init, HonestInv, OwnRows, RowsInserted, UnusedRows, FindingsHaveStructure,
     Stage

LEMMA HonestStep == Inv /\ HonestInv /\ [Next]_vars => HonestInv'
<1> SUFFICES ASSUME Inv, HonestInv, [Next]_vars PROVE HonestInv'
  OBVIOUS
<1>1. ASSUME NEW q \in Requests, Post(q) PROVE HonestInv'
  BY <1>1, AdmissionHonest
<1>2. ASSUME NEW q \in Requests, Handle(q) PROVE HonestInv'
  BY <1>2, AdmissionHonest, InsertHonest, StampHonest, ExtractHonest, StructureHonest,
     RulesHonest, PersistHonest, FinishRulesHonest, CagReviewHonest, FinishLlmHonest,
     CompleteHonest, CatchHonest DEF Handle
<1>3. ASSUME NEW r \in Run, Cancel(r) PROVE HonestInv'
  BY <1>3, QuietHonest DEF Cancel, requestVars, dbVars
<1>4. CASE Crash
  BY <1>4, CrashHonest
<1>5. CASE UNCHANGED vars
  BY <1>5, QuietHonest DEF vars, requestVars, dbVars
<1>6. QED
  BY <1>1, <1>2, <1>3, <1>4, <1>5 DEF Next

LEMMA HonestAlways == Spec => []HonestInv
  BY Invariance, HonestInit, HonestStep, PTL DEF Spec

-----------------------------------------------------------------------------
(* The theorems.                                                           *)

(* A row stamped completed was started and structured, holds exactly what  *)
(* the two review paths returned and names the path that failed, for any   *)
(* findings, failures, restarts and cancellations.                         *)
THEOREM CompletedHonestly == Spec => []CompletionIsHonest
<1>1. HonestInv => CompletionIsHonest
  BY DEF HonestInv, Stage, RowStage, Honest, CompletionIsHonest
<1>2. QED
  BY <1>1, HonestAlways, PTL

(* No finding is stored before the structure its evidence points to.       *)
THEOREM Structured == Spec => []FindingsHaveStructure
<1>1. HonestInv => FindingsHaveStructure
  BY DEF HonestInv
<1>2. QED
  BY <1>1, HonestAlways, PTL

-----------------------------------------------------------------------------
(* The board agrees with the API.                                          *)

Reliable == DbOutcomes = {"ok"} /\ MaxCrashes = 0

InProcessor(r) == \E q \in Requests : runOf[q] = r /\ Executing(q)

(* A run that has not ended is in the processor, its row is its own, and   *)
(* if it was failed or cancelled its row says so once the processor ended. *)
Outcome(r) ==
  /\ (r \in processed) => status[r] # "none"
  /\ (status[r] \in ActiveStatuses) => InProcessor(r)
  /\ (runRow[r] # None) => rows[runRow[r]].run = r
  /\ (status[r] = "failed") => runRow[r] # None
  /\ (status[r] \in {"failed", "cancelled"} /\ runRow[r] # None /\ ~InProcessor(r))
       => rows[runRow[r]].failed

AgreementInv ==
  /\ \A r \in Run : Outcome(r)
  /\ \A q \in Requests : (Executing(q) /\ pc[q] # "insert") => row[q] # None

-----------------------------------------------------------------------------
(* Lemmas about the agreement.                                             *)

LEMMA AgreementInit == Init => AgreementInv
  BY DEF Init, AgreementInv, Outcome, Executing, ActiveStatuses, Statuses

(* A run that ended is not in the processor.                               *)
LEMMA EndedLeft ==
  ASSUME Inv, NEW r \in Run, InProcessor(r)
  PROVE  status[r] \notin {"none", "completed", "failed"}
  BY DEF Inv, OpenRun, InProcessor

(* The processor moves on: it stays the processor of its run, and the stamp*)
(* of a failure stays on every row.                                        *)
LEMMA WorkAgrees ==
  ASSUME Inv, AgreementInv, NEW q \in Requests, Work(q), processed' = processed
  PROVE  AgreementInv'
<1>1. TypeOK /\ row[q] \in RowIds /\ runOf[q] \in Run /\ Executing(q)
  BY DEF Inv, TypeInv, TypeOK, OwnRow, WithRow, Work, OpenRun
<1>2. /\ UNCHANGED <<runRow, row, runOf>>
      /\ \A p \in Requests : Executing(p)' <=> Executing(p)
      /\ \A p \in Requests \ {q} : pc'[p] = pc[p]
  BY <1>1 DEF Work, TypeOK, Working, Executing
<1>3. \A r \in Run : InProcessor(r)' <=> InProcessor(r)
  BY <1>2 DEF InProcessor
<1>4. InProcessor(runOf[q])
  BY <1>1 DEF InProcessor
<1>5. \A i \in RowIds : rows'[i].run = rows[i].run /\ rows'[i].failed = rows[i].failed
  BY <1>1 DEF Work, Kept, TypeOK
<1>6. /\ \A r \in Run : (r # runOf[q]) => status'[r] = status[r]
      /\ status'[runOf[q]] \notin {"none", "failed"}
  BY <1>1 DEF Work, TypeOK, ActiveStatuses, Statuses, TerminalStatuses, Inv, OpenRun
<1>7. ASSUME NEW r \in Run PROVE Outcome(r)'
  <2>1. Outcome(r) /\ ((runRow[r] # None) => runRow[r] \in RowIds)
    BY <1>1 DEF AgreementInv, TypeOK
  <2>2. QED
    BY <1>2, <1>3, <1>4, <1>5, <1>6, <2>1 DEF Outcome
<1>8. \A p \in Requests : (Executing(p)' /\ pc'[p] # "insert") => row'[p] # None
  BY <1>1, <1>2, PipelineAssumption DEF AgreementInv
<1>9. QED
  BY <1>7, <1>8 DEF AgreementInv

(* A request that never reaches the processor changes nothing.             *)
LEMMA AdmissionAgrees ==
  ASSUME Inv, AgreementInv, NEW q \in Requests, Post(q) \/ LookupFails(q) \/ JoinRun(q)
  PROVE  AgreementInv'
<1>1. /\ UNCHANGED <<status, processed, runRow, row, rows>>
      /\ \A p \in Requests \ {q} : pc'[p] = pc[p] /\ runOf'[p] = runOf[p]
      /\ ~Executing(q) /\ ~Executing(q)'
  BY DEF Inv, TypeInv, TypeOK, Post, LookupFails, JoinRun, Reply, Goto, Executing,
     memoryVars, localVars, dbVars
<1>2. \A p \in Requests : Executing(p)' <=> Executing(p)
  BY <1>1 DEF Executing
<1>3. \A r \in Run : InProcessor(r)' <=> InProcessor(r)
  BY <1>1, <1>2 DEF InProcessor
<1>4. QED
  BY <1>1, <1>2, <1>3 DEF AgreementInv, Outcome

(* A run the lifecycle does not know has left no memo, so its request      *)
(* enters the processor.                                                   *)
LEMMA CreationAgrees ==
  ASSUME Inv, AgreementInv, NEW q \in Requests, CreateRun(q)
  PROVE  AgreementInv'
<1>1. TypeOK /\ runOf[q] \in Run /\ status[runOf[q]] = "none" /\ ~Executing(q)
  BY DEF CreateRun, Inv, TypeInv, Asked, Executing
<1>2. runOf[q] \notin processed
  BY <1>1 DEF AgreementInv, Outcome
<1>3. /\ UNCHANGED <<processed, runOf, runRow, row, rows>>
      /\ \A p \in Requests \ {q} : pc'[p] = pc[p]
      /\ pc'[q] = "insert"
      /\ status'[runOf[q]] = "queued"
      /\ \A r \in Run : (r # runOf[q]) => status'[r] = status[r]
  BY <1>1, <1>2 DEF CreateRun, TypeOK, SetStatus, Goto, localVars, dbVars
<1>4. InProcessor(runOf[q])' /\ \A p \in Requests \ {q} : Executing(p)' <=> Executing(p)
  BY <1>3 DEF InProcessor, Executing
<1>5. \A r \in Run : (r # runOf[q]) => (InProcessor(r)' <=> InProcessor(r))
  BY <1>1, <1>3, <1>4 DEF InProcessor
<1>6. QED
  BY <1>1, <1>3, <1>4, <1>5 DEF AgreementInv, Outcome

(* The insert is answered, so the processor knows its row.                 *)
LEMMA InsertAgrees ==
  ASSUME Reliable, Inv, AgreementInv, NEW q \in Requests, InsertReviewRun(q)
  PROVE  AgreementInv'
<1>1. PICK i \in RowIds : ~Inserted(i) /\ InsertRow(q, i, NewRow(q), "ok")
  BY DEF InsertReviewRun, Reliable
<1>2. TypeOK /\ runOf[q] \in Run /\ Executing(q) /\ i # None
  BY PipelineAssumption
  DEF InsertReviewRun, Inv, TypeInv, Asked, Executing
<1>3. /\ UNCHANGED <<status, processed, runOf>>
      /\ \A p \in Requests \ {q} : pc'[p] = pc[p] /\ row'[p] = row[p]
      /\ pc'[q] = "stamp" /\ row'[q] = i
      /\ runRow'[runOf[q]] = i
      /\ \A r \in Run : (r # runOf[q]) => runRow'[r] = runRow[r]
      /\ rows'[i] = NewRow(q)
      /\ \A j \in RowIds : (j # i) => rows'[j] = rows[j]
  BY <1>1, <1>2 DEF InsertRow, TypeOK, Goto
<1>4. \A p \in Requests : Executing(p)' <=> Executing(p)
  BY <1>2, <1>3 DEF Executing
<1>5. \A r \in Run : InProcessor(r)' <=> InProcessor(r)
  BY <1>3, <1>4 DEF InProcessor
<1>6. InProcessor(runOf[q])
  BY <1>2 DEF InProcessor
<1>7. ASSUME NEW r \in Run PROVE Outcome(r)'
  <2>1. CASE r = runOf[q]
    <3>1. rows'[runRow'[r]].run = r
      BY <1>2, <1>3, <2>1, NewRowFields DEF TypeOK
    <3>2. QED
      BY <1>2, <1>3, <1>5, <1>6, <2>1, <3>1 DEF AgreementInv, Outcome
  <2>2. CASE r # runOf[q]
    <3>1. (runRow[r] # None) => (runRow[r] \in RowIds /\ runRow[r] # i)
      BY <1>1, <1>2, PipelineAssumption DEF TypeOK, AgreementInv, Outcome, Inserted
    <3>2. QED
      BY <1>3, <1>5, <2>2, <3>1 DEF AgreementInv, Outcome
  <2>3. QED
    BY <2>1, <2>2
<1>8. QED
  BY <1>2, <1>3, <1>4, <1>7 DEF AgreementInv

(* The processor ends; unless it completed its run, it stamped the row.    *)
LEMMA EndAgrees ==
  ASSUME Reliable, Inv, AgreementInv, NEW q \in Requests,
         Catch(q) \/ (Complete(q) /\ pc'[q] # "catch")
  PROVE  AgreementInv'
<1>1. /\ TypeOK /\ runOf[q] \in Run /\ Executing(q) /\ row[q] \in RowIds
      /\ runRow[runOf[q]] = row[q] /\ rows[row[q]].run = runOf[q]
      /\ row[q] # None
  BY DEF Inv, TypeInv, TypeOK, Asked, AgreementInv, OwnRow, Executing, Catch, Complete
<1>2. /\ UNCHANGED <<runRow, row, runOf>>
      /\ \A p \in Requests \ {q} : pc'[p] = pc[p]
      /\ pc'[q] = "done"
  BY <1>1 DEF Catch, Complete, Settle, Reply, Throw, Goto, TypeOK, localVars
<1>3. /\ ~Executing(q)'
      /\ \A p \in Requests \ {q} : Executing(p)' <=> Executing(p)
  BY <1>2 DEF Executing
<1>4. \A r \in Run : (r # runOf[q]) => (InProcessor(r)' <=> InProcessor(r))
  BY <1>2, <1>3 DEF InProcessor
<1>5. /\ processed' \subseteq processed \cup {runOf[q]}
      /\ \A r \in Run : (r # runOf[q]) => status'[r] = status[r]
  BY <1>1 DEF Catch, Complete, Settle, SetStatus, Throw, TypeOK
<1>6. \A i \in RowIds : (i # row[q]) => rows'[i] = rows[i]
  BY <1>1 DEF Catch, Complete, Updated, TypeOK
<1>7. ASSUME NEW r \in Run, r # runOf[q] PROVE Outcome(r)'
  <2>1. (runRow[r] # None) => (runRow[r] \in RowIds /\ runRow[r] # row[q])
    BY <1>1, <1>7 DEF TypeOK, AgreementInv, Outcome
  <2>2. QED
    BY <1>2, <1>4, <1>5, <1>6, <1>7, <2>1 DEF AgreementInv, Outcome
<1>8. Outcome(runOf[q])'
  <2>1. status[runOf[q]] \notin {"none", "completed", "failed"}
    BY <1>1 DEF Inv, OpenRun
  <2>2. CASE Catch(q)
    <3>1. rows' = [rows EXCEPT ![row[q]] = FailedRow(q)]
      BY <1>1, <2>2 DEF Catch, Updated, Reliable
    <3>2. rows'[row[q]].run = runOf[q] /\ rows'[row[q]].failed
      BY <1>1, <3>1 DEF TypeOK, Row, FailedRow
    <3>3. status'[runOf[q]] \notin ActiveStatuses \cup {"none"}
      BY <1>1, <2>1, <2>2
      DEF Catch, Settle, SetStatus, TypeOK, TransitionAllowed, NextStatuses,
          ActiveStatuses, TerminalStatuses
    <3>4. QED
      BY <1>1, <1>2, <3>2, <3>3 DEF Outcome
  <2>3. CASE Complete(q) /\ pc'[q] # "catch"
    <3>1. status'[runOf[q]] = "completed"
      BY <1>1, <2>3 DEF Complete, Settle, SetStatus, Throw, Goto, TypeOK
    <3>2. rows' = [rows EXCEPT ![row[q]] = CompletedRow(q)]
      BY <1>1, <2>3 DEF Complete, Updated, Reliable
    <3>3. rows'[row[q]].run = runOf[q]
      BY <1>1, <3>2 DEF TypeOK, Row, CompletedRow
    <3>4. QED
      BY <1>1, <1>2, <3>1, <3>3 DEF Outcome, ActiveStatuses, TerminalStatuses
  <2>4. QED
    BY <2>2, <2>3
<1>9. QED
  BY <1>2, <1>3, <1>7, <1>8 DEF AgreementInv

(* The processor of a cancelled run is not told.                           *)
LEMMA CancelAgrees ==
  ASSUME Inv, AgreementInv, NEW c \in Run, Cancel(c)
  PROVE  AgreementInv'
<1>1. /\ status[c] \in ActiveStatuses /\ status'[c] = "cancelled"
      /\ \A r \in Run : (r # c) => status'[r] = status[r]
      /\ UNCHANGED <<processed, runRow, row, runOf, pc, rows>>
  BY Transitions
  DEF Cancel, SetStatus, Inv, TypeInv, TypeOK, requestVars, localVars, dbVars
<1>2. /\ \A r \in Run : InProcessor(r)' <=> InProcessor(r)
      /\ \A p \in Requests : Executing(p)' <=> Executing(p)
  BY <1>1 DEF InProcessor, Executing
<1>3. InProcessor(c)
  BY <1>1 DEF AgreementInv, Outcome
<1>4. QED
  BY <1>1, <1>2, <1>3 DEF AgreementInv, Outcome, ActiveStatuses, TerminalStatuses

LEMMA AgreementStep ==
  ASSUME Reliable
  PROVE  Inv /\ AgreementInv /\ [Next]_vars => AgreementInv'
<1> SUFFICES ASSUME Inv, AgreementInv, [Next]_vars PROVE AgreementInv'
  OBVIOUS
<1>1. ASSUME NEW q \in Requests, Post(q) PROVE AgreementInv'
  BY <1>1, AdmissionAgrees
<1>2. ASSUME NEW q \in Requests, Handle(q) PROVE AgreementInv'
  <2>1. CASE LookupFails(q) \/ JoinRun(q)
    BY <2>1, AdmissionAgrees
  <2>2. CASE CreateRun(q)
    BY <2>2, CreationAgrees
  <2>3. CASE InsertReviewRun(q)
    BY <2>3, InsertAgrees
  <2>4. CASE Catch(q) \/ (Complete(q) /\ pc'[q] # "catch")
    BY <2>4, EndAgrees
  <2>5. CASE Complete(q) /\ pc'[q] = "catch"
    <3>1. processed' = processed
      BY <2>5 DEF Complete, Settle, Reply, Goto, Inv, TypeInv, TypeOK
    <3>2. QED
      BY <2>5, <3>1, WorkSteps, WorkAgrees
  <2>6. CASE \/ StampStarted(q)
             \/ Extract(q)
             \/ InsertDocumentPages(q)
             \/ InsertDocumentSections(q)
             \/ RunRules(q)
             \/ PersistRuleFinding(q)
             \/ FinishRules(q)
             \/ RunCagReview(q)
             \/ PersistLlmFinding(q)
             \/ FinishLlm(q)
    <3>1. processed' = processed
      BY <2>6 DEF StampStarted, Extract, InsertDocumentPages, InsertDocumentSections,
         RunRules, PersistRuleFinding, FinishRules, RunCagReview, PersistLlmFinding,
         FinishLlm, Persist, memoryVars
    <3>2. QED
      BY <2>6, <3>1, WorkSteps, WorkAgrees
  <2>7. QED
    BY <1>2, <2>1, <2>2, <2>3, <2>4, <2>5, <2>6 DEF Handle
<1>3. ASSUME NEW r \in Run, Cancel(r) PROVE AgreementInv'
  BY <1>3, CancelAgrees
<1>4. CASE Crash
  BY <1>4 DEF Crash, Reliable, Inv, TypeInv, TypeOK
<1>5. CASE UNCHANGED vars
  BY <1>5 DEF vars, memoryVars, localVars, requestVars, dbVars, AgreementInv, Outcome,
     InProcessor, Executing
<1>6. QED
  BY <1>1, <1>2, <1>3, <1>4, <1>5 DEF Next

-----------------------------------------------------------------------------
(* The agreement.                                                          *)

(* While the database answers and the process stays up, a run the API      *)
(* reports as completed or failed, or a cancelled one whose processor has  *)
(* ended, is on the board with that outcome, a cancelled one as failed.    *)
THEOREM Agrees ==
  ASSUME Reliable
  PROVE  Spec => []BoardAgrees
<1>1. Inv /\ AgreementInv => BoardAgrees
  <2> SUFFICES ASSUME Inv, AgreementInv PROVE BoardAgrees
    OBVIOUS
  <2>1. ASSUME NEW r \in Run, status[r] = "completed"
        PROVE  runRow[r] # None /\ BoardStatus(runRow[r]) = "completed"
    BY <2>1 DEF Inv, CompletedIsDurable, BoardStatus
  <2>2. ASSUME NEW r \in Run, status[r] = "failed"
        PROVE  runRow[r] # None /\ BoardStatus(runRow[r]) = "failed"
    BY <2>2, EndedLeft DEF AgreementInv, Outcome, BoardStatus
  <2>3. ASSUME NEW r \in Run, status[r] = "cancelled", runRow[r] # None,
               \A q \in Requests : (runOf[q] = r) => ~InFlight(q)
        PROVE  BoardStatus(runRow[r]) = "failed"
    <3>1. ~InProcessor(r)
      BY <2>3 DEF InProcessor, Executing, InFlight
    <3>2. QED
      BY <2>3, <3>1 DEF AgreementInv, Outcome, BoardStatus
  <2>4. QED
    BY <2>1, <2>2, <2>3 DEF BoardAgrees
<1>2. QED
  BY <1>1, AgreementInit, AgreementStep, Invariance, PTL DEF Spec
=============================================================================
