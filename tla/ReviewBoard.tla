---------------------------- MODULE ReviewBoard ----------------------------
(***************************************************************************)
(* What reviewers see of the reviews and decide about them: the cards of   *)
(* the review board, the approval and the priority of a card, the view of  *)
(* a run and its Markdown report.  The rows are shared by every API        *)
(* process; the status of a run lives in the memory of the process that    *)
(* works on it.                                                            *)
(*                                                                         *)
(* A statement of Postgres is one action, and so is the code between two   *)
(* awaits.  The work on a run, which ReviewPipeline details, is reduced    *)
(* here to the writes that the board and the report read.                  *)
(***************************************************************************)
EXTENDS Naturals, FiniteSetsExt

CONSTANTS
  Documents,    \* row ids of thesis_document
  Legacy,       \* documents older than the table review_workflow_item
  ItemIds,      \* row ids of review_workflow_item
  RunIds,       \* row ids of review_run, each with its run in the lifecycle
  Severities,   \* severities of findings, "serious" for critical and high
  Priorities,   \* priorities a reviewer gives, "normal" is the first of an item
  Reviewers,    \* requests that change a card, each used once
  Readers,      \* requests for a report, each used once
  DbOutcomes,   \* how a database call may end
  MaxRestarts,  \* bound on the restarts of the API process
  None          \* no document, no item, no run, no request

ASSUME BoardAssumption ==
  /\ Documents \subseteq Nat /\ ItemIds \subseteq Nat /\ RunIds \subseteq Nat
  /\ Legacy \subseteq Documents
  /\ None \notin Documents \cup ItemIds \cup RunIds \cup Reviewers
  /\ "ok" \in DbOutcomes /\ DbOutcomes \subseteq {"ok", "error", "lost"}
  /\ MaxRestarts \in Nat

VARIABLES
  \* Postgres
  docs,       \* rows of thesis_document
  items,      \* rows of review_workflow_item
  runs,       \* rows of review_run with the findings of each
  \* the memory of the API process
  lifecycle,  \* status of each run, "none" if this process has no such run
  rowKnown,   \* runs whose row the lifecycle knows
  \* requests
  decision,   \* what a reviewer was shown, did and was answered
  reading,    \* what a reader has been given so far
  restarts,
  lastStart   \* history: the run whose start was committed last, by document

dbVars == <<docs, items, runs>>
memoryVars == <<lifecycle, rowKnown>>
vars == <<dbVars, memoryVars, decision, reading, restarts, lastStart>>

NoItem == [doc |-> None, run |-> None, priority |-> "normal", approvedBy |-> None]
NoRun == [doc |-> None, stamp |-> "none", item |-> None, findings |-> {}]
NoDecision ==
  [pc |-> "idle", doc |-> None, card |-> None, named |-> FALSE, answer |-> "none"]
NoReading ==
  [pc |-> "idle", run |-> None, status |-> "none", summary |-> {}, list |-> {}]

Init ==
  /\ docs = Legacy
  /\ items = [k \in ItemIds |-> NoItem]
  /\ runs = [i \in RunIds |-> NoRun]
  /\ lifecycle = [i \in RunIds |-> "none"]
  /\ rowKnown = {}
  /\ decision = [q \in Reviewers |-> NoDecision]
  /\ reading = [r \in Readers |-> NoReading]
  /\ restarts = 0
  /\ lastStart = [d \in Documents |-> None]

-----------------------------------------------------------------------------
(* The projection of the rows into cards.                                  *)

ItemsOf(d) == { k \in ItemIds : items[k].doc = d }

Committed(i) == runs[i].stamp \in {"open", "completed", "failed"}

(* Variant: the newest row of the document.                                *)
CurrentRunNewest(d) ==
  LET own == { i \in RunIds : runs[i].doc = d /\ Committed(i) }
  IN  IF own = {} THEN None ELSE Max(own)

(* COALESCE(wi.review_run_id, latest_rr.id)                                *)
CurrentRun(d) ==
  LET named == { i \in RunIds : \E k \in ItemsOf(d) : items[k].run = i }
      own == { i \in RunIds : runs[i].doc = d /\ Committed(i) }
  IN  IF named # {} THEN Max(named)
      ELSE IF own # {} THEN Max(own) ELSE None

Approved(d) == \E k \in ItemsOf(d) : items[k].approvedBy # None

(* Nobody writes the status column after the insert; the two stamps        *)
(* override it.                                                            *)
StatusOf(i) == IF i = None THEN "none"
               ELSE IF runs[i].stamp = "open" THEN "queued" ELSE runs[i].stamp

ActiveStatuses ==
  {"queued", "extracting", "segmenting", "validating", "rag_reviewing",
   "reporting", "failed", "cancelled"}

(* projectBoardState of the API                                            *)
ProjectBoardState(approved, s) ==
  IF approved THEN "approved"
  ELSE IF s = "completed" THEN "reviewed"
  ELSE IF s \in ActiveStatuses THEN "in_review" ELSE "pending"

AttentionText(s) == IF s \in {"failed", "cancelled"} THEN s ELSE "none"

(* Variant: the id of the document names the card.                         *)
CardIdOfDocument(d) == d

(* toPublicBoardCardId(workflow_item_id ?? thesis_document_id)             *)
CardId(d) == IF ItemsOf(d) # {} THEN Max(ItemsOf(d)) ELSE d

(* toReviewBoardCard                                                       *)
Card(d) ==
  LET s == StatusOf(CurrentRun(d))
  IN  [id |-> CardId(d), run |-> CurrentRun(d), status |-> s,
       board_state |-> ProjectBoardState(Approved(d), s),
       attention |-> AttentionText(s), report_ready |-> s = "completed"]

(* The web client's own projection of a card: mapReviewBoardApiItemsToCards*)
(* keeps the status and turns the board state into an approval, then       *)
(* buildReviewBoardColumns chooses the column and the attention mark.      *)
InReviewStatuses ==
  {"queued", "extracting", "segmenting", "validating", "rag_reviewing",
   "reporting", "failed", "cancelled"}

(* Variant: a failed run is not in review.                                 *)
ColumnWithoutFailed(card) ==
  IF card.board_state = "approved" THEN "approved"
  ELSE IF card.status = "completed" THEN "reviewed"
  ELSE IF card.status \in InReviewStatuses \ {"failed"} THEN "in_review" ELSE "pending"

Column(card) ==
  IF card.board_state = "approved" THEN "approved"
  ELSE IF card.status = "completed" THEN "reviewed"
  ELSE IF card.status \in InReviewStatuses THEN "in_review" ELSE "pending"

Mark(card) == IF card.status \in {"failed", "cancelled"} THEN card.status ELSE "none"

-----------------------------------------------------------------------------
(* Documents and runs.                                                     *)

FreeItems ==
  { k \in ItemIds : items[k].doc = None /\ \A j \in RunIds : runs[j].item # k }

(* insertThesisDocument: the document and its item in one transaction.     *)
(* Item ids are also drawn by the upserts of insertReviewRun, so any       *)
(* unused one may come.                                                    *)
Upload(d) ==
  /\ d \notin docs
  /\ docs' = docs \cup {d}
  /\ \E k \in FreeItems : items' = [items EXCEPT ![k] = [NoItem EXCEPT !.doc = d]]
  /\ UNCHANGED <<runs, memoryVars, decision, reading, restarts, lastStart>>

(* insertReviewRun, its first statement: the id is drawn from the sequence.*)
InsertRow(i, d) ==
  /\ d \in docs
  /\ runs[i].stamp = "none"
  /\ \A j \in RunIds : j < i => runs[j].stamp # "none"
  /\ runs' = [runs EXCEPT ![i] = [NoRun EXCEPT !.doc = d, !.stamp = "drawn"]]
  /\ lifecycle' = [lifecycle EXCEPT ![i] = "active"]
  /\ UNCHANGED <<docs, items, rowKnown, decision, reading, restarts, lastStart>>

(* ON CONFLICT (thesis_document_id): the item the document has, or a new   *)
(* one.                                                                    *)
Target(i) == IF ItemsOf(runs[i].doc) # {} THEN ItemsOf(runs[i].doc) ELSE FreeItems

(* Variant: two upserts do not wait for each other.                        *)
UpsertItemUnlocked(i) ==
  /\ runs[i].stamp = "drawn"
  /\ \E k \in Target(i) :
       runs' = [runs EXCEPT ![i].stamp = "upserted", ![i].item = k]
  /\ UNCHANGED <<docs, items, memoryVars, decision, reading, restarts, lastStart>>

(* The upsert waits for a transaction that has written the item of the     *)
(* document and keeps the item locked until the commit.                    *)
UpsertItem(i) ==
  /\ runs[i].stamp = "drawn"
  /\ \A j \in RunIds : ~(runs[j].doc = runs[i].doc /\ runs[j].stamp = "upserted")
  /\ \E k \in Target(i) :
       runs' = [runs EXCEPT ![i].stamp = "upserted", ![i].item = k]
  /\ UNCHANGED <<docs, items, memoryVars, decision, reading, restarts, lastStart>>

(* The commit shows the row and the item.  If its answer is lost the       *)
(* processor never learns the row and fails the run in its own memory only.*)
(* Of a start that was rolled back nothing remains that a card or a report *)
(* of a completed run could show: its id is free for another one.          *)
CommitRun(i) ==
  /\ runs[i].stamp = "upserted"
  /\ \E o \in DbOutcomes :
       /\ IF o = "error"
          THEN /\ runs' = [runs EXCEPT ![i] = NoRun]
               /\ UNCHANGED <<items, lastStart>>
          ELSE /\ runs' = [runs EXCEPT ![i].stamp = "open", ![i].item = None]
               /\ items' = [items EXCEPT ![runs[i].item] =
                              [@ EXCEPT !.doc = runs[i].doc, !.run = i]]
               /\ lastStart' = [lastStart EXCEPT ![runs[i].doc] = i]
       /\ IF o = "ok"
          THEN rowKnown' = rowKnown \cup {i} /\ UNCHANGED lifecycle
          ELSE /\ lifecycle' = [lifecycle EXCEPT ![i] = IF o = "lost" THEN "failed" ELSE "none"]
               /\ UNCHANGED rowKnown
  /\ UNCHANGED <<docs, decision, reading, restarts>>

(* The processor stores a finding, stamps the row and then ends the run.   *)
(* It may fail anywhere, also when the stamp was written but its answer    *)
(* was lost; its last write may fail as well.                              *)
Working(i) == lifecycle[i] = "active" /\ i \in rowKnown

PersistFinding(i) ==
  /\ Working(i) /\ runs[i].stamp = "open"
  /\ \E s \in Severities \ runs[i].findings :
       runs' = [runs EXCEPT ![i].findings = @ \cup {s}]
  /\ UNCHANGED <<docs, items, memoryVars, decision, reading, restarts, lastStart>>

StampRow(i, stamp) ==
  /\ Working(i)
  /\ runs[i].stamp \in (IF stamp = "failed" THEN {"open", "completed"} ELSE {"open"})
  /\ runs' = [runs EXCEPT ![i].stamp = stamp]
  /\ UNCHANGED <<docs, items, memoryVars, decision, reading, restarts, lastStart>>

(* Variant: a status the lifecycle does not have.                          *)
EndRunMisspelt(i, s) ==
  /\ Working(i)
  /\ s = "completed" => runs[i].stamp = "completed"
  /\ lifecycle' = [lifecycle EXCEPT ![i] = IF s = "completed" THEN "complete" ELSE s]
  /\ UNCHANGED <<dbVars, rowKnown, decision, reading, restarts, lastStart>>

EndRun(i, s) ==
  /\ Working(i)
  /\ s = "completed" => runs[i].stamp = "completed"
  /\ lifecycle' = [lifecycle EXCEPT ![i] = s]
  /\ UNCHANGED <<dbVars, rowKnown, decision, reading, restarts, lastStart>>

-----------------------------------------------------------------------------
(* Reviewers decide about cards.                                           *)

(* listReviewBoardCards: the reviewer picks one of the cards.  "named" is  *)
(* history: the id of the card is the id of an item of its document, and   *)
(* not that of an old document that had none when the board was listed.    *)
PickCard(q, d) ==
  /\ decision[q].pc = "idle"
  /\ d \in docs
  /\ decision' = [decision EXCEPT ![q] =
       [NoDecision EXCEPT !.pc = "picked", !.doc = d, !.card = Card(d).id,
                          !.named = ItemsOf(d) # {}]]
  /\ UNCHANGED <<dbVars, memoryVars, reading, restarts, lastStart>>

(* The UPDATE of a card; an id without an item updates nothing.            *)
UpdateItem(q, new) ==
  /\ decision[q].pc = "picked"
  /\ items' = [k \in ItemIds |->
       IF k = decision[q].card /\ items[k].doc # None THEN new[k] ELSE items[k]]
  /\ UNCHANGED <<docs, runs, memoryVars, reading, restarts, lastStart>>

ApproveReviewBoardCard(q) ==
  /\ UpdateItem(q, [k \in ItemIds |-> [items[k] EXCEPT !.approvedBy = q]])
  /\ decision' = [decision EXCEPT ![q].pc = "approving"]

(* Variant: the item is written anew with its priority.                    *)
UpdateReviewBoardPriorityWhole(q) ==
  /\ \E p \in Priorities :
       UpdateItem(q, [k \in ItemIds |->
         [NoItem EXCEPT !.doc = items[k].doc, !.run = items[k].run, !.priority = p]])
  /\ decision' = [decision EXCEPT ![q] = [NoDecision EXCEPT !.pc = "over"]]

(* The card this request reads back is not kept.                           *)
UpdateReviewBoardPriority(q) ==
  /\ \E p \in Priorities :
       UpdateItem(q, [k \in ItemIds |-> [items[k] EXCEPT !.priority = p]])
  /\ decision' = [decision EXCEPT ![q] = [NoDecision EXCEPT !.pc = "over"]]

(* readReviewBoardCardById: a statement of its own after the UPDATE; a     *)
(* failure of either is a 422.                                             *)
ReadBack(q) ==
  /\ decision[q].pc = "approving"
  /\ LET k == decision[q].card
         found == k \in ItemIds /\ items[k].doc # None
     IN  \E a \in (IF found THEN {Card(items[k].doc).board_state} ELSE {"not_found"})
                    \cup (IF DbOutcomes = {"ok"} THEN {} ELSE {"refused"}) :
           decision' = [decision EXCEPT ![q] =
             [@ EXCEPT !.pc = "approved", !.card = None, !.answer = a]]
  /\ UNCHANGED <<dbVars, memoryVars, reading, restarts, lastStart>>

-----------------------------------------------------------------------------
(* Readers ask for the report of a run.  It begins with the view of the    *)
(* run, so a request for the view alone is the first half of it.  Of       *)
(* requests whose run is not completed nothing is kept: they also list the *)
(* findings, but what they print is not called final.                      *)

Given(r, new) ==
  /\ reading' = [reading EXCEPT ![r] =
       IF new.status = "completed" THEN new ELSE [NoReading EXCEPT !.pc = "done"]]
  /\ UNCHANGED <<dbVars, memoryVars, decision, restarts, lastStart>>

(* getReviewRun answers from memory; a run nobody knows has no report.  A  *)
(* run of the in-memory lifecycle of unknown documents is always queued.   *)
ReadStatus(r) ==
  /\ reading[r].pc = "idle"
  /\ \E i \in RunIds :
       Given(r, [NoReading EXCEPT !.pc = "summary", !.run = i, !.status = lifecycle[i]])

(* listFindingsForReviewRun of a run whose row the lifecycle knows         *)
ListFindings(i) == IF i \in rowKnown THEN runs[i].findings ELSE {}

(* withRealSummary of a completed run: the count of the findings, left at  *)
(* zero when the lookup fails.                                             *)
ReadSummary(r) ==
  /\ reading[r].pc = "summary"
  /\ \E found \in {ListFindings(reading[r].run)}
                    \cup (IF DbOutcomes = {"ok"} THEN {} ELSE {{}}) :
       Given(r, [reading[r] EXCEPT !.pc = "findings", !.summary = found])

(* Variant: a failed lookup of the findings reports none.                  *)
ReadFindingsLeniently(r) ==
  /\ reading[r].pc = "findings"
  /\ \E found \in {ListFindings(reading[r].run), {}} :
       Given(r, [reading[r] EXCEPT !.pc = "done", !.list = found])

(* resolveFindingsView, awaited after the view: a failed lookup is not     *)
(* caught and ends the request without a report.                           *)
ReadFindings(r) ==
  /\ reading[r].pc = "findings"
  /\ \/ Given(r, [reading[r] EXCEPT !.pc = "done", !.list = ListFindings(reading[r].run)])
     \/ DbOutcomes # {"ok"} /\ Given(r, NoReading)

-----------------------------------------------------------------------------

(* The process restarts: open transactions are rolled back, what is in     *)
(* memory and the requests in flight are gone.                             *)
Restart ==
  /\ restarts < MaxRestarts
  /\ restarts' = restarts + 1
  /\ lifecycle' = [i \in RunIds |-> "none"]
  /\ rowKnown' = {}
  /\ runs' = [i \in RunIds |->
       IF runs[i].stamp \in {"drawn", "upserted"}
       THEN NoRun ELSE runs[i]]
  /\ decision' = [q \in Reviewers |->
       IF decision[q].pc = "approving"
       THEN [decision[q] EXCEPT !.pc = "over", !.card = None] ELSE decision[q]]
  /\ reading' = [r \in Readers |->
       IF reading[r].pc \in {"summary", "findings"}
       THEN [NoReading EXCEPT !.pc = "done"] ELSE reading[r]]
  /\ UNCHANGED <<docs, items, lastStart>>

Next ==
  \/ \E d \in Documents : Upload(d)
  \/ \E i \in RunIds :
       \/ \E d \in Documents : InsertRow(i, d)
       \/ UpsertItem(i)
       \/ CommitRun(i)
       \/ PersistFinding(i)
       \/ \E s \in {"completed", "failed"} : StampRow(i, s) \/ EndRun(i, s)
  \/ \E q \in Reviewers :
       \/ \E d \in Documents : PickCard(q, d)
       \/ ApproveReviewBoardCard(q)
       \/ UpdateReviewBoardPriority(q)
       \/ ReadBack(q)
  \/ \E r \in Readers : ReadStatus(r) \/ ReadSummary(r) \/ ReadFindings(r)
  \/ Restart

Spec == Init /\ [][Next]_vars

-----------------------------------------------------------------------------
(* Properties.                                                             *)

(* Every variable has its type.                                            *)
TypeOK ==
  /\ docs \subseteq Documents
  /\ items \in [ItemIds -> [doc : Documents \cup {None}, run : RunIds \cup {None},
                            priority : Priorities \cup {"normal"},
                            approvedBy : Reviewers \cup {None}]]
  /\ runs \in [RunIds -> [doc : Documents \cup {None}, findings : SUBSET Severities,
                          item : ItemIds \cup {None},
                          stamp : {"none", "drawn", "upserted", "open", "completed",
                                   "failed"}]]
  /\ lifecycle \in [RunIds -> {"none", "active", "completed", "failed"}]
  /\ rowKnown \subseteq RunIds
  /\ decision \in [Reviewers ->
       [pc : {"idle", "picked", "approving", "approved", "over"},
        doc : Documents \cup {None}, card : Documents \cup ItemIds \cup {None},
        named : BOOLEAN,
        answer : {"none", "not_found", "refused", "pending", "in_review", "reviewed",
                  "approved"}]]
  /\ reading \in [Readers ->
       [pc : {"idle", "summary", "findings", "done"},
        run : RunIds \cup {None}, summary : SUBSET Severities, list : SUBSET Severities,
        status : {"none", "active", "completed", "failed"}]]
  /\ restarts \in 0..MaxRestarts
  /\ lastStart \in [Documents -> RunIds \cup {None}]

(* readinessText: what a report says about the thesis.                     *)
Verdict(r) ==
  IF reading[r].list # {}
  THEN IF "serious" \in reading[r].list THEN "required" ELSE "recommended"
  ELSE IF reading[r].status = "completed" THEN "ready" ELSE "preliminary"

(* A report that calls its run completed is final: the row is stamped so,  *)
(* the report lists every finding of the run, and its verdict is "ready"   *)
(* only if the run found nothing.  The status is read from memory and the  *)
(* findings, two awaits later, from the database, while the processor      *)
(* writes both and the process may restart.                                *)
ReportIsTrue ==
  \A r \in Readers :
    (reading[r].pc = "done" /\ reading[r].status = "completed") =>
      LET run == runs[reading[r].run]
      IN  /\ run.stamp = "completed"
          /\ reading[r].list = run.findings
          /\ reading[r].summary \in {{}, run.findings}
          /\ (Verdict(r) = "ready") <=> (run.findings = {})

(* A document is approved only by a reviewer who was shown that document,  *)
(* whatever was uploaded, started or decided since the board was listed,   *)
(* with one exception: the card of an old document that had no item then   *)
(* carries the id of the document, and an approval of it reaches the item  *)
(* of that number, whichever document that is of.                          *)
ApprovalsAreExplicit ==
  \A k \in ItemIds :
    items[k].approvedBy # None =>
      LET given == decision[items[k].approvedBy]
      IN  given.doc = items[k].doc \/ (~given.named /\ given.doc = k)

(* What the documents promise without that exception: an approval of a     *)
(* card is an approval of the document the card is of.                     *)
OnlyShownDocumentsApproved ==
  \A k \in ItemIds :
    items[k].approvedBy # None => decision[items[k].approvedBy].doc = items[k].doc

(* An approval of a card that is named by an item finds the item, and once *)
(* it was answered it lasts: later starts, which point the item to another *)
(* run, and changes of priority leave it as it is.  The card of an old     *)
(* document without an item is the exception again: its approval may be    *)
(* answered "not found", or with the card of another document.             *)
ApprovalIsKept ==
  \A q \in Reviewers :
    (decision[q].pc = "approved" /\ decision[q].named) =>
      \/ decision[q].answer = "refused"
      \/ decision[q].answer = "approved" /\ Approved(decision[q].doc)

(* The card of a document shows the run whose start was committed last,    *)
(* although the row ids of overlapping starts are drawn before their       *)
(* upserts queue for the item, so that the last one may have the lower id. *)
CardShowsLastStart ==
  \A d \in Documents : lastStart[d] # None => Card(d).run = lastStart[d]

(* The board of the web client, which derives the column from the status   *)
(* and the approval by rules of its own, puts a card where the API says it *)
(* is, and marks the runs that need attention exactly where the API does,  *)
(* approved cards with a failed run included.  It is about the mapping:    *)
(* the board page asks without a session and shows no card of the API.     *)
BoardsAgree ==
  \A d \in docs :
    LET card == Card(d)
    IN  Column(card) = card.board_state /\ Mark(card) = card.attention

(* Concurrent first starts of a document without an item create one item,  *)
(* so a document never has two cards and its decisions are in one place.   *)
OneCardPerDocument ==
  \A j, k \in ItemIds :
    (items[j].doc # None /\ items[j].doc = items[k].doc) => j = k
=============================================================================
