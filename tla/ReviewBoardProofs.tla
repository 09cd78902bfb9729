------------------------- MODULE ReviewBoardProofs -------------------------
(***************************************************************************)
(* Proofs about ReviewBoard, for every value of its constants: a document  *)
(* has one card, which shows its last start; an approval is of the         *)
(* document the reviewer saw and stays; a report of a completed run is     *)
(* final.                                                                  *)
(*                                                                         *)
(* The argument is about the row of the card: an item, once it has a       *)
(* document, keeps it, and a start that has not committed holds an item    *)
(* that is the one of its document or nobody's.                            *)
(***************************************************************************)
EXTENDS ReviewBoard, TLAPS

(* The types of the rows, the memory and the requests.                     *)
ItemRow == [doc : Documents \cup {None}, run : RunIds \cup {None},
            priority : Priorities \cup {"normal"}, approvedBy : Reviewers \cup {None}]

RunRow == [doc : Documents \cup {None}, findings : SUBSET Severities,
           item : ItemIds \cup {None},
           stamp : {"none", "drawn", "upserted", "open", "completed", "failed"}]

RowsTyped ==
  /\ docs \subseteq Documents
  /\ items \in [ItemIds -> ItemRow]
  /\ runs \in [RunIds -> RunRow]
  /\ lastStart \in [Documents -> RunIds \cup {None}]

DecisionRow ==
  [pc : {"idle", "picked", "approving", "approved", "over"},
   doc : Documents \cup {None}, card : Documents \cup ItemIds \cup {None},
   named : BOOLEAN,
   answer : {"none", "not_found", "refused", "pending", "in_review", "reviewed",
             "approved"}]

ReadingRow ==
  [pc : {"idle", "summary", "findings", "done"},
   run : RunIds \cup {None}, summary : SUBSET Severities, list : SUBSET Severities,
   status : {"none", "active", "completed", "failed"}]

RestTyped ==
  /\ lifecycle \in [RunIds -> {"none", "active", "completed", "failed"}]
  /\ rowKnown \subseteq RunIds
  /\ decision \in [Reviewers -> DecisionRow]
  /\ reading \in [Readers -> ReadingRow]
  /\ restarts \in 0..MaxRestarts

(* Together they are the type invariant of the component.                  *)
LEMMA Typed == TypeOK <=> (RowsTyped /\ RestTyped)
BY DEF TypeOK, RowsTyped, RestTyped, ItemRow, RunRow, DecisionRow, ReadingRow

(* Only a document older than the table of items has none.                 *)
ItemsInv ==
  /\ \A k \in ItemIds : (items[k].doc # None) => items[k].doc \in docs
  /\ \A k \in ItemIds : (items[k].doc = None) => items[k].approvedBy = None
  /\ Legacy \subseteq docs
  /\ \A d \in docs \ Legacy : \E k \in ItemIds : items[k].doc = d

(* A transaction between its upsert and its commit holds the item its      *)
(* document has, or one that nobody else has, and no other such            *)
(* transaction is about the document.                                      *)
Upserted(i) == runs[i].stamp = "upserted"

UpsertInv(i) ==
  /\ (runs[i].stamp # "none") => runs[i].doc \in docs
  /\ (runs[i].item # None) => Upserted(i)
  /\ Upserted(i) =>
       /\ runs[i].item \in ItemIds
       /\ items[runs[i].item].doc \in {None, runs[i].doc}
       /\ \A k \in ItemIds : (items[k].doc = runs[i].doc) => k = runs[i].item
       /\ \A j \in RunIds \ {i} :
            Upserted(j) => (runs[j].item # runs[i].item /\ runs[j].doc # runs[i].doc)

(* The item names the run whose start was committed last.                  *)
LastStartInv ==
  \A d \in Documents :
    (lastStart[d] # None) =>
      \E k \in ItemIds : items[k].doc = d /\ items[k].run = lastStart[d]

(* What the rows say of each other, apart from their types.                *)
RowsInv ==
  /\ ItemsInv
  /\ \A i \in RunIds : UpsertInv(i)
  /\ OneCardPerDocument
  /\ LastStartInv

BoardInv == RowsTyped /\ RestTyped /\ RowsInv

(* The maximum of a set with one element.                                  *)
LEMMA MaxOfOne ==
  ASSUME NEW n \in Nat
  PROVE  Max({n}) = n
BY DEF Max

(* The item of a document is the only one, so the card has its id and      *)
(* shows the run it names.                                                 *)
LEMMA CardOfItem ==
  ASSUME RowsTyped, OneCardPerDocument, NEW k \in ItemIds, items[k].doc # None
  PROVE  /\ ItemsOf(items[k].doc) = {k}
         /\ CardId(items[k].doc) = k
         /\ items[k].run # None => CurrentRun(items[k].doc) = items[k].run
<1> DEFINE d == items[k].doc
<1>1. ItemsOf(d) = {k}
  BY DEF ItemsOf, OneCardPerDocument
<1>2. k \in Nat
  BY BoardAssumption
<1>3. CardId(d) = k
  BY <1>1, <1>2, MaxOfOne DEF CardId
<1>4. ASSUME items[k].run # None
      PROVE  CurrentRun(d) = items[k].run
  <2>1. PICK i : i = items[k].run
    OBVIOUS
  <2>2. i \in RunIds /\ i \in Nat
    BY <1>4, <2>1, BoardAssumption DEF RowsTyped, ItemRow
  <2>3. { j \in RunIds : \E m \in ItemsOf(d) : items[m].run = j } = {i}
    BY <1>1, <2>1, <2>2
  <2> QED
    BY <2>1, <2>2, <2>3, MaxOfOne DEF CurrentRun
<1> QED
  BY <1>1, <1>3, <1>4

-----------------------------------------------------------------------------
(* The rows.                                                               *)

(* Before the first step there are old documents and nothing else.         *)
LEMMA InitRows == Init => RowsTyped /\ RestTyped /\ RowsInv
<1> SUFFICES ASSUME Init
             PROVE  RowsTyped /\ RestTyped /\ RowsInv
  OBVIOUS
<1> USE BoardAssumption
<1>1. RowsTyped
  BY DEF Init, RowsTyped, NoItem, NoRun, ItemRow, RunRow
<1>2. RestTyped
  BY DEF Init, RestTyped, DecisionRow, ReadingRow, NoDecision, NoReading
<1>3. RowsInv
  BY DEF Init, RowsInv, ItemsInv, UpsertInv, Upserted, OneCardPerDocument,
         LastStartInv, NoItem, NoRun
<1> QED
  BY <1>1, <1>2, <1>3

(* Most writes leave alone what RowsInv speaks of: to which document and   *)
(* run an item points, and the item a start holds.                         *)
LEMMA RowsFrame ==
  ASSUME RowsTyped, RowsInv,
         UNCHANGED <<docs, lastStart>>,
         \A k \in ItemIds :
           /\ items'[k].doc = items[k].doc /\ items'[k].run = items[k].run
           /\ items[k].doc = None => items'[k].approvedBy = items[k].approvedBy,
         \A i \in RunIds :
           \/ runs'[i] = NoRun
           \/ /\ runs'[i].doc = runs[i].doc /\ runs'[i].item = runs[i].item
              /\ runs[i].stamp # "none"
              /\ (runs'[i].stamp = "upserted") <=> Upserted(i)
           \/ runs'[i] = runs[i]
  PROVE  RowsInv'
<1>1. ItemsInv'
  BY DEF ItemsInv, RowsInv
<1>2. OneCardPerDocument'
  BY DEF OneCardPerDocument, RowsInv
<1>3. LastStartInv'
  BY DEF LastStartInv, RowsInv
<1>4. \A i \in RunIds : Upserted(i)' => (Upserted(i) /\ runs'[i].doc = runs[i].doc
                                         /\ runs'[i].item = runs[i].item)
  BY DEF Upserted, NoRun
<1>5. ASSUME NEW i \in RunIds
      PROVE  UpsertInv(i)'
  <2>1. UpsertInv(i)
    BY DEF RowsInv
  <2>2. ((runs[i].stamp # "none") => runs[i].doc \in docs)'
    BY <2>1 DEF UpsertInv, NoRun
  <2>3. ((runs[i].item # None) => Upserted(i))'
    BY <2>1 DEF UpsertInv, NoRun, Upserted
  <2>4. ASSUME Upserted(i)'
        PROVE  /\ (runs[i].item \in ItemIds)'
               /\ (items[runs[i].item].doc \in {None, runs[i].doc})'
               /\ (\A k \in ItemIds : (items[k].doc = runs[i].doc) => k = runs[i].item)'
               /\ (\A j \in RunIds \ {i} :
                   Upserted(j) => (runs[j].item # runs[i].item /\ runs[j].doc # runs[i].doc))'
    BY <1>4, <2>1, <2>4 DEF UpsertInv
  <2> QED
    BY <2>2, <2>3, <2>4 DEF UpsertInv
<1> QED
  BY <1>1, <1>2, <1>3, <1>5 DEF RowsInv

(* An upload gives the document an item that nobody else has or holds.     *)
LEMMA UploadRows ==
  ASSUME RowsTyped, RowsInv, NEW d \in Documents, Upload(d)
  PROVE  RowsTyped' /\ RowsInv'
<1>1. PICK k \in FreeItems : items' = [items EXCEPT ![k] = [NoItem EXCEPT !.doc = d]]
  BY DEF Upload
<1>2. /\ k \in ItemIds /\ items[k].doc = None
      /\ \A j \in RunIds : runs[j].item # k
  BY <1>1 DEF FreeItems
<1>3. /\ d \notin docs /\ docs' = docs \cup {d} /\ d # None
      /\ UNCHANGED <<runs, lastStart>>
  BY BoardAssumption DEF Upload
<1>4. \A j \in ItemIds :
        items'[j] = IF j = k THEN [doc |-> d, run |-> None, priority |-> "normal",
                                   approvedBy |-> None] ELSE items[j]
  BY <1>1 DEF RowsTyped, NoItem
<1>5. RowsTyped'
  BY <1>1, <1>2, <1>3 DEF RowsTyped, NoItem, ItemRow
<1>6. \A j \in ItemIds : items[j].doc # d
  BY <1>3 DEF RowsInv, ItemsInv
<1>7. ItemsInv'
  <2>1. \A e \in docs' \ Legacy : \E j \in ItemIds : items'[j].doc = e
    <3> TAKE e \in docs' \ Legacy
    <3>1. CASE e = d
      BY <1>2, <1>4, <3>1
    <3>2. CASE e # d
      <4>1. PICK j \in ItemIds : items[j].doc = e
        BY <1>3, <3>2 DEF RowsInv, ItemsInv
      <4>2. j # k
        BY <1>2, <1>3, <3>2, <4>1, BoardAssumption DEF RowsTyped
      <4> QED
        BY <1>4, <4>1, <4>2
    <3> QED
      BY <3>1, <3>2
  <2> QED
    BY <1>2, <1>3, <1>4, <2>1 DEF RowsInv, ItemsInv
<1>8. OneCardPerDocument'
  BY <1>2, <1>3, <1>4, <1>6 DEF RowsInv, OneCardPerDocument
<1>9. LastStartInv'
  <2> SUFFICES ASSUME NEW e \in Documents, lastStart'[e] # None
               PROVE  \E j \in ItemIds : items'[j].doc = e /\ items'[j].run = lastStart'[e]
    BY DEF LastStartInv
  <2>1. PICK j \in ItemIds : items[j].doc = e /\ items[j].run = lastStart[e]
    BY <1>3 DEF RowsInv, LastStartInv
  <2>2. j # k
    BY <1>2, <2>1, BoardAssumption
  <2> QED
    BY <1>3, <1>4, <2>1, <2>2
<1>10. ASSUME NEW i \in RunIds
       PROVE  UpsertInv(i)'
  <2>1. UpsertInv(i)
    BY DEF RowsInv
  <2>2. ((runs[i].stamp # "none") => runs[i].doc \in docs)'
        /\ ((runs[i].item # None) => Upserted(i))'
    BY <1>3, <2>1 DEF UpsertInv, Upserted
  <2>3. ASSUME Upserted(i)'
        PROVE  /\ (runs[i].item \in ItemIds)'
               /\ (items[runs[i].item].doc \in {None, runs[i].doc})'
               /\ (\A m \in ItemIds : (items[m].doc = runs[i].doc) => m = runs[i].item)'
               /\ (\A j \in RunIds \ {i} :
                   Upserted(j) => (runs[j].item # runs[i].item /\ runs[j].doc # runs[i].doc))'
    <3>1. runs[i].doc # d
      BY <1>3, <2>1, <2>3 DEF UpsertInv, Upserted
    <3> QED
      BY <1>2, <1>3, <1>4, <2>1, <2>3, <3>1 DEF UpsertInv, Upserted
  <2> QED
    BY <2>2, <2>3 DEF UpsertInv
<1> QED
  BY <1>5, <1>7, <1>8, <1>9, <1>10 DEF RowsInv

(* A drawn id holds no item yet.                                           *)
LEMMA InsertRows ==
  ASSUME RowsTyped, RowsInv, NEW n \in RunIds, NEW d \in Documents, InsertRow(n, d)
  PROVE  RowsTyped' /\ RowsInv'
<1> DEFINE new == [NoRun EXCEPT !.doc = d, !.stamp = "drawn"]
<1>1. /\ runs' = [runs EXCEPT ![n] = new]
      /\ d \in docs /\ runs[n].stamp = "none"
      /\ UNCHANGED <<docs, items, lastStart>>
  BY DEF InsertRow
<1>2. RowsTyped'
  BY <1>1 DEF RowsTyped, RunRow, NoRun
<1>3. \A j \in RunIds :
        IF j = n THEN /\ runs'[j].doc = d /\ runs'[j].stamp = "drawn"
                      /\ runs'[j].item = None
                 ELSE runs'[j] = runs[j]
  BY <1>1 DEF RowsTyped, NoRun
<1>4. ItemsInv' /\ OneCardPerDocument' /\ LastStartInv'
  BY <1>1 DEF RowsInv, ItemsInv, OneCardPerDocument, LastStartInv
<1>5. \A i \in RunIds : Upserted(i)' => (i # n /\ Upserted(i))
  BY <1>3 DEF Upserted
<1>6. ASSUME NEW i \in RunIds
      PROVE  UpsertInv(i)'
  <2>1. UpsertInv(i)
    BY DEF RowsInv
  <2> QED
    BY <1>1, <1>3, <1>5, <2>1 DEF UpsertInv, Upserted
<1> QED
  BY <1>2, <1>4, <1>6 DEF RowsInv

(* The upsert takes the item of the document, or a free one if it has none.*)
LEMMA UpsertRows ==
  ASSUME RowsTyped, RowsInv, NEW n \in RunIds, UpsertItem(n)
  PROVE  RowsTyped' /\ RowsInv'
<1>1. PICK k \in Target(n) :
        runs' = [runs EXCEPT ![n].stamp = "upserted", ![n].item = k]
  BY DEF UpsertItem
<1>2. /\ runs[n].stamp = "drawn"
      /\ \A j \in RunIds : ~(runs[j].doc = runs[n].doc /\ runs[j].stamp = "upserted")
      /\ UNCHANGED <<docs, items, lastStart>>
  BY DEF UpsertItem
<1>3. /\ runs[n].doc \in docs /\ runs[n].doc # None
      /\ \A j \in RunIds : UpsertInv(j)
  BY <1>2, BoardAssumption DEF RowsInv, UpsertInv, RowsTyped
<1>4. /\ k \in ItemIds
      /\ items[k].doc \in {None, runs[n].doc}
      /\ \A m \in ItemIds : (items[m].doc = runs[n].doc) => m = k
      /\ \A j \in RunIds : Upserted(j) => runs[j].item # k
  <2>1. CASE ItemsOf(runs[n].doc) # {}
    <3>1. k \in ItemIds /\ items[k].doc = runs[n].doc
      BY <1>1, <2>1 DEF Target, ItemsOf
    <3>2. \A m \in ItemIds : (items[m].doc = runs[n].doc) => m = k
      BY <1>3, <3>1 DEF RowsInv, OneCardPerDocument
    <3>3. \A j \in RunIds : Upserted(j) => runs[j].item # k
      BY <1>2, <1>3, <3>1 DEF UpsertInv, Upserted
    <3> QED
      BY <3>1, <3>2, <3>3
  <2>2. CASE ItemsOf(runs[n].doc) = {}
    BY <1>1, <2>2 DEF Target, ItemsOf, FreeItems
  <2> QED
    BY <2>1, <2>2
<1>5. \A j \in RunIds :
        runs'[j] = IF j = n THEN [runs[n] EXCEPT !.stamp = "upserted", !.item = k]
                            ELSE runs[j]
  BY <1>1 DEF RowsTyped
<1>6. RowsTyped'
  <2>1. [runs[n] EXCEPT !.stamp = "upserted", !.item = k] \in RunRow
    BY <1>4 DEF RowsTyped, RunRow
  <2> QED
    BY <1>1, <1>2, <1>5, <2>1 DEF RowsTyped
<1>7. /\ runs'[n].stamp = "upserted" /\ runs'[n].item = k /\ runs'[n].doc = runs[n].doc
      /\ \A j \in RunIds \ {n} : runs'[j] = runs[j]
  BY <1>5 DEF RowsTyped, RunRow
<1>8. ItemsInv' /\ OneCardPerDocument' /\ LastStartInv'
  BY <1>2 DEF RowsInv, ItemsInv, OneCardPerDocument, LastStartInv
<1>9. ASSUME NEW i \in RunIds
      PROVE  UpsertInv(i)'
  BY <1>2, <1>3, <1>4, <1>7 DEF UpsertInv, Upserted
<1> QED
  BY <1>6, <1>8, <1>9 DEF RowsInv

(* The commit gives the item that was held to the document and the run.    *)
LEMMA CommitRows ==
  ASSUME RowsTyped, RowsInv, NEW n \in RunIds, CommitRun(n)
  PROVE  RowsTyped' /\ RowsInv'
<1>1. CASE runs' = [runs EXCEPT ![n] = NoRun] /\ UNCHANGED <<docs, items, lastStart>>
  <2>1. RowsTyped'
    BY <1>1 DEF RowsTyped, NoRun, RunRow
  <2>2. \A i \in RunIds : runs'[i] = NoRun \/ runs'[i] = runs[i]
    BY <1>1 DEF RowsTyped
  <2> QED
    BY <1>1, <2>1, <2>2, RowsFrame
<1>2. CASE /\ runs' = [runs EXCEPT ![n].stamp = "open", ![n].item = None]
           /\ items' = [items EXCEPT ![runs[n].item] =
                              [@ EXCEPT !.doc = runs[n].doc, !.run = n]]
           /\ lastStart' = [lastStart EXCEPT ![runs[n].doc] = n]
           /\ UNCHANGED docs
  <2>0. PICK k, d : k = runs[n].item /\ d = runs[n].doc
    OBVIOUS
  <2>1. /\ Upserted(n) /\ d \in docs /\ d \in Documents /\ d # None /\ n # None
        /\ k \in ItemIds /\ items[k].doc \in {None, d}
        /\ \A m \in ItemIds : (items[m].doc = d) => m = k
        /\ \A j \in RunIds \ {n} :
             Upserted(j) => (runs[j].item # k /\ runs[j].doc # d)
    BY <2>0, BoardAssumption DEF CommitRun, RowsInv, UpsertInv, Upserted, RowsTyped
  <2>2. \A m \in ItemIds :
          items'[m] = IF m = k THEN [items[k] EXCEPT !.doc = d, !.run = n] ELSE items[m]
    BY <1>2, <2>0, <2>1 DEF RowsTyped
  <2>3. /\ items'[k].doc = d /\ items'[k].run = n
        /\ items'[k].approvedBy = items[k].approvedBy
        /\ \A m \in ItemIds \ {k} : items'[m] = items[m]
    BY <2>1, <2>2 DEF RowsTyped, ItemRow
  <2>4. \A j \in RunIds :
          runs'[j] = IF j = n THEN [runs[n] EXCEPT !.stamp = "open", !.item = None]
                              ELSE runs[j]
    BY <1>2 DEF RowsTyped
  <2>5. /\ runs'[n].stamp = "open" /\ runs'[n].item = None /\ runs'[n].doc = d
        /\ \A j \in RunIds \ {n} : runs'[j] = runs[j]
    BY <2>0, <2>4 DEF RowsTyped, RunRow
  <2>6. RowsTyped'
    <3>1. [items[k] EXCEPT !.doc = d, !.run = n] \in ItemRow
      BY <2>1 DEF RowsTyped, ItemRow
    <3>2. [runs[n] EXCEPT !.stamp = "open", !.item = None] \in RunRow
      BY DEF RowsTyped, RunRow
    <3>3. items' \in [ItemIds -> ItemRow]
      BY <1>2, <2>2, <3>1 DEF RowsTyped
    <3>4. runs' \in [RunIds -> RunRow]
      BY <1>2, <2>4, <3>2 DEF RowsTyped
    <3>5. lastStart' \in [Documents -> RunIds \cup {None}] /\ docs' \subseteq Documents
      BY <1>2 DEF RowsTyped
    <3> QED
      BY <3>3, <3>4, <3>5 DEF RowsTyped
  <2>7. ItemsInv'
    <3>1. \A e \in docs' \ Legacy : \E m \in ItemIds : items'[m].doc = e
      <4> TAKE e \in docs' \ Legacy
      <4>1. PICK m \in ItemIds : items[m].doc = e
        BY <1>2 DEF RowsInv, ItemsInv
      <4>2. CASE m = k
        <5>1. e = d
          BY <1>2, <2>1, <4>1, <4>2, BoardAssumption DEF RowsTyped
        <5> QED
          BY <2>1, <2>3, <5>1
      <4>3. CASE m # k
        BY <2>3, <4>1, <4>3
      <4> QED
        BY <4>2, <4>3
    <3>2. \A m \in ItemIds : (items'[m].doc # None) => items'[m].doc \in docs'
      <4>1. docs' = docs
        BY <1>2
      <4> QED
        BY <2>1, <2>3, <4>1 DEF RowsInv, ItemsInv
    <3>3. \A m \in ItemIds : (items'[m].doc = None) => items'[m].approvedBy = None
      BY <2>1, <2>3 DEF RowsInv, ItemsInv
    <3> QED
      BY <1>2, <3>1, <3>2, <3>3 DEF RowsInv, ItemsInv
  <2>8. OneCardPerDocument'
    BY <2>1, <2>3 DEF RowsInv, OneCardPerDocument
  <2>9. LastStartInv'
    <3> SUFFICES ASSUME NEW e \in Documents, lastStart'[e] # None
                 PROVE  \E m \in ItemIds : items'[m].doc = e /\ items'[m].run = lastStart'[e]
      BY DEF LastStartInv
    <3>1. CASE e = d
      BY <1>2, <2>0, <2>1, <2>3, <3>1 DEF RowsTyped
    <3>2. CASE e # d
      <4>1. lastStart'[e] = lastStart[e]
        BY <1>2, <2>0, <3>2 DEF RowsTyped
      <4>2. PICK m \in ItemIds : items[m].doc = e /\ items[m].run = lastStart[e]
        BY <4>1 DEF RowsInv, LastStartInv
      <4>3. m # k
        BY <2>1, <3>2, <4>2, BoardAssumption
      <4> QED
        BY <2>3, <4>1, <4>2, <4>3
    <3> QED
      BY <3>1, <3>2
  <2>10. ASSUME NEW i \in RunIds
         PROVE  UpsertInv(i)'
    <3>1. UpsertInv(i)
      BY DEF RowsInv
    <3>2. CASE i = n
      BY <1>2, <2>1, <2>5, <3>2 DEF UpsertInv, Upserted
    <3>3. CASE i # n
      <4>1. runs'[i] = runs[i] /\ docs' = docs
        BY <1>2, <2>5, <3>3
      <4>2. ASSUME Upserted(i)
            PROVE  /\ runs[i].item \in ItemIds /\ runs[i].item # k /\ runs[i].doc # d
                   /\ items'[runs[i].item].doc \in {None, runs[i].doc}
                   /\ \A m \in ItemIds : (items'[m].doc = runs[i].doc) => m = runs[i].item
        BY <2>1, <2>3, <3>1, <3>3, <4>2 DEF UpsertInv
      <4>3. \A j \in RunIds \ {i} : Upserted(j)' => (Upserted(j) /\ runs'[j] = runs[j])
        BY <2>5 DEF Upserted
      <4> QED
        BY <3>1, <4>1, <4>2, <4>3 DEF UpsertInv, Upserted
    <3> QED
      BY <3>2, <3>3
  <2> QED
    BY <2>6, <2>7, <2>8, <2>9, <2>10 DEF RowsInv
<1> QED
  BY <1>1, <1>2 DEF CommitRun

(* The processor after the start writes findings and stamps only.          *)
LEMMA WorkRows ==
  ASSUME RowsTyped, RowsInv, NEW n \in RunIds,
         \/ PersistFinding(n)
         \/ \E s \in {"completed", "failed"} : StampRow(n, s)
  PROVE  RowsTyped' /\ RowsInv'
<1>1. PICK row \in RunRow :
        /\ runs' = [runs EXCEPT ![n] = row]
        /\ row.doc = runs[n].doc /\ row.item = runs[n].item
        /\ row.stamp \in {"open", "completed", "failed"}
        /\ runs[n].stamp \in {"open", "completed"}
  <2>1. CASE PersistFinding(n)
    <3>1. PICK s \in Severities : runs' = [runs EXCEPT ![n].findings = @ \cup {s}]
      BY <2>1 DEF PersistFinding
    <3>2. runs[n].stamp = "open"
      BY <2>1 DEF PersistFinding
    <3> DEFINE row == [runs[n] EXCEPT !.findings = @ \cup {s}]
    <3>3. /\ row \in RunRow /\ row.doc = runs[n].doc /\ row.item = runs[n].item
          /\ row.stamp = "open"
      BY <3>2 DEF RowsTyped, RunRow
    <3>4. runs' = [runs EXCEPT ![n] = row]
      BY <3>1
    <3> QED
      BY <3>2, <3>3, <3>4
  <2>2. ASSUME NEW s \in {"completed", "failed"}, StampRow(n, s)
        PROVE  \E row \in RunRow :
                 /\ runs' = [runs EXCEPT ![n] = row]
                 /\ row.doc = runs[n].doc /\ row.item = runs[n].item
                 /\ row.stamp \in {"open", "completed", "failed"}
                 /\ runs[n].stamp \in {"open", "completed"}
    <3> DEFINE row == [runs[n] EXCEPT !.stamp = s]
    <3>1. /\ row \in RunRow /\ row.doc = runs[n].doc /\ row.item = runs[n].item
          /\ row.stamp = s
      BY DEF RowsTyped, RunRow
    <3>2. runs' = [runs EXCEPT ![n] = row] /\ runs[n].stamp \in {"open", "completed"}
      BY <2>2 DEF StampRow
    <3> QED
      BY <3>1, <3>2
  <2> QED
    BY <2>1, <2>2
<1>2. UNCHANGED <<docs, items, lastStart>>
  BY DEF PersistFinding, StampRow
<1>3. RowsTyped'
  BY <1>1, <1>2 DEF RowsTyped
<1>4. \A i \in RunIds : runs'[i] = IF i = n THEN row ELSE runs[i]
  BY <1>1 DEF RowsTyped
<1> QED
  BY <1>1, <1>2, <1>3, <1>4, RowsFrame DEF Upserted

(* A restart rolls back what has not been committed.                       *)
LEMMA RestartRows ==
  ASSUME RowsTyped, RowsInv, Restart
  PROVE  RowsTyped' /\ RowsInv'
<1>1. UNCHANGED <<docs, items, lastStart>>
  BY DEF Restart
<1>2. \A i \in RunIds : runs'[i] = NoRun \/ runs'[i] = runs[i]
  BY DEF Restart
<1>3. RowsTyped'
  BY <1>1 DEF Restart, RowsTyped, NoRun, RunRow
<1> QED
  BY <1>1, <1>2, <1>3, RowsFrame

(* A decision about a card changes neither its document nor its run.       *)
LEMMA UpdateRows ==
  ASSUME RowsTyped, RowsInv, NEW q \in Reviewers, NEW new, UpdateItem(q, new),
         \A k \in ItemIds :
           new[k] \in ItemRow /\ new[k].doc = items[k].doc /\ new[k].run = items[k].run
  PROVE  /\ RowsTyped' /\ RowsInv'
         /\ \A k \in ItemIds :
              items'[k] = IF k = decision[q].card /\ items[k].doc # None
                          THEN new[k] ELSE items[k]
<1>1. \A k \in ItemIds :
        items'[k] = IF k = decision[q].card /\ items[k].doc # None
                    THEN new[k] ELSE items[k]
  BY DEF UpdateItem
<1>2. UNCHANGED <<docs, runs, lastStart>>
  BY DEF UpdateItem
<1>3. RowsTyped'
  <2>1. items' \in [ItemIds -> ItemRow]
    BY DEF UpdateItem, RowsTyped
  <2> QED
    BY <1>2, <2>1 DEF RowsTyped
<1> QED
  BY <1>1, <1>2, <1>3, RowsFrame

(* An approval names the reviewer on the card, and on no other.            *)
LEMMA ApproveRows ==
  ASSUME RowsTyped, RowsInv, NEW q \in Reviewers, ApproveReviewBoardCard(q)
  PROVE  /\ RowsTyped' /\ RowsInv'
         /\ \A k \in ItemIds :
              /\ items'[k].doc = items[k].doc
              /\ items'[k].approvedBy = IF k = decision[q].card /\ items[k].doc # None
                                        THEN q ELSE items[k].approvedBy
<1> DEFINE new == [k \in ItemIds |-> [items[k] EXCEPT !.approvedBy = q]]
<1>1. UpdateItem(q, new)
  BY DEF ApproveReviewBoardCard
<1>2. \A k \in ItemIds :
        /\ new[k] \in ItemRow /\ new[k].doc = items[k].doc /\ new[k].run = items[k].run
        /\ new[k].approvedBy = q
  BY DEF RowsTyped, ItemRow
<1> HIDE DEF new
<1> QED
  BY <1>1, <1>2, UpdateRows

(* A priority leaves the approval.                                         *)
LEMMA PriorityRows ==
  ASSUME RowsTyped, RowsInv, NEW q \in Reviewers, UpdateReviewBoardPriority(q)
  PROVE  /\ RowsTyped' /\ RowsInv'
         /\ \A k \in ItemIds : /\ items'[k].doc = items[k].doc
                                /\ items'[k].approvedBy = items[k].approvedBy
<1>1. PICK p \in Priorities :
        UpdateItem(q, [k \in ItemIds |-> [items[k] EXCEPT !.priority = p]])
  BY DEF UpdateReviewBoardPriority
<1> DEFINE new == [k \in ItemIds |-> [items[k] EXCEPT !.priority = p]]
<1>2. UpdateItem(q, new)
  BY <1>1
<1>3. \A k \in ItemIds :
        /\ new[k] \in ItemRow /\ new[k].doc = items[k].doc /\ new[k].run = items[k].run
        /\ new[k].approvedBy = items[k].approvedBy
  BY DEF RowsTyped, ItemRow
<1> HIDE DEF new
<1> QED
  BY <1>2, <1>3, UpdateRows

-----------------------------------------------------------------------------
(* The types of the rest.                                                  *)

(* What a card may show.                                                   *)
LEMMA CardTyped ==
  ASSUME RowsTyped, RowsInv, NEW d \in Documents
  PROVE  /\ Card(d).id \in Documents \cup ItemIds
         /\ Card(d).board_state \in {"approved", "reviewed", "in_review", "pending"}
<1>1. CardId(d) \in Documents \cup ItemIds
  <2>1. CASE ItemsOf(d) = {}
    BY <2>1 DEF CardId
  <2>2. CASE ItemsOf(d) # {}
    <3>1. PICK k \in ItemIds : items[k].doc = d
      BY <2>2 DEF ItemsOf
    <3>2. items[k].doc # None
      BY <3>1, BoardAssumption
    <3> QED
      BY <3>1, <3>2, CardOfItem DEF RowsInv
  <2> QED
    BY <2>1, <2>2
<1> QED
  BY <1>1 DEF Card, ProjectBoardState

(* Requests and the memory keep their types.                               *)
LEMMA RestStep ==
  ASSUME RowsTyped, RowsInv, RestTyped, [Next]_vars
  PROVE  RestTyped'
<1>1. CASE UNCHANGED <<memoryVars, decision, reading, restarts>>
  BY <1>1 DEF RestTyped, memoryVars
<1>2. ASSUME NEW i \in RunIds, NEW d \in Documents, InsertRow(i, d)
      PROVE  RestTyped'
  BY <1>2 DEF InsertRow, RestTyped
<1>3. ASSUME NEW i \in RunIds, CommitRun(i)
      PROVE  RestTyped'
  BY <1>3 DEF CommitRun, RestTyped
<1>4. ASSUME NEW i \in RunIds, NEW s \in {"completed", "failed"}, EndRun(i, s)
      PROVE  RestTyped'
  BY <1>4 DEF EndRun, RestTyped
<1>5. ASSUME NEW q \in Reviewers, NEW d \in Documents, PickCard(q, d)
      PROVE  RestTyped'
  BY <1>5, CardTyped DEF PickCard, RestTyped, DecisionRow, NoDecision, memoryVars
<1>6. ASSUME NEW q \in Reviewers, ApproveReviewBoardCard(q)
      PROVE  RestTyped'
  BY <1>6 DEF ApproveReviewBoardCard, UpdateItem, RestTyped, DecisionRow, memoryVars
<1>7. ASSUME NEW q \in Reviewers, UpdateReviewBoardPriority(q)
      PROVE  RestTyped'
  BY <1>7 DEF UpdateReviewBoardPriority, UpdateItem, RestTyped, DecisionRow, NoDecision, memoryVars
<1>8. ASSUME NEW q \in Reviewers, ReadBack(q)
      PROVE  RestTyped'
  <2>1. PICK a :
          /\ decision' = [decision EXCEPT ![q] =
                [@ EXCEPT !.pc = "approved", !.card = None, !.answer = a]]
          /\ \/ a \in {"not_found", "refused"}
             \/ \E k \in ItemIds : items[k].doc # None /\ a = Card(items[k].doc).board_state
    BY <1>8 DEF ReadBack
  <2>2. a \in {"not_found", "refused", "pending", "in_review", "reviewed", "approved"}
    BY <2>1, CardTyped DEF RowsTyped, ItemRow
  <2>3. UNCHANGED <<memoryVars, reading, restarts>>
    BY <1>8 DEF ReadBack
  <2> DEFINE new == [decision[q] EXCEPT !.pc = "approved", !.card = None, !.answer = a]
  <2>4. new \in DecisionRow
    <3>1. decision[q] \in DecisionRow
      BY DEF RestTyped
    <3> QED
      BY <2>2, <3>1 DEF DecisionRow
  <2>5. decision' = [decision EXCEPT ![q] = new]
    BY <2>1
  <2> HIDE DEF new
  <2> QED
    BY <2>3, <2>4, <2>5 DEF RestTyped, memoryVars
<1>9. ASSUME NEW r \in Readers, ReadStatus(r) \/ ReadSummary(r) \/ ReadFindings(r)
      PROVE  RestTyped'
  <2>1. NoReading \in ReadingRow /\ [NoReading EXCEPT !.pc = "done"] \in ReadingRow
    BY DEF NoReading, ReadingRow
  <2>2. \A i : ListFindings(i) \subseteq Severities
    BY DEF ListFindings, RestTyped, RowsTyped, RunRow
  <2>3. PICK new \in ReadingRow : Given(r, new)
    <3>1. CASE ReadStatus(r)
      BY <2>1, <3>1 DEF ReadStatus, RestTyped, ReadingRow, NoReading
    <3>2. CASE ReadSummary(r)
      <4>1. PICK found : /\ Given(r, [reading[r] EXCEPT !.pc = "findings", !.summary = found])
                         /\ found = {} \/ found = ListFindings(reading[r].run)
        BY <3>2 DEF ReadSummary
      <4>2. found \subseteq Severities
        BY <2>2, <4>1
      <4>3. [reading[r] EXCEPT !.pc = "findings", !.summary = found] \in ReadingRow
        BY <4>2 DEF RestTyped, ReadingRow
      <4> QED
        BY <4>1, <4>3
    <3>3. CASE ReadFindings(r)
      BY <2>1, <2>2, <3>3 DEF ReadFindings, RestTyped, ReadingRow
    <3> QED
      BY <1>9, <3>1, <3>2, <3>3
  <2>4. UNCHANGED <<memoryVars, decision, restarts>>
    BY <2>3 DEF Given
  <2>5. reading' \in [Readers -> ReadingRow]
    BY <2>1, <2>3 DEF Given, RestTyped
  <2> QED
    BY <2>4, <2>5 DEF RestTyped, memoryVars
<1>10. CASE Restart
  <2>1. lifecycle' \in [RunIds -> {"none", "active", "completed", "failed"}]
    BY <1>10 DEF Restart
  <2>4. rowKnown' \subseteq RunIds /\ restarts' \in 0..MaxRestarts
    <3>1. /\ rowKnown' = {} /\ restarts' = restarts + 1 /\ restarts < MaxRestarts
          /\ restarts \in 0..MaxRestarts
      BY <1>10 DEF Restart, RestTyped
    <3> QED
      BY <3>1, BoardAssumption
  <2>2. decision' \in [Reviewers -> DecisionRow]
    <3> DEFINE new(q) == IF decision[q].pc = "approving"
                         THEN [decision[q] EXCEPT !.pc = "over", !.card = None]
                         ELSE decision[q]
    <3>1. \A q \in Reviewers : new(q) \in DecisionRow
      <4> TAKE q \in Reviewers
      <4>1. decision[q] \in DecisionRow
        BY DEF RestTyped
      <4>2. [decision[q] EXCEPT !.pc = "over", !.card = None] \in DecisionRow
        BY <4>1 DEF DecisionRow
      <4> QED
        BY <4>1, <4>2
    <3>2. decision' = [q \in Reviewers |-> new(q)]
      BY <1>10 DEF Restart
    <3> HIDE DEF new
    <3>3. decision' \in [Reviewers -> DecisionRow]
      BY <3>1, <3>2
    <3> QED
      BY <3>3
  <2>3. reading' \in [Readers -> ReadingRow]
    BY <1>10 DEF Restart, RestTyped, ReadingRow, NoReading
  <2> QED
    BY <2>1, <2>2, <2>3, <2>4 DEF RestTyped
<1> QED
  BY <1>1, <1>2, <1>3, <1>4, <1>5, <1>6, <1>7, <1>8, <1>9, <1>10
  DEF Next, vars, Upload, UpsertItem, PersistFinding, StampRow

(* Every step keeps the rows in order.                                     *)
LEMMA RowsStep ==
  ASSUME RowsTyped, RowsInv, [Next]_vars
  PROVE  RowsTyped' /\ RowsInv'
<1>1. CASE UNCHANGED <<docs, items, runs, lastStart>>
  BY <1>1, RowsFrame DEF RowsTyped
<1>2. ASSUME NEW r \in Readers, ReadStatus(r) \/ ReadSummary(r) \/ ReadFindings(r)
      PROVE  UNCHANGED <<docs, items, runs, lastStart>>
  BY <1>2 DEF ReadStatus, ReadSummary, ReadFindings, Given, dbVars
<1>3. ASSUME NEW q \in Reviewers, ReadBack(q) \/ \E d \in Documents : PickCard(q, d)
      PROVE  UNCHANGED <<docs, items, runs, lastStart>>
  BY <1>3 DEF ReadBack, PickCard, dbVars
<1>4. ASSUME NEW i \in RunIds, NEW s \in {"completed", "failed"}, EndRun(i, s)
      PROVE  UNCHANGED <<docs, items, runs, lastStart>>
  BY <1>4 DEF EndRun, dbVars
<1>5. CASE UNCHANGED vars
  BY <1>1, <1>5 DEF vars, dbVars
<1> QED
  BY <1>1, <1>2, <1>3, <1>4, <1>5, UploadRows, InsertRows, UpsertRows, CommitRows,
     WorkRows, ApproveRows, PriorityRows, RestartRows
  DEF Next

(* The rows agree with each other in every reachable state.                *)
THEOREM BoardInvariant == Spec => []BoardInv
<1>1. Init => BoardInv
  BY InitRows DEF BoardInv
<1>2. BoardInv /\ [Next]_vars => BoardInv'
  BY RowsStep, RestStep DEF BoardInv
<1> QED
  BY <1>1, <1>2, PTL DEF Spec

(* Every variable has its type.                                            *)
THEOREM TypeCorrect == Spec => []TypeOK
<1>1. BoardInv => TypeOK
  BY Typed DEF BoardInv
<1> QED
  BY <1>1, BoardInvariant, PTL

(* Concurrent first starts of a document create one item.                  *)
THEOREM OneCard == Spec => []OneCardPerDocument
<1>1. BoardInv => OneCardPerDocument
  BY DEF BoardInv, RowsInv
<1> QED
  BY <1>1, BoardInvariant, PTL

(* The card of a document shows the run whose start was committed last.    *)
THEOREM LastStart == Spec => []CardShowsLastStart
<1>1. BoardInv => CardShowsLastStart
  <2> SUFFICES ASSUME BoardInv, NEW d \in Documents, lastStart[d] # None
               PROVE  Card(d).run = lastStart[d]
    BY DEF CardShowsLastStart
  <2>1. PICK k \in ItemIds : items[k].doc = d /\ items[k].run = lastStart[d]
    BY DEF BoardInv, RowsInv, LastStartInv
  <2>2. CurrentRun(d) = lastStart[d]
    BY <2>1, CardOfItem, BoardAssumption DEF BoardInv, RowsInv
  <2> QED
    BY <2>2 DEF Card
<1> QED
  BY <1>1, BoardInvariant, PTL

-----------------------------------------------------------------------------
(* The decisions.                                                          *)

(* What a reviewer decides about: a card that is named by an item is the   *)
(* item of the document shown, any other card is the id of that document,  *)
(* whatever item may have it.                                              *)
DecisionInv(q) ==
  /\ (decision[q].pc \in {"picked", "approving"}) =>
       /\ decision[q].doc \in docs
       /\ ~decision[q].named => decision[q].card = decision[q].doc
  /\ (decision[q].pc \in {"picked", "approving"} /\ decision[q].named) =>
       /\ decision[q].card \in ItemIds
       /\ items[decision[q].card].doc = decision[q].doc
  /\ (decision[q].pc = "approving" /\ decision[q].named) =>
       items[decision[q].card].approvedBy # None
  /\ \A k \in ItemIds :
       (items[k].approvedBy = q) =>
         /\ decision[q].pc \in {"approving", "approved", "over"}
         /\ decision[q].doc = items[k].doc \/ (~decision[q].named /\ decision[q].doc = k)
  /\ (decision[q].pc = "approved" /\ decision[q].named /\ decision[q].answer # "refused") =>
       /\ decision[q].answer = "approved"
       /\ \E k \in ItemIds : items[k].doc = decision[q].doc /\ items[k].approvedBy # None

DecisionsInv == \A q \in Reviewers : DecisionInv(q)

(* Whoever does not approve leaves the documents and the approvals of the  *)
(* items as they are.                                                      *)
Kept ==
  /\ docs \subseteq docs'
  /\ \A k \in ItemIds :
       /\ items[k].doc # None => items'[k].doc = items[k].doc
       /\ items'[k].approvedBy = items[k].approvedBy

LEMMA ItemsKept ==
  ASSUME BoardInv, [Next]_vars, \A q \in Reviewers : ~ApproveReviewBoardCard(q)
  PROVE  Kept
<1> USE DEF BoardInv
<1>1. CASE UNCHANGED <<docs, items>>
  BY <1>1 DEF Kept
<1>2. ASSUME NEW d \in Documents, Upload(d)
      PROVE  Kept
  <2>1. PICK k \in FreeItems : items' = [items EXCEPT ![k] = [NoItem EXCEPT !.doc = d]]
    BY <1>2 DEF Upload
  <2>2. k \in ItemIds /\ items[k].doc = None /\ items[k].approvedBy = None
    BY <2>1 DEF FreeItems, RowsInv, ItemsInv
  <2>3. docs \subseteq docs'
    BY <1>2 DEF Upload
  <2> QED
    BY <2>1, <2>2, <2>3 DEF Kept, RowsTyped, NoItem
<1>3. ASSUME NEW i \in RunIds, CommitRun(i)
      PROVE  Kept
  <2>1. CASE UNCHANGED items
    BY <1>3, <2>1 DEF Kept, CommitRun
  <2>2. CASE items' = [items EXCEPT ![runs[i].item] =
                              [@ EXCEPT !.doc = runs[i].doc, !.run = i]]
    <3>1. /\ runs[i].item \in ItemIds
          /\ items[runs[i].item].doc \in {None, runs[i].doc}
      BY <1>3 DEF CommitRun, RowsInv, UpsertInv, Upserted
    <3> QED
      BY <1>3, <2>2, <3>1 DEF Kept, RowsTyped, ItemRow, CommitRun
  <2> QED
    BY <1>3, <2>1, <2>2 DEF CommitRun
<1>4. ASSUME NEW q \in Reviewers, UpdateReviewBoardPriority(q)
      PROVE  Kept
  <2>1. docs' = docs
    BY <1>4 DEF UpdateReviewBoardPriority, UpdateItem
  <2> QED
    BY <1>4, <2>1, PriorityRows DEF Kept
<1> QED
  BY <1>1, <1>2, <1>3, <1>4
  DEF Next, vars, dbVars, InsertRow, UpsertItem, PersistFinding, StampRow, EndRun,
      PickCard, ReadBack, ReadStatus, ReadSummary, ReadFindings, Given, Restart

(* A request at rest is not disturbed by writes that keep documents and    *)
(* approvals.                                                              *)
LEMMA DecisionFrame ==
  ASSUME BoardInv, NEW q \in Reviewers, DecisionInv(q), decision'[q] = decision[q],
         docs \subseteq docs',
         \A k \in ItemIds :
           /\ items[k].doc # None => items'[k].doc = items[k].doc
           /\ items[k].approvedBy # None => items'[k].approvedBy # None
           /\ items'[k].approvedBy = q => items[k].approvedBy = q
  PROVE  DecisionInv(q)'
<1>1. None \notin docs /\ q # None
  BY BoardAssumption DEF BoardInv, RowsTyped
<1>2. \A k \in ItemIds : items[k].approvedBy # None => items[k].doc # None
  BY DEF BoardInv, RowsInv, ItemsInv
<1> QED
  BY <1>1, <1>2 DEF DecisionInv

(* The card a reviewer is shown is the item of the document, or, without   *)
(* one, the document itself.                                               *)
LEMMA PickDecision ==
  ASSUME BoardInv, NEW q \in Reviewers, DecisionInv(q), NEW d \in Documents, PickCard(q, d)
  PROVE  DecisionInv(q)'
<1>1. /\ decision'[q].pc = "picked" /\ decision'[q].doc = d
      /\ decision'[q].card = CardId(d) /\ decision'[q].named = (ItemsOf(d) # {})
      /\ d \in docs /\ UNCHANGED <<docs, items>> /\ decision[q].pc = "idle"
  BY DEF PickCard, BoardInv, RestTyped, NoDecision, dbVars, Card
<1>2. CASE ItemsOf(d) = {}
  <2>1. CardId(d) = d
    BY <1>2 DEF CardId
  <2> QED
    BY <1>1, <1>2, <2>1 DEF DecisionInv
<1>3. CASE ItemsOf(d) # {}
  <2>1. PICK k \in ItemIds : items[k].doc = d
    BY <1>3 DEF ItemsOf
  <2>2. items[k].doc # None
    BY <2>1, BoardAssumption
  <2>3. CardId(d) \in ItemIds /\ items[CardId(d)].doc = d
    BY <2>1, <2>2, CardOfItem DEF BoardInv, RowsInv
  <2> QED
    BY <1>1, <1>3, <2>3 DEF DecisionInv
<1> QED
  BY <1>2, <1>3

(* An approval disturbs no other, also when it replaces it.                *)
LEMMA ApproveDecisions ==
  ASSUME BoardInv, DecisionsInv, NEW p \in Reviewers, ApproveReviewBoardCard(p)
  PROVE  DecisionsInv'
<1>1. /\ decision[p].pc = "picked"
      /\ decision' = [decision EXCEPT ![p].pc = "approving"]
      /\ docs' = docs
  BY DEF ApproveReviewBoardCard, UpdateItem
<1>2. \A k \in ItemIds :
        /\ items'[k].doc = items[k].doc
        /\ items'[k].approvedBy = IF k = decision[p].card /\ items[k].doc # None
                                  THEN p ELSE items[k].approvedBy
  BY ApproveRows DEF BoardInv
<1>3. p # None
  BY BoardAssumption
<1>4. DecisionInv(p)'
  <2>1. /\ decision'[p].pc = "approving" /\ decision'[p].doc = decision[p].doc
        /\ decision'[p].card = decision[p].card /\ decision'[p].named = decision[p].named
    BY <1>1 DEF BoardInv, RestTyped, DecisionRow
  <2>2. DecisionInv(p) /\ None \notin docs
    BY BoardAssumption DEF DecisionsInv, BoardInv, RowsTyped
  <2> QED
    BY <1>1, <1>2, <1>3, <2>1, <2>2 DEF DecisionInv
<1>5. ASSUME NEW q \in Reviewers \ {p}
      PROVE  DecisionInv(q)'
  <2>1. decision'[q] = decision[q] /\ DecisionInv(q)
    BY <1>1 DEF BoardInv, RestTyped, DecisionsInv
  <2> QED
    BY <1>1, <1>2, <1>3, <2>1, DecisionFrame
<1> QED
  BY <1>4, <1>5 DEF DecisionsInv

(* Whoever sets a priority has approved nothing.                           *)
LEMMA PriorityDecision ==
  ASSUME BoardInv, NEW q \in Reviewers, DecisionInv(q), Kept, UpdateReviewBoardPriority(q)
  PROVE  DecisionInv(q)'
<1>1. decision[q].pc = "picked" /\ decision'[q].pc = "over"
  BY DEF UpdateReviewBoardPriority, UpdateItem, BoardInv, RestTyped, NoDecision
<1> QED
  BY <1>1 DEF DecisionInv, Kept

(* The card that is read back is found and approved if it is named by an   *)
(* item, because no step since has taken the item or an approval away.     *)
LEMMA ReadBackDecision ==
  ASSUME BoardInv, NEW q \in Reviewers, DecisionInv(q), ReadBack(q)
  PROVE  DecisionInv(q)'
<1> DEFINE k == decision[q].card
<1>1. decision[q].pc = "approving" /\ UNCHANGED <<docs, items>>
  BY DEF ReadBack, dbVars
<1>2. PICK a :
        /\ decision' = [decision EXCEPT ![q] =
             [@ EXCEPT !.pc = "approved", !.card = None, !.answer = a]]
        /\ \/ a = "refused"
           \/ ~(k \in ItemIds /\ items[k].doc # None)
           \/ a = Card(items[k].doc).board_state
  BY DEF ReadBack
<1>3. /\ decision'[q].pc = "approved" /\ decision'[q].answer = a
      /\ decision'[q].doc = decision[q].doc /\ decision'[q].named = decision[q].named
  BY <1>2 DEF BoardInv, RestTyped, DecisionRow
<1>4. ASSUME decision[q].named, a # "refused"
      PROVE  a = "approved" /\ items[k].doc = decision[q].doc
             /\ items[k].approvedBy # None /\ k \in ItemIds
  <2>1. /\ k \in ItemIds /\ items[k].doc = decision[q].doc
        /\ items[k].approvedBy # None /\ decision[q].doc \in docs
    BY <1>1, <1>4 DEF DecisionInv
  <2>2. items[k].doc # None
    BY <2>1, BoardAssumption DEF BoardInv, RowsTyped
  <2>3. a = Card(items[k].doc).board_state
    BY <1>2, <1>4, <2>1, <2>2
  <2>4. Approved(items[k].doc)
    BY <2>1, <2>2 DEF Approved, ItemsOf
  <2> QED
    BY <2>1, <2>3, <2>4 DEF Card, ProjectBoardState
<1> QED
  BY <1>1, <1>3, <1>4 DEF DecisionInv

(* A restart ends the request, the approval stays.                         *)
LEMMA RestartDecision ==
  ASSUME BoardInv, NEW q \in Reviewers, DecisionInv(q), Restart
  PROVE  DecisionInv(q)'
<1>1. UNCHANGED <<docs, items>>
  BY DEF Restart
<1>2. CASE decision[q].pc = "approving"
  <2>1. /\ decision'[q].pc = "over" /\ decision'[q].doc = decision[q].doc
        /\ decision'[q].named = decision[q].named
    BY <1>2 DEF Restart, BoardInv, RestTyped, DecisionRow
  <2> QED
    BY <1>1, <1>2, <2>1 DEF DecisionInv
<1>3. CASE decision[q].pc # "approving"
  <2>1. decision'[q] = decision[q]
    BY <1>3 DEF Restart
  <2> QED
    BY <1>1, <2>1, DecisionFrame
<1> QED
  BY <1>2, <1>3

(* Every step keeps the decisions in order.                                *)
LEMMA DecisionsStep ==
  ASSUME BoardInv, DecisionsInv, [Next]_vars
  PROVE  DecisionsInv'
<1>1. CASE \E p \in Reviewers : ApproveReviewBoardCard(p)
  BY <1>1, ApproveDecisions
<1>2. CASE \A p \in Reviewers : ~ApproveReviewBoardCard(p)
  <2>1. Kept
    BY <1>2, ItemsKept
  <2> SUFFICES ASSUME NEW q \in Reviewers
               PROVE  DecisionInv(q)'
    BY DEF DecisionsInv
  <2>2. DecisionInv(q)
    BY DEF DecisionsInv
  <2>3. CASE decision'[q] = decision[q]
    BY <2>1, <2>2, <2>3, DecisionFrame DEF Kept
  <2>4. CASE decision'[q] # decision[q]
    <3>1. \/ Restart \/ UpdateReviewBoardPriority(q) \/ ReadBack(q)
          \/ \E d \in Documents : PickCard(q, d)
      <4>1. ~UNCHANGED decision
        BY <2>4
      <4>2. \/ Restart
            \/ \E p \in Reviewers :
                 /\ UpdateReviewBoardPriority(p) \/ ReadBack(p)
                    \/ \E d \in Documents : PickCard(p, d)
        BY <1>2, <4>1
        DEF Next, vars, Upload, InsertRow, UpsertItem, CommitRun, PersistFinding,
            StampRow, EndRun, ReadStatus, ReadSummary, ReadFindings, Given
      <4>3. ASSUME NEW p \in Reviewers, p # q,
                   UpdateReviewBoardPriority(p) \/ ReadBack(p)
                    \/ \E d \in Documents : PickCard(p, d)
            PROVE  decision'[q] = decision[q]
        BY <4>3 DEF UpdateReviewBoardPriority, ReadBack, PickCard, BoardInv, RestTyped
      <4> QED
        BY <2>4, <4>2, <4>3
    <3> QED
      BY <2>1, <2>2, <3>1, RestartDecision, PriorityDecision, ReadBackDecision, PickDecision
  <2> QED
    BY <2>3, <2>4
<1> QED
  BY <1>1, <1>2

(* The decisions in every reachable state.                                 *)
LEMMA DecisionsInvariant == Spec => []DecisionsInv
<1>1. Init => DecisionsInv
  BY BoardAssumption DEF Init, DecisionsInv, DecisionInv, NoDecision, NoItem
<1>2. BoardInv /\ DecisionsInv /\ [Next]_vars => DecisionsInv'
  BY DecisionsStep
<1> QED
  BY <1>1, <1>2, BoardInvariant, PTL DEF Spec

(* A document is approved only by a reviewer who was shown that document,  *)
(* or who was shown an old one without an item, whose id the approved item *)
(* has.                                                                    *)
THEOREM Explicit == Spec => []ApprovalsAreExplicit
<1>1. BoardInv /\ DecisionsInv => ApprovalsAreExplicit
  <2> SUFFICES ASSUME BoardInv, DecisionsInv, NEW k \in ItemIds, NEW q,
                      q = items[k].approvedBy, q # None
               PROVE  \/ decision[q].doc = items[k].doc
                      \/ ~decision[q].named /\ decision[q].doc = k
    BY DEF ApprovalsAreExplicit
  <2>1. q \in Reviewers
    BY DEF BoardInv, RowsTyped, ItemRow
  <2> QED
    BY <2>1 DEF DecisionsInv, DecisionInv
<1> QED
  BY <1>1, BoardInvariant, DecisionsInvariant, PTL

(* An approval of a card named by an item is refused, or answered with the *)
(* approved card, and then it lasts.                                       *)
THEOREM Lasting == Spec => []ApprovalIsKept
<1>1. DecisionsInv => ApprovalIsKept
  BY DEF DecisionsInv, DecisionInv, ApprovalIsKept, Approved, ItemsOf
<1> QED
  BY <1>1, DecisionsInvariant, PTL

-----------------------------------------------------------------------------
(* The reports.                                                            *)

(* A completed run nobody works on any more stays as it is, but for the    *)
(* status a restart forgets.                                               *)
RunsKept ==
  \A i \in RunIds :
    (runs[i].stamp = "completed" /\ lifecycle[i] # "active") =>
      /\ runs'[i] = runs[i]
      /\ lifecycle'[i] = IF Restart THEN "none" ELSE lifecycle[i]

(* Only the processor at work writes a run.                                *)
LEMMA RunsStay ==
  ASSUME BoardInv, [Next]_vars
  PROVE  RunsKept
<1> USE DEF BoardInv
<1>1. CASE Restart
  BY <1>1 DEF Restart, RunsKept
<1> SUFFICES ASSUME ~Restart, NEW i \in RunIds,
                    runs[i].stamp = "completed", lifecycle[i] # "active"
             PROVE  runs'[i] = runs[i] /\ lifecycle'[i] = lifecycle[i]
  BY <1>1 DEF RunsKept
<1>2. CASE UNCHANGED <<runs, lifecycle>>
  BY <1>2
<1>3. ASSUME NEW j \in RunIds, NEW d \in Documents, InsertRow(j, d)
      PROVE  runs'[i] = runs[i] /\ lifecycle'[i] = lifecycle[i]
  <2>1. i # j
    BY <1>3 DEF InsertRow
  <2> QED
    BY <1>3, <2>1 DEF InsertRow, RowsTyped, RestTyped
<1>4. ASSUME NEW j \in RunIds, UpsertItem(j)
      PROVE  runs'[i] = runs[i] /\ lifecycle'[i] = lifecycle[i]
  <2>1. i # j
    BY <1>4 DEF UpsertItem
  <2> QED
    BY <1>4, <2>1 DEF UpsertItem, RowsTyped, memoryVars
<1>5. ASSUME NEW j \in RunIds, CommitRun(j)
      PROVE  runs'[i] = runs[i] /\ lifecycle'[i] = lifecycle[i]
  <2>1. i # j
    BY <1>5 DEF CommitRun
  <2> QED
    BY <1>5, <2>1 DEF CommitRun, RowsTyped, RestTyped
<1>6. ASSUME NEW j \in RunIds,
             PersistFinding(j) \/ \E s \in {"completed", "failed"} : StampRow(j, s)
      PROVE  runs'[i] = runs[i] /\ lifecycle'[i] = lifecycle[i]
  <2>1. i # j
    BY <1>6 DEF PersistFinding, StampRow, Working
  <2> QED
    BY <1>6, <2>1 DEF PersistFinding, StampRow, RowsTyped, memoryVars
<1>7. ASSUME NEW j \in RunIds, NEW s \in {"completed", "failed"}, EndRun(j, s)
      PROVE  runs'[i] = runs[i] /\ lifecycle'[i] = lifecycle[i]
  <2>1. i # j
    BY <1>7 DEF EndRun, Working
  <2> QED
    BY <1>7, <2>1 DEF EndRun, RestTyped, dbVars
<1>8. ASSUME NEW q \in Reviewers,
             \/ ApproveReviewBoardCard(q) \/ UpdateReviewBoardPriority(q) \/ ReadBack(q)
             \/ \E d \in Documents : PickCard(q, d)
      PROVE  UNCHANGED <<runs, lifecycle>>
  BY <1>8 DEF ApproveReviewBoardCard, UpdateReviewBoardPriority, UpdateItem, ReadBack,
              PickCard, dbVars, memoryVars
<1>9. ASSUME NEW r \in Readers, ReadStatus(r) \/ ReadSummary(r) \/ ReadFindings(r)
      PROVE  UNCHANGED <<runs, lifecycle>>
  BY <1>9 DEF ReadStatus, ReadSummary, ReadFindings, Given, dbVars, memoryVars
<1>10. ASSUME NEW d \in Documents, Upload(d)
       PROVE  UNCHANGED <<runs, lifecycle>>
  BY <1>10 DEF Upload, memoryVars
<1> QED
  BY <1>2, <1>3, <1>4, <1>5, <1>6, <1>7, <1>8, <1>9, <1>10
  DEF Next, vars, dbVars, memoryVars

(* What a reader has been given of a completed run, whose row nobody       *)
(* writes any more.                                                        *)
ReadingInv(r) ==
  /\ (reading[r].status = "completed") =>
       /\ reading[r].run \in RunIds
       /\ runs[reading[r].run].stamp = "completed"
       /\ lifecycle[reading[r].run] # "active"
  /\ (reading[r].pc \in {"summary", "findings"}) =>
       /\ reading[r].status = "completed"
       /\ lifecycle[reading[r].run] = "completed"
  /\ (reading[r].pc = "findings") =>
       reading[r].summary \in {{}, runs[reading[r].run].findings}
  /\ (reading[r].pc = "done" /\ reading[r].status = "completed") =>
       /\ reading[r].list = runs[reading[r].run].findings
       /\ reading[r].summary \in {{}, runs[reading[r].run].findings}

(* The lifecycle calls a run completed after its row was stamped so.       *)
CompletedInv ==
  \A i \in RunIds :
    (lifecycle[i] = "completed") => (i \in rowKnown /\ runs[i].stamp = "completed")

(* The run is stamped first, and only the processor at work writes it.     *)
LEMMA CompletedStep ==
  ASSUME BoardInv, CompletedInv, [Next]_vars
  PROVE  CompletedInv'
<1> USE DEF BoardInv
<1> SUFFICES ASSUME NEW i \in RunIds, lifecycle'[i] = "completed"
             PROVE  i \in rowKnown' /\ runs'[i].stamp = "completed"
  BY DEF CompletedInv
<1>1. ~Restart
  BY DEF Restart
<1>2. CASE lifecycle[i] = "completed"
  <2>1. i \in rowKnown /\ runs[i].stamp = "completed"
    BY <1>2 DEF CompletedInv
  <2>2. rowKnown \subseteq rowKnown'
    BY <1>1
    DEF Next, vars, dbVars, memoryVars, Upload, InsertRow, UpsertItem, CommitRun,
        PersistFinding, StampRow, EndRun, PickCard, ApproveReviewBoardCard,
        UpdateReviewBoardPriority, UpdateItem, ReadBack, ReadStatus, ReadSummary,
        ReadFindings, Given
  <2> QED
    BY <1>2, <2>1, <2>2, RunsStay DEF RunsKept
<1>3. CASE lifecycle[i] # "completed"
  <2>1. \E j \in RunIds : \/ \E d \in Documents : InsertRow(j, d)
                         \/ CommitRun(j)
                         \/ \E s \in {"completed", "failed"} : EndRun(j, s)
    BY <1>1, <1>3
    DEF Next, vars, memoryVars, Upload, UpsertItem, PersistFinding, StampRow, PickCard,
        ApproveReviewBoardCard, UpdateReviewBoardPriority, UpdateItem, ReadBack,
        ReadStatus, ReadSummary, ReadFindings, Given
  <2>2. PICK s \in {"completed", "failed"} : EndRun(i, s)
    BY <1>3, <2>1 DEF InsertRow, CommitRun, EndRun, RestTyped
  <2>3. s = "completed"
    BY <2>2 DEF EndRun, RestTyped
  <2> QED
    BY <2>2, <2>3 DEF EndRun, Working, dbVars
<1> QED
  BY <1>2, <1>3

(* Whatever a reader is given of a completed run is what its row holds.    *)
LEMMA ReadingStep ==
  ASSUME BoardInv, CompletedInv, NEW r \in Readers, ReadingInv(r),
         ReadStatus(r) \/ ReadSummary(r) \/ ReadFindings(r)
  PROVE  ReadingInv(r)'
<1>1. UNCHANGED <<runs, lifecycle>>
  BY DEF ReadStatus, ReadSummary, ReadFindings, Given, dbVars, memoryVars
<1>2. ASSUME NEW new, Given(r, new)
      PROVE  reading'[r] = IF new.status = "completed"
                           THEN new ELSE [NoReading EXCEPT !.pc = "done"]
  BY <1>2 DEF Given, BoardInv, RestTyped
<1>3. ASSUME reading'[r] = [NoReading EXCEPT !.pc = "done"]
      PROVE  ReadingInv(r)'
  BY <1>3 DEF ReadingInv, NoReading
<1>4. CASE ReadStatus(r)
  <2>1. PICK i \in RunIds :
          Given(r, [NoReading EXCEPT !.pc = "summary", !.run = i, !.status = lifecycle[i]])
    BY <1>4 DEF ReadStatus
  <2> DEFINE new == [NoReading EXCEPT !.pc = "summary", !.run = i, !.status = lifecycle[i]]
  <2>2. new.pc = "summary" /\ new.run = i /\ new.status = lifecycle[i]
    BY DEF NoReading
  <2>3. Given(r, new)
    BY <2>1
  <2> HIDE DEF new
  <2>4. CASE new.status = "completed"
    <3>1. reading'[r] = new
      BY <1>2, <2>3, <2>4
    <3> QED
      BY <1>1, <2>2, <2>4, <3>1 DEF ReadingInv, CompletedInv
  <2>5. CASE new.status # "completed"
    BY <1>2, <1>3, <2>3, <2>5
  <2> QED
    BY <2>4, <2>5
<1>5. CASE ReadSummary(r)
  <2>1. PICK i : i = reading[r].run
    OBVIOUS
  <2>2. /\ reading[r].status = "completed" /\ i \in RunIds /\ lifecycle[i] = "completed"
        /\ runs[i].stamp = "completed" /\ ListFindings(i) = runs[i].findings
    BY <1>5, <2>1 DEF ReadSummary, ReadingInv, CompletedInv, ListFindings
  <2>3. PICK found \in {{}, runs[i].findings} :
          Given(r, [reading[r] EXCEPT !.pc = "findings", !.summary = found])
    BY <1>5, <2>1, <2>2 DEF ReadSummary
  <2> DEFINE new == [reading[r] EXCEPT !.pc = "findings", !.summary = found]
  <2>4. /\ new.pc = "findings" /\ new.run = i /\ new.status = "completed"
        /\ new.summary = found
    BY <2>1, <2>2 DEF BoardInv, RestTyped, ReadingRow
  <2>5. Given(r, new)
    BY <2>3
  <2> HIDE DEF new
  <2>6. reading'[r] = new
    BY <1>2, <2>4, <2>5
  <2> QED
    BY <1>1, <2>2, <2>4, <2>6 DEF ReadingInv
<1>6. CASE ReadFindings(r)
  <2>1. PICK i : i = reading[r].run
    OBVIOUS
  <2>2. /\ reading[r].status = "completed" /\ i \in RunIds /\ lifecycle[i] = "completed"
        /\ runs[i].stamp = "completed" /\ ListFindings(i) = runs[i].findings
        /\ reading[r].summary \in {{}, runs[i].findings}
    BY <1>6, <2>1 DEF ReadFindings, ReadingInv, CompletedInv, ListFindings
  <2>3. CASE Given(r, NoReading)
    BY <1>2, <1>3, <2>3 DEF NoReading
  <2>4. CASE Given(r, [reading[r] EXCEPT !.pc = "done",
                                         !.list = ListFindings(reading[r].run)])
    <3> DEFINE new == [reading[r] EXCEPT !.pc = "done", !.list = ListFindings(reading[r].run)]
    <3>1. /\ new.pc = "done" /\ new.run = i /\ new.status = "completed"
          /\ new.list = runs[i].findings /\ new.summary = reading[r].summary
      BY <2>1, <2>2 DEF BoardInv, RestTyped, ReadingRow
    <3>2. Given(r, new)
      BY <2>4
    <3> HIDE DEF new
    <3>3. reading'[r] = new
      BY <1>2, <3>1, <3>2
    <3> QED
      BY <1>1, <2>2, <3>1, <3>3 DEF ReadingInv
  <2> QED
    BY <1>6, <2>3, <2>4 DEF ReadFindings
<1> QED
  BY <1>4, <1>5, <1>6

(* What the reports rest on.                                               *)
ReadingsInv ==
  /\ CompletedInv
  /\ \A r \in Readers : ReadingInv(r)

(* Every step keeps what the readers were given true.                      *)
LEMMA ReadingsStep ==
  ASSUME BoardInv, ReadingsInv, [Next]_vars
  PROVE  ReadingsInv'
<1>1. CompletedInv'
  BY CompletedStep DEF ReadingsInv
<1>2. ASSUME NEW r \in Readers
      PROVE  ReadingInv(r)'
  <2>1. ReadingInv(r) /\ RunsKept
    BY RunsStay DEF ReadingsInv
  <2>2. CASE Restart
    <3>1. CASE reading[r].pc \in {"summary", "findings"}
      <4>1. reading'[r] = [NoReading EXCEPT !.pc = "done"]
        BY <2>2, <3>1 DEF Restart
      <4> QED
        BY <4>1 DEF ReadingInv, NoReading
    <3>2. CASE reading[r].pc \notin {"summary", "findings"}
      <4>1. reading'[r] = reading[r]
        BY <2>2, <3>2 DEF Restart
      <4> QED
        BY <2>1, <2>2, <3>2, <4>1 DEF ReadingInv, RunsKept
    <3> QED
      BY <3>1, <3>2
  <2>3. CASE ReadStatus(r) \/ ReadSummary(r) \/ ReadFindings(r)
    BY <2>1, <2>3, ReadingStep DEF ReadingsInv
  <2>4. CASE ~Restart /\ reading'[r] = reading[r]
    <3>1. PICK i : i = reading[r].run
      OBVIOUS
    <3> QED
      BY <2>1, <2>4, <3>1 DEF ReadingInv, RunsKept
  <2>5. ASSUME NEW p \in Readers, p # r, ReadStatus(p) \/ ReadSummary(p) \/ ReadFindings(p)
        PROVE  reading'[r] = reading[r]
    BY <2>5 DEF ReadStatus, ReadSummary, ReadFindings, Given, BoardInv, RestTyped
  <2>6. CASE ~\E p \in Readers : ReadStatus(p) \/ ReadSummary(p) \/ ReadFindings(p)
    <3>1. Restart \/ UNCHANGED reading
      BY <2>6
      DEF Next, vars, Upload, InsertRow, UpsertItem, CommitRun, PersistFinding, StampRow,
          EndRun, PickCard, ApproveReviewBoardCard, UpdateReviewBoardPriority, UpdateItem,
          ReadBack
    <3> QED
      BY <2>2, <2>4, <3>1
  <2> QED
    BY <2>2, <2>3, <2>4, <2>5, <2>6
<1> QED
  BY <1>1, <1>2 DEF ReadingsInv

(* The reports in every reachable state.                                   *)
LEMMA ReadingsInvariant == Spec => []ReadingsInv
<1>1. Init => ReadingsInv
  BY DEF Init, ReadingsInv, CompletedInv, ReadingInv, NoReading
<1>2. BoardInv /\ ReadingsInv /\ [Next]_vars => ReadingsInv'
  BY ReadingsStep
<1> QED
  BY <1>1, <1>2, BoardInvariant, PTL DEF Spec

(* A report that calls its run completed is final.                         *)
THEOREM Reports == Spec => []ReportIsTrue
<1>1. ReadingsInv => ReportIsTrue
  BY DEF ReadingsInv, ReadingInv, ReportIsTrue, Verdict
<1> QED
  BY <1>1, ReadingsInvariant, PTL

(* The board of the web client puts every card where the API says it is.   *)
(* The two projections agree whatever the rows hold, so no invariant is    *)
(* needed.                                                                 *)
THEOREM Boards == Spec => []BoardsAgree
<1>1. BoardsAgree
  BY DEF BoardsAgree, Card, Column, Mark, ProjectBoardState, AttentionText,
         ActiveStatuses, InReviewStatuses
<1> QED
  BY <1>1, PTL
=============================================================================
