----------------------- MODULE DocumentRegistryProofs -----------------------
(***************************************************************************)
(* Proofs about DocumentRegistry, for every set of files, any number of    *)
(* pages and restarts, and whatever the disk and the database do.          *)
(*                                                                         *)
(* Everything rests on what only grows: a file that is there stays there   *)
(* with the content of its key, and a row that is there stays there.  What *)
(* a page knows of files and rows therefore survives the steps of others.  *)
(***************************************************************************)
EXTENDS DocumentRegistry, WellFoundedInduction, TLAPS

PageRecord ==
  [pc : {"idle", "open", "fill", "register", "start",
         "insert", "extract", "extracted"},
   content : Contents \cup {None}, name : Names \cup {None},
   row : Nat, got : [content : Contents, state : States] \cup {None}]

FileOf(p) == <<page[p].content, page[p].name>>

(* What a page knows: its file is one of the files, it is on disk once it  *)
(* has been opened; a review that goes on has a row, and what it has read  *)
(* is of its document.                                                     *)
PageInv(p) ==
  /\ (page[p].pc # "idle") => page[p].content \in Contents
  /\ (page[p].pc \in {"open", "fill", "register"}) => FileOf(p) \in Files
  /\ (page[p].pc \in {"fill", "register"}) => file[FileOf(p)] # None
  /\ (page[p].pc \in {"insert", "extract", "extracted"}) =>
       RowsOf(page[p].content) # {}
  /\ (page[p].row # 0) => page[p].row \in RowsOf(page[p].content)
  /\ (page[p].got # None) => page[p].got.content = page[p].content

(* A file has the content its key was made of.                             *)
FilesKeepContent == \A k \in Files : (file[k] # None) => file[k].content = k[1]

(* A row is of a file that is on disk.                                     *)
RowsAreOfFiles ==
  \A i \in DOMAIN rows :
    /\ <<rows[i].content, rows[i].name>> \in Files
    /\ file[<<rows[i].content, rows[i].name>>] # None

AckedHaveRows == \A c \in acked : RowsOf(c) # {}

DataInv ==
  FilesKeepContent /\ RowsAreOfFiles /\ MemoryIsDurable /\ AckedHaveRows

Inv == TypeOK /\ DataInv /\ \A p \in Pages : PageInv(p)

-----------------------------------------------------------------------------
(* Lemmas.                                                                 *)

(* The key of a file is the file's content and name.                       *)
LEMMA ObjectsAreFiles == Objects = Files
<1>1. \A f \in Files : Key(f[1], f[2]) = f
  BY RegistryAssumption DEF Key
<1>2. QED
  BY <1>1 DEF Objects

(* A set of numbers up to n has a largest one.                             *)
LEMMA MaxExists ==
  ASSUME NEW n \in Nat, NEW S, S \subseteq 1 .. n, S # {}
  PROVE  \E i \in S : \A j \in S : j <= i
<1> DEFINE T == {n - s : s \in S}
<1>1. T \subseteq Nat /\ T # {}
  <2>1. \A s \in S : n - s \in Nat
    OBVIOUS
  <2>2. QED
    BY <2>1
<1>2. \E x \in T : \A y \in T : ~ (<<y, x>> \in OpToRel(<, Nat))
  BY <1>1, NatLessThanWellFounded, WFMin, Zenon
<1>3. PICK x \in T : \A y \in T : ~ (y < x)
  BY <1>1, <1>2 DEF OpToRel
<1>4. PICK i \in S : x = n - i
  OBVIOUS
<1>5. ASSUME NEW j \in S PROVE j <= i
  <2>1. n - j \in T
    OBVIOUS
  <2>2. QED
    BY <2>1, <1>3, <1>4
<1>6. QED
  BY <1>5

LEMMA RowsOfRange ==
  ASSUME TypeOK, NEW c
  PROVE  /\ RowsOf(c) \subseteq 1 .. Len(rows)
         /\ RowsOf(c) = {i \in 1 .. Len(rows) : rows[i].content = c}
         /\ Len(rows) \in Nat
  BY DEF TypeOK, RowsOf

(* The lookup of a document finds one of its rows if there is one.         *)
LEMMA Resolved ==
  ASSUME TypeOK, MemoryIsDurable, NEW c \in Contents
  PROVE  /\ (RowsOf(c) = {}) => Resolve(c) = 0
         /\ (RowsOf(c) # {}) => Resolve(c) \in RowsOf(c)
<1>1. CASE memory[c] # 0
  BY <1>1 DEF MemoryIsDurable, Resolve
<1>2. CASE memory[c] = 0 /\ RowsOf(c) = {}
  BY <1>2 DEF Resolve
<1>3. CASE memory[c] = 0 /\ RowsOf(c) # {}
  <2>1. \E i \in RowsOf(c) : \A j \in RowsOf(c) : j <= i
    BY <1>3, RowsOfRange, MaxExists
  <2>2. QED
    BY <1>3, <2>1 DEF Resolve
<1>4. QED
  BY <1>1, <1>2, <1>3

(* What a new row changes.                                                 *)
LEMMA RowsGrow ==
  ASSUME TypeOK, NEW p \in Pages, FileOf(p) \in Files, rows' = NewRow(p)
  PROVE  /\ rows' \in Seq([content : Contents, name : Names])
         /\ \A c : RowsOf(c) \subseteq RowsOf(c)'
         /\ Len(rows') \in DOMAIN rows'
         /\ rows'[Len(rows')].content = page[p].content
         /\ Len(rows') \in Nat \ {0}
         /\ \A i \in DOMAIN rows' :
              \/ i \in DOMAIN rows /\ rows'[i] = rows[i]
              \/ rows'[i].content = page[p].content /\ rows'[i].name = page[p].name
<1> DEFINE r == [content |-> page[p].content, name |-> page[p].name]
<1>1. r \in [content : Contents, name : Names]
  BY RegistryAssumption DEF FileOf
<1>2. rows \in Seq([content : Contents, name : Names])
  BY DEF TypeOK
<1>3. rows' = Append(rows, r)
  BY DEF NewRow
<1> HIDE DEF r
<1>4. /\ rows' \in Seq([content : Contents, name : Names])
      /\ Len(rows') = Len(rows) + 1
      /\ Len(rows) \in Nat
      /\ DOMAIN rows = 1 .. Len(rows)
      /\ DOMAIN rows' = 1 .. Len(rows) + 1
      /\ \A i \in 1 .. Len(rows) : rows'[i] = rows[i]
      /\ rows'[Len(rows) + 1] = r
  BY <1>1, <1>2, <1>3
<1>5. \A c : RowsOf(c) \subseteq RowsOf(c)'
  BY <1>4 DEF RowsOf
<1>6. r.content = page[p].content /\ r.name = page[p].name
  BY DEF r
<1>7. QED
  BY <1>4, <1>5, <1>6

(* What a page knows is not disturbed by the steps of others.              *)
LEMMA Bystander ==
  ASSUME NEW p \in Pages, PageInv(p), page'[p] = page[p],
         \A k \in Files : (file[k] # None) => file'[k] # None,
         \A c : RowsOf(c) \subseteq RowsOf(c)'
  PROVE  PageInv(p)'
<1>1. FileOf(p)' = FileOf(p)
  BY DEF FileOf
<1>2. (page[p].pc \in {"fill", "register"}) => file'[FileOf(p)] # None
  BY DEF PageInv
<1> DEFINE old == RowsOf(page[p].content)
           new == RowsOf(page[p].content)'
<1>3. old \subseteq new
  BY DEF RowsOf
<1> HIDE DEF old, new
<1>4. /\ (page[p].pc \in {"insert", "extract", "extracted"}) => old # {}
      /\ (page[p].row # 0) => page[p].row \in old
  BY DEF PageInv, old
<1>5. /\ (page'[p].pc \in {"insert", "extract", "extracted"}) => new # {}
      /\ (page'[p].row # 0) => page'[p].row \in new
  BY <1>3, <1>4
<1>6. QED
  BY <1>1, <1>2, <1>5 DEF PageInv, new

(* A page at rest knows nothing.                                           *)
LEMMA AtRest ==
  ASSUME NEW p, page[p] = IdlePage
  PROVE  PageInv(p)
  BY DEF PageInv, IdlePage

(* A step of one page that takes nothing away leaves every page informed.  *)
LEMMA OnePage ==
  ASSUME Inv, NEW p \in Pages, NEW x \in PageRecord, page' = [page EXCEPT ![p] = x],
         PageInv(p)',
         \A k \in Files : (file[k] # None) => file'[k] # None,
         \A c : RowsOf(c) \subseteq RowsOf(c)'
  PROVE  /\ page' \in [Pages -> PageRecord]
         /\ \A q \in Pages : PageInv(q)'
<1>1. page \in [Pages -> PageRecord]
  BY DEF Inv, TypeOK, PageRecord
<1>2. page' \in [Pages -> PageRecord] /\ \A q \in Pages \ {p} : page'[q] = page[q]
  BY <1>1
<1>3. \A q \in Pages \ {p} : PageInv(q)'
  BY <1>2, Bystander DEF Inv
<1>4. QED
  BY <1>2, <1>3

(* A step of one page that writes neither files nor rows.                  *)
LEMMA QuietStep ==
  ASSUME Inv, NEW p \in Pages, NEW x \in PageRecord, page' = [page EXCEPT ![p] = x],
         PageInv(p)', UNCHANGED <<file, rows, restarts, acked>>,
         memory' \in [Contents -> Nat], MemoryIsDurable', run' \subseteq Contents
  PROVE  Inv'
<1>1. \A c : RowsOf(c)' = RowsOf(c)
  BY DEF RowsOf
<1>2. page' \in [Pages -> PageRecord] /\ \A q \in Pages : PageInv(q)'
  BY <1>1, OnePage
<1>3. TypeOK'
  BY <1>2 DEF Inv, TypeOK, PageRecord
<1>4. DataInv'
  BY <1>1 DEF Inv, DataInv, FilesKeepContent, RowsAreOfFiles, AckedHaveRows
<1>5. QED
  BY <1>2, <1>3, <1>4 DEF Inv

(* The same when the registry and the lifecycle are left alone as well.    *)
LEMMA PageStep ==
  ASSUME Inv, NEW p \in Pages, NEW x \in PageRecord, page' = [page EXCEPT ![p] = x],
         PageInv(p)', UNCHANGED <<file, rows, memory, run, restarts, acked>>
  PROVE  Inv'
<1>1. MemoryIsDurable'
  BY DEF Inv, DataInv, MemoryIsDurable, RowsOf
<1>2. QED
  BY <1>1, QuietStep DEF Inv, TypeOK

LEMMA IdleIsPage == IdlePage \in PageRecord
  BY DEF IdlePage, PageRecord

LEMMA RestStep ==
  ASSUME Inv, NEW p \in Pages, Rest(p), UNCHANGED <<file, rows, memory, run, restarts, acked>>
  PROVE  Inv'
<1>1. page' = [page EXCEPT ![p] = IdlePage]
  BY DEF Rest
<1>2. page'[p] = IdlePage
  BY <1>1 DEF Inv, TypeOK
<1>3. PageInv(p)'
  BY <1>2 DEF PageInv, IdlePage
<1>4. QED
  BY <1>1, <1>3, IdleIsPage, PageStep

(* One step of a page to another place in its request.                     *)
LEMMA GotoPage ==
  ASSUME Inv, NEW p \in Pages, NEW s \in {"fill", "register", "start", "insert"},
         Goto(p, s)
  PROVE  \E x \in PageRecord :
           /\ x = [page[p] EXCEPT !.pc = s]
           /\ page' = [page EXCEPT ![p] = x]
           /\ page'[p] = x
           /\ FileOf(p)' = FileOf(p)
           /\ Object(p) = FileOf(p)
<1>1. page \in [Pages -> PageRecord]
  BY DEF Inv, TypeOK, PageRecord
<1> DEFINE x == [page[p] EXCEPT !.pc = s]
<1>2. x \in PageRecord
  BY <1>1 DEF PageRecord
<1>3. page' = [page EXCEPT ![p] = x] /\ page'[p] = x
  BY <1>1 DEF Goto
<1>4. x.content = page[p].content /\ x.name = page[p].name
  BY <1>1 DEF PageRecord
<1>5. QED
  BY <1>2, <1>3, <1>4 DEF FileOf, Object, Key

-----------------------------------------------------------------------------
(* The steps.                                                              *)

LEMMA SubmitStep ==
  ASSUME Inv, NEW p \in Pages, Submit(p)
  PROVE  Inv'
<1>1. PICK f \in Files : page' = [page EXCEPT ![p] =
                  [IdlePage EXCEPT !.pc = "open", !.content = f[1], !.name = f[2]]]
  BY DEF Submit
<1> DEFINE x == [IdlePage EXCEPT !.pc = "open", !.content = f[1], !.name = f[2]]
<1>2. f[1] \in Contents /\ f[2] \in Names /\ f = <<f[1], f[2]>>
  BY RegistryAssumption
<1>3. x \in PageRecord
  BY <1>2, IdleIsPage DEF PageRecord
<1>4. /\ x.pc = "open" /\ x.content = f[1] /\ x.name = f[2]
      /\ x.row = 0 /\ x.got = None
  BY IdleIsPage DEF PageRecord, IdlePage
<1> HIDE DEF x
<1>5. page' = [page EXCEPT ![p] = x] /\ page'[p] = x
  BY <1>1, <1>3 DEF x, Inv, TypeOK
<1>6. PageInv(p)'
  BY <1>2, <1>4, <1>5 DEF PageInv, FileOf
<1>7. QED
  BY <1>3, <1>5, <1>6, PageStep DEF Submit

(* A file that is opened or filled keeps the content of its key.           *)
LEMMA FileStep ==
  ASSUME Inv, NEW p \in Pages, page[p].pc \in {"open", "fill"},
         NEW s \in States, NEW next \in {"fill", "register"}, Goto(p, next),
         file' = [file EXCEPT ![Object(p)] = [content |-> page[p].content, state |-> s]],
         UNCHANGED <<rows, memory, run, restarts, acked>>
  PROVE  Inv'
<1> DEFINE o == [content |-> page[p].content, state |-> s]
           k == FileOf(p)
<1>1. PICK x \in PageRecord :
           /\ x = [page[p] EXCEPT !.pc = next]
           /\ page' = [page EXCEPT ![p] = x]
           /\ page'[p] = x
           /\ k' = k
           /\ Object(p) = k
  BY GotoPage
<1>2. k \in Files /\ page[p].content \in Contents
  BY DEF Inv, PageInv
<1>3. o \in [content : Contents, state : States] /\ o # None
  BY <1>2, RegistryAssumption
<1>4. file \in [Files -> [content : Contents, state : States] \cup {None}]
  BY ObjectsAreFiles DEF Inv, TypeOK
<1>5. /\ file' \in [Files -> [content : Contents, state : States] \cup {None}]
      /\ file'[k] = o
      /\ \A j \in Files \ {k} : file'[j] = file[j]
  BY <1>1, <1>2, <1>3, <1>4
<1>6. \A j \in Files : (file[j] # None) => file'[j] # None
  BY <1>3, <1>5
<1>7. \A c : RowsOf(c)' = RowsOf(c)
  BY DEF RowsOf
<1>8. page'[p].pc = next /\ page'[p].content = page[p].content
      /\ page'[p].row = page[p].row /\ page'[p].got = page[p].got
  BY <1>1 DEF Inv, TypeOK
<1>9. PageInv(p)'
  <2>1. file'[k'] # None /\ k' \in Files
    BY <1>1, <1>2, <1>3, <1>5
  <2>2. /\ (page[p].row # 0) => page[p].row \in RowsOf(page[p].content)
        /\ (page[p].got # None) => page[p].got.content = page[p].content
    BY DEF Inv, PageInv
  <2>3. (page'[p].row # 0) => page'[p].row \in RowsOf(page[p].content)'
    BY <1>8, <2>2 DEF RowsOf
  <2>4. QED
    BY <1>2, <1>8, <2>1, <2>2, <2>3 DEF PageInv
<1>10. page' \in [Pages -> PageRecord] /\ \A q \in Pages : PageInv(q)'
  BY <1>1, <1>6, <1>7, <1>9, OnePage
<1>11. TypeOK'
  BY <1>5, <1>10, ObjectsAreFiles DEF Inv, TypeOK, PageRecord, Objects
<1>12. DataInv'
  <2>1. FilesKeepContent'
    <3>1. o.content = k[1]
      BY DEF FileOf
    <3>2. QED
      BY <1>5, <3>1 DEF Inv, DataInv, FilesKeepContent
  <2>2. RowsAreOfFiles'
    BY <1>6 DEF Inv, DataInv, RowsAreOfFiles
  <2>3. MemoryIsDurable' /\ AckedHaveRows'
    BY <1>7 DEF Inv, DataInv, MemoryIsDurable, AckedHaveRows
  <2>4. QED
    BY <2>1, <2>2, <2>3 DEF DataInv
<1>13. QED
  BY <1>10, <1>11, <1>12 DEF Inv

LEMMA OpenFileStep ==
  ASSUME Inv, NEW p \in Pages, OpenFile(p)
  PROVE  Inv'
  BY FileStep DEF OpenFile, States

LEMMA FillFileStep ==
  ASSUME Inv, NEW p \in Pages, FillFile(p)
  PROVE  Inv'
  BY FileStep DEF FillFile, States
(* An upload is registered: its row is new, or its file had one already.   *)
LEMMA RegisterStep ==
  ASSUME Inv, NEW p \in Pages, Register(p)
  PROVE  Inv'
<1> DEFINE x == [page[p] EXCEPT !.pc = "start", !.name = None]
<1>1. PICK d \in Contents : d = page[p].content
  BY DEF Inv, PageInv, Register
<1>2. PICK o \in DbOutcomes, inserted \in BOOLEAN :
        /\ inserted = (o \in Committed /\ ~Duplicate(p))
        /\ rows' = IF inserted THEN NewRow(p) ELSE rows
        /\ memory' = IF inserted /\ o = "ok"
                     THEN [memory EXCEPT ![d] = Len(rows')] ELSE memory
        /\ acked' = IF o \in {"ok", "reset"} THEN acked \cup {d} ELSE acked
        /\ page' = [page EXCEPT ![p] = IF o \in Answered THEN x ELSE IdlePage]
  <2>1. PICK o \in DbOutcomes :
          LET inserted == o \in Committed /\ ~Duplicate(p)
          IN  /\ rows' = IF inserted THEN NewRow(p) ELSE rows
              /\ memory' = IF inserted /\ o = "ok"
                           THEN [memory EXCEPT ![d] = Len(rows')] ELSE memory
              /\ acked' = IF o \in {"ok", "reset"} THEN acked \cup {d} ELSE acked
              /\ page' = [page EXCEPT ![p] =
                           IF o \in Answered THEN x ELSE IdlePage]
    BY <1>1 DEF Register
  <2>2. (o \in Committed /\ ~Duplicate(p)) \in BOOLEAN
    OBVIOUS
  <2>3. QED
    BY <2>1, <2>2
<1>3. FileOf(p) \in Files /\ file[FileOf(p)] # None /\ UNCHANGED <<file, run, restarts>>
  BY DEF Inv, PageInv, Register
<1>4. /\ rows' \in Seq([content : Contents, name : Names])
      /\ \A c : RowsOf(c) \subseteq RowsOf(c)'
      /\ \A i \in DOMAIN rows' :
           \/ i \in DOMAIN rows /\ rows'[i] = rows[i]
           \/ rows'[i].content = d /\ rows'[i].name = page[p].name
      /\ inserted => Len(rows') \in RowsOf(d)' /\ Len(rows') \in Nat
  <2>1. CASE inserted
    BY <2>1, <1>1, <1>2, <1>3, RowsGrow DEF Inv, RowsOf
  <2>2. CASE ~inserted
    BY <2>2, <1>2 DEF Inv, TypeOK, RowsOf
  <2>3. QED
    BY <1>2, <2>1, <2>2
<1>5. (o \in {"ok", "reset"}) => RowsOf(d)' # {}
  <2>1. CASE inserted
    BY <2>1, <1>4
  <2>2. CASE ~inserted
    <3>1. (o \in {"ok", "reset"}) => \E i \in DOMAIN rows : rows[i].content = d
      BY <2>2, <1>1, <1>2 DEF Committed, Duplicate, RowKey, Object, Key
    <3>2. QED
      BY <3>1, <1>2, <2>2 DEF RowsOf
  <2>3. QED
    BY <1>2, <2>1, <2>2
<1>6. page[p] \in PageRecord
  BY DEF Inv, TypeOK, PageRecord
<1>7. /\ x \in PageRecord /\ x.pc = "start" /\ x.content = d
      /\ x.row = page[p].row /\ x.got = page[p].got
  BY <1>1, <1>6 DEF PageRecord
<1> HIDE DEF x
<1>8. PICK y \in PageRecord :
        page' = [page EXCEPT ![p] = y] /\ page'[p] = y /\ (y = x \/ y = IdlePage)
  BY <1>2, <1>7, IdleIsPage DEF Inv, TypeOK
<1>9. PageInv(p)'
  <2>1. CASE y = x
    <3>1. /\ (page[p].row # 0) => page[p].row \in RowsOf(d)
          /\ (page[p].got # None) => page[p].got.content = d
      BY <1>1 DEF Inv, PageInv
    <3>2. (x.row # 0) => x.row \in RowsOf(d)'
      BY <1>4, <1>7, <3>1
    <3>3. page'[p].content = d
      BY <1>7, <1>8, <2>1
    <3>4. RowsOf(page[p].content)' = RowsOf(d)'
      BY <3>3 DEF RowsOf
    <3>5. QED
      BY <1>7, <1>8, <2>1, <3>1, <3>2, <3>4 DEF PageInv
  <2>2. CASE y = IdlePage
    BY <1>8, <2>2 DEF PageInv, IdlePage
  <2>3. QED
    BY <1>8, <2>1, <2>2
<1>10. page' \in [Pages -> PageRecord] /\ \A q \in Pages : PageInv(q)'
  BY <1>3, <1>4, <1>8, <1>9, OnePage
<1>11. TypeOK'
  <2>1. memory' \in [Contents -> Nat]
    BY <1>2, <1>4 DEF Inv, TypeOK
  <2>2. acked' \subseteq Contents
    BY <1>2 DEF Inv, TypeOK
  <2>3. QED
    BY <1>3, <1>4, <1>10, <2>1, <2>2 DEF Inv, TypeOK, PageRecord
<1>12. DataInv'
  <2>1. FilesKeepContent'
    BY <1>3 DEF Inv, DataInv, FilesKeepContent
  <2>2. RowsAreOfFiles'
    BY <1>1, <1>3, <1>4 DEF Inv, DataInv, RowsAreOfFiles, FileOf
  <2>3. MemoryIsDurable'
    <3>1. ASSUME NEW c \in Contents, memory'[c] # 0
          PROVE  memory'[c] \in RowsOf(c)'
      <4>1. memory \in [Contents -> Nat]
        BY DEF Inv, TypeOK
      <4>2. CASE memory'[c] = memory[c]
        BY <3>1, <4>2, <1>4 DEF Inv, DataInv, MemoryIsDurable
      <4>3. CASE memory'[c] # memory[c]
        <5>1. inserted /\ c = d /\ memory'[c] = Len(rows')
          BY <1>2, <4>1, <4>3
        <5>2. QED
          BY <1>4, <5>1
      <4>4. QED
        BY <4>2, <4>3
    <3>2. QED
      BY <3>1 DEF MemoryIsDurable
  <2>4. AckedHaveRows'
    <3>1. ASSUME NEW c \in acked' PROVE RowsOf(c)' # {}
      <4>1. CASE c \in acked
        BY <4>1, <1>4 DEF Inv, DataInv, AckedHaveRows
      <4>2. CASE c \notin acked
        BY <4>2, <3>1, <1>2, <1>5
      <4>3. QED
        BY <4>1, <4>2
    <3>2. QED
      BY <3>1 DEF AckedHaveRows
  <2>5. QED
    BY <2>1, <2>2, <2>3, <2>4 DEF DataInv
<1>13. QED
  BY <1>10, <1>11, <1>12 DEF Inv

(* The lookup remembers a row of the document, so that a review that goes  *)
(* on has one.                                                             *)
LEMMA LookupStep ==
  ASSUME Inv, NEW p \in Pages, Lookup(p)
  PROVE  Inv'
<1>1. PICK c \in Contents : c = page[p].content
  BY DEF Inv, PageInv, Lookup
<1>2. CASE UNCHANGED memory /\ UNCHANGED run /\ Rest(p)
  BY <1>2, RestStep DEF Lookup
<1>3. CASE Remember(c)
  <2>1. /\ (RowsOf(c) = {}) => Resolve(c) = 0
        /\ (RowsOf(c) # {}) => Resolve(c) \in RowsOf(c)
    BY Resolved DEF Inv, DataInv
  <2>2. Resolve(c) \in Nat
    BY <2>1, RowsOfRange DEF Inv
  <2>3. memory' \in [Contents -> Nat]
    BY <1>3, <2>2 DEF Remember, Inv, TypeOK
  <2>4. UNCHANGED <<file, rows, restarts, acked>>
    BY DEF Lookup
  <2>5. MemoryIsDurable'
    <3>1. \A e : RowsOf(e)' = RowsOf(e)
      BY <2>4 DEF RowsOf
    <3>2. ASSUME NEW e \in Contents, memory'[e] # 0 PROVE memory'[e] \in RowsOf(e)'
      <4>1. memory'[e] = memory[e] \/ (e = c /\ memory'[e] = Resolve(c))
        BY <1>3 DEF Remember, Inv, TypeOK
      <4>2. (memory[e] # 0) => memory[e] \in RowsOf(e)
        BY DEF Inv, DataInv, MemoryIsDurable
      <4>3. QED
        BY <2>1, <3>1, <3>2, <4>1, <4>2
    <3>3. QED
      BY <3>2 DEF MemoryIsDurable
  <2>6. CASE Rest(p) /\ UNCHANGED run
    <3>1. page' = [page EXCEPT ![p] = IdlePage] /\ page'[p] = IdlePage
      BY <2>6 DEF Rest, Inv, TypeOK
    <3>2. PageInv(p)'
      BY <3>1 DEF PageInv, IdlePage
    <3>3. run' \subseteq Contents
      BY <2>6 DEF Inv, TypeOK
    <3>4. QED
      BY <2>3, <2>4, <2>5, <3>1, <3>2, <3>3, IdleIsPage, QuietStep
  <2>7. CASE Resolve(c) # 0 /\ Goto(p, "insert") /\ run' = run \cup {c}
    <3>1. PICK x \in PageRecord :
             /\ x = [page[p] EXCEPT !.pc = "insert"]
             /\ page' = [page EXCEPT ![p] = x]
             /\ page'[p] = x
      BY <2>7, GotoPage
    <3>2. page'[p].pc = "insert" /\ page'[p].content = c
          /\ page'[p].row = page[p].row /\ page'[p].got = page[p].got
      BY <1>1, <3>1 DEF Inv, TypeOK
    <3>3. RowsOf(page[p].content)' = RowsOf(c)
      BY <2>4, <3>2 DEF RowsOf
    <3>4. PageInv(p)'
      BY <1>1, <2>1, <2>7, <3>2, <3>3 DEF PageInv, Inv
    <3>5. run' \subseteq Contents
      BY <2>7 DEF Inv, TypeOK
    <3>6. QED
      BY <2>3, <2>4, <2>5, <3>1, <3>4, <3>5, QuietStep
  <2>8. QED
    BY <1>1, <2>6, <2>7 DEF Lookup
<1>4. QED
  BY <1>1, <1>2, <1>3 DEF Lookup

(* The row of the run is a row of the document.                            *)
LEMMA InsertRunStep ==
  ASSUME Inv, NEW p \in Pages, InsertRun(p)
  PROVE  Inv'
<1>1. CASE Rest(p)
  BY <1>1, RestStep DEF InsertRun
<1>2. CASE page' = [page EXCEPT ![p].pc = "extract", ![p].row = Resolve(page[p].content)]
  <2> DEFINE i == Resolve(page[p].content)
             x == [page[p] EXCEPT !.pc = "extract", !.row = i]
  <2>1. RowsOf(page[p].content) # {} /\ page[p].content \in Contents
    BY DEF InsertRun, Inv, PageInv
  <2>2. i \in RowsOf(page[p].content) /\ i \in Nat
    BY <2>1, Resolved, RowsOfRange DEF Inv, DataInv
  <2> HIDE DEF i
  <2>3. page[p] \in PageRecord
    BY DEF Inv, TypeOK, PageRecord
  <2>4. /\ x \in PageRecord /\ x.pc = "extract" /\ x.row = i
        /\ x.content = page[p].content /\ x.got = page[p].got
    BY <2>2, <2>3 DEF PageRecord
  <2>5. page' = [page EXCEPT ![p] = x] /\ page'[p] = x
    BY <1>2 DEF i, Inv, TypeOK
  <2> HIDE DEF x
  <2>6. page'[p].content = page[p].content
    BY <2>4, <2>5
  <2>7. RowsOf(page[p].content)' = RowsOf(page[p].content)
    BY <2>6 DEF InsertRun, RowsOf
  <2>8. PageInv(p)'
    BY <2>1, <2>2, <2>4, <2>5, <2>7 DEF PageInv, Inv
  <2>9. QED
    BY <2>4, <2>5, <2>8, PageStep DEF InsertRun
<1>3. QED
  BY <1>1, <1>2 DEF InsertRun

(* What is extracted has the content of its key, which is the document's.  *)
LEMMA ExtractStep ==
  ASSUME Inv, NEW p \in Pages, Extract(p)
  PROVE  Inv'
<1> DEFINE c == page[p].content
           i == Resolve(c)
           k == RowKey(i)
           g == file[k]
           x == [page[p] EXCEPT !.pc = "extracted", !.got = g]
<1>1. RowsOf(c) # {} /\ c \in Contents
  BY DEF Extract, Inv, PageInv
<1>2. i \in RowsOf(c)
  BY <1>1, Resolved DEF Inv, DataInv
<1>3. i \in DOMAIN rows /\ rows[i].content = c /\ k = <<c, rows[i].name>> /\ k \in Files
  BY <1>2 DEF RowsOf, RowKey, Key, Inv, DataInv, RowsAreOfFiles
<1>4. g \in [content : Contents, state : States] \cup {None}
  BY <1>3, ObjectsAreFiles DEF Inv, TypeOK
<1>5. (g # None) => g.content = c
  BY <1>3 DEF Inv, DataInv, FilesKeepContent
<1>6. page' = [page EXCEPT ![p].pc = "extracted", ![p].got = g]
  BY DEF Extract
<1> HIDE DEF g
<1>7. page[p] \in PageRecord
  BY DEF Inv, TypeOK, PageRecord
<1>8. /\ x \in PageRecord /\ x.pc = "extracted" /\ x.got = g
      /\ x.content = page[p].content /\ x.row = page[p].row
  BY <1>4, <1>7 DEF PageRecord
<1>9. page' = [page EXCEPT ![p] = x] /\ page'[p] = x
  BY <1>6 DEF Inv, TypeOK
<1> HIDE DEF x
<1>10. RowsOf(page[p].content)' = RowsOf(page[p].content)
  BY <1>8, <1>9 DEF Extract, RowsOf
<1>11. PageInv(p)'
  BY <1>1, <1>5, <1>8, <1>9, <1>10 DEF PageInv, Inv
<1>12. QED
  BY <1>8, <1>9, <1>11, PageStep DEF Extract

LEMMA RestartStep ==
  ASSUME Inv, Restart
  PROVE  Inv'
<1>1. \A p \in Pages : page'[p] = IdlePage
  BY DEF Restart
<1>2. \A p \in Pages : PageInv(p)'
  BY <1>1 DEF PageInv, IdlePage
<1>3. page' \in [Pages -> PageRecord]
  BY IdleIsPage DEF Restart
<1>4. TypeOK'
  BY <1>3, RegistryAssumption DEF Inv, TypeOK, Restart, PageRecord
<1>5. DataInv'
  BY DEF Inv, DataInv, Restart, FilesKeepContent, RowsAreOfFiles,
         MemoryIsDurable, AckedHaveRows, RowsOf
<1>6. QED
  BY <1>2, <1>4, <1>5 DEF Inv

-----------------------------------------------------------------------------
(* The invariant and the theorems.                                         *)

LEMMA Initially == Init => Inv
<1> SUFFICES ASSUME Init PROVE Inv
  OBVIOUS
<1>1. \A p \in Pages : PageInv(p)
  BY DEF Init, PageInv, IdlePage
<1>2. TypeOK
  BY IdleIsPage, RegistryAssumption DEF Init, TypeOK, PageRecord
<1>3. DataInv
  BY ObjectsAreFiles DEF Init, DataInv, FilesKeepContent, RowsAreOfFiles,
     MemoryIsDurable, AckedHaveRows
<1>4. QED
  BY <1>1, <1>2, <1>3 DEF Inv

LEMMA Preserved == Inv /\ [Next]_vars => Inv'
<1> SUFFICES ASSUME Inv, [Next]_vars PROVE Inv'
  OBVIOUS
<1>1. CASE UNCHANGED vars
  BY <1>1 DEF vars, Inv, TypeOK, DataInv, FilesKeepContent, RowsAreOfFiles,
     MemoryIsDurable, AckedHaveRows, PageInv, FileOf, RowsOf
<1>2. CASE Restart
  BY <1>2, RestartStep
<1>3. ASSUME NEW p \in Pages, Submit(p) PROVE Inv'
  BY <1>3, SubmitStep
<1>4. ASSUME NEW p \in Pages, Store(p) PROVE Inv'
  <2>1. CASE Reject(p) \/ DiskError(p)
    BY <2>1, RestStep DEF Reject, DiskError
  <2>2. CASE OpenFile(p) \/ FillFile(p)
    BY <2>2, OpenFileStep, FillFileStep
  <2>3. CASE Register(p)
    BY <2>3, RegisterStep
  <2>4. QED
    BY <1>4, <2>1, <2>2, <2>3 DEF Store
<1>5. ASSUME NEW p \in Pages, Review(p) PROVE Inv'
  <2>1. CASE Navigate(p)
    BY <2>1, RestStep DEF Navigate
  <2>2. QED
    BY <1>5, <2>1, LookupStep, InsertRunStep, ExtractStep DEF Review
<1>6. QED
  BY <1>1, <1>2, <1>3, <1>4, <1>5 DEF Next

LEMMA Invariant == Spec => []Inv
  BY Initially, Preserved, PTL DEF Spec

(* Every variable of the registry keeps its type.                          *)
THEOREM TypeCorrect == Spec => []TypeOK
<1>1. Inv => TypeOK
  BY DEF Inv
<1>2. QED
  BY <1>1, Invariant, PTL

(* A document that was acknowledged while the database worked is known to  *)
(* every later start: an acknowledgement leaves a row, new or of an        *)
(* earlier upload, rows are never removed, and the lookup finds one.       *)
THEOREM Known == Spec => []AcknowledgedIsKnown
<1>1. ASSUME Inv, NEW c \in acked PROVE Resolve(c) # 0
  <2>1. c \in Contents /\ RowsOf(c) # {}
    BY <1>1 DEF Inv, TypeOK, DataInv, AckedHaveRows
  <2>2. Resolve(c) \in RowsOf(c)
    BY <1>1, <2>1, Resolved DEF Inv, DataInv
  <2>3. QED
    BY <1>1, <2>2, RowsOfRange DEF Inv
<1>2. Inv => AcknowledgedIsKnown
  BY <1>1 DEF AcknowledgedIsKnown
<1>3. QED
  BY <1>2, Invariant, PTL

(* A row never precedes its file.                                          *)
THEOREM Stored == Spec => []RowsHaveFiles
<1>1. Inv => RowsHaveFiles
  BY DEF Inv, DataInv, RowsAreOfFiles, RowsHaveFiles, RowKey, Key
<1>2. QED
  BY <1>1, Invariant, PTL

(* What the registry holds in memory would be found after a restart.       *)
THEOREM Durable == Spec => []MemoryIsDurable
<1>1. Inv => MemoryIsDurable
  BY DEF Inv, DataInv
<1>2. QED
  BY <1>1, Invariant, PTL

(* The row of a run and the bytes it extracts are of the document the run  *)
(* was started for.                                                        *)
THEOREM AboutItsDocument == Spec => []ReviewIsAboutItsDocument
<1>1. Inv => ReviewIsAboutItsDocument
  BY DEF Inv, PageInv, RowsOf, ReviewIsAboutItsDocument
<1>2. QED
  BY <1>1, Invariant, PTL
=============================================================================
