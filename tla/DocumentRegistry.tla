-------------------------- MODULE DocumentRegistry --------------------------
(***************************************************************************)
(* Thesis documents: the upload page, upload-service.mjs and the files of  *)
(* object-storage.mjs, the rows of thesis_document, the registry of        *)
(* live-review-pipeline.mjs, and what a started review reads of them.      *)
(*                                                                         *)
(* A document is known by the digest of its content, an object by the      *)
(* content and the name of the file.  An action is the code between two    *)
(* awaits; writeFile truncates the file first, so that a reader may find   *)
(* it cut.  The content type, the session gate and the audit event are     *)
(* left out; the run itself is the subject of ReviewPipeline.              *)
(***************************************************************************)
EXTENDS Naturals, Sequences, FiniteSets

CONSTANTS
  Contents,     \* contents of files, compared through their digest
  Names,        \* names of files, as slugFileName leaves them
  Files,        \* the files there are to upload: a content with a name
  Pages,        \* upload pages that are open
  DbOutcomes,   \* how a database call may end, one of Outcomes
  DiskFails,    \* whether a write to the disk may fail
  MaxRestarts,  \* bound of the restarts of the API process
  None

States == {"cut", "whole"}

(* The database refuses the row, or cannot be reached, or has committed it *)
(* when the connection breaks: with a code that CONNECTION_ERROR_CODES has *)
(* ("lost") or, like ECONNRESET, has not ("reset").                        *)
Outcomes == {"ok", "refused", "unreachable", "lost", "reset"}
Committed == {"ok", "lost", "reset"}
Answered == {"ok", "refused", "reset"}

ASSUME RegistryAssumption ==
  /\ Files \subseteq Contents \X Names
  /\ "ok" \in DbOutcomes
  /\ DbOutcomes \subseteq Outcomes
  /\ DiskFails \in BOOLEAN
  /\ MaxRestarts \in Nat
  /\ None \notin Contents \cup Names
  /\ \A c \in Contents, s \in States : None # [content |-> c, state |-> s]

VARIABLES
  file,      \* objects on disk: their content, and whether it is all there
  rows,      \* thesis_document, by id
  memory,    \* uploadedDocuments: a row for a document id
  run,       \* documents for which the lifecycle has a run
  page,      \* the pages, and where the request of each of them is
  restarts,
  acked      \* history: documents acknowledged whose rows the database has

vars == <<file, rows, memory, run, page, restarts, acked>>

(* Variant: the key is built from the name of the file alone.              *)
KeyOfName(c, n) == <<CHOOSE d \in Contents : TRUE, n>>

(* buildStorageKey.                                                        *)
Key(c, n) == <<c, n>>

Objects == {Key(f[1], f[2]) : f \in Files}

RowsOf(c) == {i \in DOMAIN rows : rows[i].content = c}
RowKey(i) == Key(rows[i].content, rows[i].name)

IdlePage == [pc |-> "idle", content |-> None, name |-> None, row |-> 0, got |-> None]

Init ==
  /\ file = [k \in Objects |-> None]
  /\ rows = <<>>
  /\ memory = [c \in Contents |-> 0]
  /\ run = {}
  /\ page = [p \in Pages |-> IdlePage]
  /\ restarts = 0
  /\ acked = {}

Goto(p, pc) == page' = [page EXCEPT ![p].pc = pc]
Object(p) == Key(page[p].content, page[p].name)

(* The page shows an error, or the results of a run; either way another    *)
(* file may be submitted.                                                  *)
Rest(p) == page' = [page EXCEPT ![p] = IdlePage]

Submitting(p) == page[p].pc # "idle"

-----------------------------------------------------------------------------
(* Upload.                                                                 *)

(* A file that validateSelectedFiles lets pass.                            *)
Submit(p) ==
  /\ page[p].pc = "idle"
  /\ \E f \in Files :
       page' = [page EXCEPT ![p] =
                  [IdlePage EXCEPT !.pc = "open", !.content = f[1], !.name = f[2]]]
  /\ UNCHANGED <<file, rows, memory, run, restarts, acked>>

(* The API validates again, and turns down what the page let pass, such as *)
(* an empty file.                                                          *)
Reject(p) ==
  /\ page[p].pc = "open"
  /\ Rest(p)
  /\ UNCHANGED <<file, rows, memory, run, restarts, acked>>

(* Variant: putObject is not awaited.                                      *)
OpenFileUnawaited(p) ==
  /\ page[p].pc = "open"
  /\ Goto(p, "register")
  /\ UNCHANGED <<file, rows, memory, run, restarts, acked>>

(* putObject: the file is opened and truncated, then filled.  The metadata *)
(* follows, which getObject can do without: its write is part of the step  *)
(* that comes next.                                                        *)
OpenFile(p) ==
  /\ page[p].pc = "open"
  /\ file' = [file EXCEPT ![Object(p)] = [content |-> page[p].content, state |-> "cut"]]
  /\ Goto(p, "fill")
  /\ UNCHANGED <<rows, memory, run, restarts, acked>>

(* Variant: the name is written in the place of the content.               *)
FillFileWithName(p) ==
  /\ page[p].pc = "fill"
  /\ file' = [file EXCEPT ![Object(p)] = [content |-> page[p].name, state |-> "whole"]]
  /\ Goto(p, "register")
  /\ UNCHANGED <<rows, memory, run, restarts, acked>>

FillFile(p) ==
  /\ page[p].pc = "fill"
  /\ file' = [file EXCEPT ![Object(p)] = [content |-> page[p].content, state |-> "whole"]]
  /\ Goto(p, "register")
  /\ UNCHANGED <<rows, memory, run, restarts, acked>>

(* A write fails: nobody catches it on the way to the framework, and what  *)
(* has been written stays.                                                 *)
DiskError(p) ==
  /\ DiskFails
  /\ page[p].pc \in {"fill", "register"}
  /\ Rest(p)
  /\ UNCHANGED <<file, rows, memory, run, restarts, acked>>

(* insertThesisDocument: storage_key is unique.                            *)
Duplicate(p) == \E i \in DOMAIN rows : RowKey(i) = Object(p)
NewRow(p) == Append(rows, [content |-> page[p].content, name |-> page[p].name])

(* Variant: the document is registered whatever becomes of its row.        *)
RegisterEarly(p) ==
  /\ page[p].pc = "register"
  /\ memory' = [memory EXCEPT ![page[p].content] = Len(rows) + 1]
  /\ \E o \in DbOutcomes :
       /\ rows' = IF o \in Committed /\ ~Duplicate(p) THEN NewRow(p) ELSE rows
       /\ acked' = IF o \in {"ok", "reset"} THEN acked \cup {page[p].content} ELSE acked
       /\ page' = [page EXCEPT ![p] =
               IF o \in Answered THEN [@ EXCEPT !.pc = "start", !.name = None]
               ELSE IdlePage]
  /\ UNCHANGED <<file, run, restarts>>

(* Variant: an upload that the database does not take is begun again.      *)
RegisterRetrying(p) ==
  /\ page[p].pc = "register"
  /\ \E o \in DbOutcomes :
       LET inserted == o \in Committed /\ ~Duplicate(p)
       IN /\ rows' = IF inserted THEN NewRow(p) ELSE rows
          /\ memory' = IF inserted /\ o = "ok"
                       THEN [memory EXCEPT ![page[p].content] = Len(rows')] ELSE memory
          /\ acked' = IF o \in {"ok", "reset"} THEN acked \cup {page[p].content} ELSE acked
          /\ Goto(p, IF o \in Answered THEN "start" ELSE "open")
  /\ UNCHANGED <<file, run, restarts>>

(* registerUploadedDocument: a connection error it knows is answered 503;  *)
(* any other one, such as a duplicate key, is logged and the upload is     *)
(* answered 201 all the same, without an entry in the registry.            *)
Register(p) ==
  /\ page[p].pc = "register"
  /\ \E o \in DbOutcomes :
       LET inserted == o \in Committed /\ ~Duplicate(p)
       IN /\ rows' = IF inserted THEN NewRow(p) ELSE rows
          /\ memory' = IF inserted /\ o = "ok"
                       THEN [memory EXCEPT ![page[p].content] = Len(rows')] ELSE memory
          /\ acked' = IF o \in {"ok", "reset"} THEN acked \cup {page[p].content} ELSE acked
          /\ page' = [page EXCEPT ![p] =
               IF o \in Answered THEN [@ EXCEPT !.pc = "start", !.name = None]
               ELSE IdlePage]
  /\ UNCHANGED <<file, run, restarts>>

-----------------------------------------------------------------------------
(* The page starts a review of the document it has just uploaded.          *)

(* resolveUploadedDocument: the registry, else the newest row with the     *)
(* digest; 0 if there is none.                                             *)
Resolve(c) ==
  IF memory[c] # 0 THEN memory[c]
  ELSE IF RowsOf(c) = {} THEN 0
  ELSE CHOOSE i \in RowsOf(c) : \A j \in RowsOf(c) : j <= i

Remember(c) == memory' = [memory EXCEPT ![c] = Resolve(c)]

(* isKnownUploadedDocument.  The stub answers for an unknown document, the *)
(* lifecycle for a run it knows; both let the page go to its results.      *)
Lookup(p) ==
  /\ page[p].pc = "start"
  /\ LET c == page[p].content IN
       \/ /\ Remember(c)
          /\ IF Resolve(c) = 0 \/ c \in run THEN Rest(p) /\ UNCHANGED run
             ELSE Goto(p, "insert") /\ run' = run \cup {c}
       \/ /\ DbOutcomes # {"ok"}
          /\ memory[c] = 0
          /\ Rest(p)
          /\ UNCHANGED <<memory, run>>
  /\ UNCHANGED <<file, rows, restarts, acked>>

(* Variant: the run is attached to the newest document.                    *)
InsertRunNewest(p) ==
  /\ page[p].pc = "insert"
  /\ page' = [page EXCEPT ![p].pc = "extract", ![p].row = Len(rows)]
  /\ UNCHANGED <<file, rows, memory, run, restarts, acked>>

(* resolveThesisDocumentDbId, and the row of the run; without it the run   *)
(* has failed.                                                             *)
InsertRun(p) ==
  /\ page[p].pc = "insert"
  /\ \/ page' = [page EXCEPT ![p].pc = "extract", ![p].row = Resolve(page[p].content)]
     \/ DbOutcomes # {"ok"} /\ Rest(p)
  /\ UNCHANGED <<file, rows, memory, run, restarts, acked>>

(* extractViaWorker resolves the document once more and reads its file.    *)
Extract(p) ==
  /\ page[p].pc = "extract"
  /\ LET k == RowKey(Resolve(page[p].content)) IN
       page' = [page EXCEPT ![p].pc = "extracted", ![p].got = file[k]]
  /\ UNCHANGED <<file, rows, memory, run, restarts, acked>>

(* The rest of the review; then the page navigates to its run.             *)
Navigate(p) ==
  /\ page[p].pc = "extracted"
  /\ Rest(p)
  /\ UNCHANGED <<file, rows, memory, run, restarts, acked>>

(* The API restarts: the disk and the database stay, requests fail.        *)
Restart ==
  /\ restarts < MaxRestarts
  /\ restarts' = restarts + 1
  /\ memory' = [c \in Contents |-> 0]
  /\ run' = {}
  /\ page' = [p \in Pages |-> IdlePage]
  /\ UNCHANGED <<file, rows, acked>>

Store(p) ==
  \/ Reject(p) \/ OpenFile(p) \/ FillFile(p) \/ DiskError(p) \/ Register(p)

Review(p) == Lookup(p) \/ InsertRun(p) \/ Extract(p) \/ Navigate(p)

Next ==
  \/ \E p \in Pages : Submit(p) \/ Store(p) \/ Review(p)
  \/ Restart

(* The event loop and the network carry a request on; nobody must submit   *)
(* one, and nothing makes the API restart.                                 *)
Spec == Init /\ [][Next]_vars /\ \A p \in Pages : WF_vars(Store(p) \/ Review(p))

-----------------------------------------------------------------------------
(* Properties.                                                             *)

(* Every variable has its type.                                            *)
TypeOK ==
  /\ file \in [Objects -> [content : Contents, state : States] \cup {None}]
  /\ rows \in Seq([content : Contents, name : Names])
  /\ memory \in [Contents -> Nat]
  /\ run \subseteq Contents
  /\ page \in [Pages ->
       [pc : {"idle", "open", "fill", "register", "start",
              "insert", "extract", "extracted"},
        content : Contents \cup {None}, name : Names \cup {None},
        row : Nat, got : [content : Contents, state : States] \cup {None}]]
  /\ restarts \in 0 .. MaxRestarts
  /\ acked \subseteq Contents

(* A document that was acknowledged, and that the database took, is known  *)
(* to every later start, also when the acknowledgement followed from a     *)
(* duplicate, when the first upload was answered 503, when the answer of   *)
(* the database was lost, and after a restart.                             *)
AcknowledgedIsKnown == \A c \in acked : Resolve(c) # 0

(* A row never precedes its file: what is stored is on disk, at least the  *)
(* beginning of it, whatever uploads of the same file do to one another.   *)
RowsHaveFiles == \A i \in DOMAIN rows : file[RowKey(i)] # None

(* The registry never outruns the database and never mixes documents up:   *)
(* what it holds would be found again after a restart.                     *)
MemoryIsDurable ==
  \A c \in Contents : (memory[c] # 0) => memory[c] \in RowsOf(c)

(* The row of a run and the bytes it extracts belong to the document it    *)
(* was started for, although the document is looked up three times and the *)
(* registry may have changed in between.                                   *)
ReviewIsAboutItsDocument ==
  \A p \in Pages :
    /\ page[p].row # 0 => rows[page[p].row].content = page[p].content
    /\ page[p].got # None => page[p].got.content = page[p].content

(* A page leaves its submitting state again.                               *)
SubmissionEnds == \A p \in Pages : Submitting(p) ~> ~Submitting(p)

(* A comment of object-storage.mjs says that the bytes can be read back    *)
(* when a review is triggered in a follow-up request.                      *)
AcknowledgedBytesReadable ==
  \A p \in Pages : (page[p].got # None) => page[p].got.state = "whole"
=============================================================================
