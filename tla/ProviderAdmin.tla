---------------------------- MODULE ProviderAdmin ----------------------------
(***************************************************************************)
(* The LLM providers: the admin page, the requests it sends to             *)
(* admin-contract.mjs, the rows provider-config-repository.mjs keeps, and  *)
(* the reviews of live-review-pipeline.mjs that read them.                 *)
(*                                                                         *)
(* Postgres runs every request on a connection of its own, at READ         *)
(* COMMITTED: a statement sees the rows committed when it started, waits   *)
(* for the row locks of others and looks again at what it waited for, and  *)
(* the unique index waits for transactions that touch its entries.  row    *)
(* holds what is committed; what a transaction has done so far is in its   *)
(* request.                                                                *)
(*                                                                         *)
(* Of a row only the activity and the origin of its key are kept: the row  *)
(* the admin was editing when the key was typed.  Names, models, metadata  *)
(* and the encryption are left out, and so is the session gate.            *)
(***************************************************************************)
EXTENDS Naturals

CONSTANTS
  Ids,        \* row ids
  Initial,    \* the rows that are there when the page opens
  RoleOf,     \* the role of a row, fixed when it is created
  Slots,      \* requests of the page that may be in flight together
  Reviews,    \* review runs
  DbOutcomes, \* how a statement or commit may end: "ok", "error", "lost"
  None

Roles == {"judgment", "triage"}

ASSUME ProviderAssumption ==
  /\ Initial \subseteq Ids
  /\ RoleOf \in [Ids -> Roles]
  /\ "ok" \in DbOutcomes
  /\ DbOutcomes \subseteq {"ok", "error", "lost"}
  /\ None \notin Ids \cup {"new"}
  /\ \A a \in BOOLEAN, k \in Ids \cup {"new"} : None # [active |-> a, key |-> k]
  /\ "new" \notin Ids

VARIABLES
  row,      \* llm_provider_config, as committed
  req,      \* the requests of the page and the transactions they run
  page,     \* the list and the form of the page
  review    \* the reviews, and history: what was active since their start

vars == <<row, req, page, review>>

Keys == Ids \cup {"new"}
Row == [active : BOOLEAN, key : Keys]
Listing == [Ids -> {"absent", "active", "inactive"}]

Existing == {r \in Ids : row[r] # None}
Active(role) == {r \in Existing : row[r].active /\ RoleOf[r] = role}

NoRequest ==
  [kind |-> "none", pc |-> "idle", id |-> None, key |-> None,
   seen |-> {}, off |-> {}, on |-> FALSE, rows |-> None]

Sent(kind, id, key) ==
  [NoRequest EXCEPT !.kind = kind, !.pc = "sent", !.id = id, !.key = key]

EmptyForm == [editing |-> None, key |-> None]

NoReview ==
  [pc |-> "idle", since |-> [role \in Roles |-> {}], stale |-> FALSE]

(* Every table an admin can have left behind, and a page that has just     *)
(* asked for it.                                                           *)
Init ==
  /\ row \in [Ids -> Row \cup {None}]
  /\ Existing = Initial
  /\ \A r \in Initial : row[r].key = r
  /\ \A role \in Roles : \A r, s \in Active(role) : r = s
  /\ \E s \in Slots :
       req = [t \in Slots |-> IF t = s THEN Sent("list", None, None) ELSE NoRequest]
  /\ page = [list |-> None, submitting |-> FALSE, form |-> EmptyForm]
  /\ review = [q \in Reviews |-> NoReview]

-----------------------------------------------------------------------------
(* The page.                                                               *)

Free(s) == req[s].pc = "idle"
Shown == page.list # None

(* onEdit: the key field is emptied.  Variant: it keeps what was typed.    *)
EditKeeping(r) ==
  /\ Shown
  /\ page.list[r] # "absent"
  /\ page' = [page EXCEPT !.form.editing = r]
  /\ UNCHANGED <<row, req, review>>

Edit(r) ==
  /\ Shown
  /\ page.list[r] # "absent"
  /\ page' = [page EXCEPT !.form = [EmptyForm EXCEPT !.editing = r]]
  /\ UNCHANGED <<row, req, review>>

CancelEdit ==
  /\ page.form.editing # None
  /\ page' = [page EXCEPT !.form = EmptyForm]
  /\ UNCHANGED <<row, req, review>>

TypeKey ==
  /\ page.form.key = None
  /\ page' = [page EXCEPT !.form.key =
                IF page.form.editing = None THEN "new" ELSE page.form.editing]
  /\ UNCHANGED <<row, req, review>>

(* onSubmit: the button is disabled while a submission is running; the     *)
(* rest of the page is not.                                                *)
Submit(s) ==
  /\ Free(s)
  /\ ~page.submitting
  /\ req' = [req EXCEPT ![s] =
       IF page.form.editing = None THEN Sent("create", None, page.form.key)
       ELSE Sent("update", page.form.editing, page.form.key)]
  /\ page' = [page EXCEPT !.submitting = TRUE]
  /\ UNCHANGED <<row, review>>

Activate(s, r) ==
  /\ Free(s)
  /\ Shown
  /\ page.list[r] = "inactive"
  /\ req' = [req EXCEPT ![s] = Sent("activate", r, None)]
  /\ UNCHANGED <<row, page, review>>

(* loadProviders: the answer replaces the list, an error hides it until    *)
(* the next answer that does.                                              *)
ListArrives(s) ==
  /\ req[s].pc \in {"ok", "failed"}
  /\ req[s].kind = "list"
  /\ page' = [page EXCEPT !.list = req[s].rows]
  /\ req' = [req EXCEPT ![s] = NoRequest]
  /\ UNCHANGED <<row, review>>

(* A success reloads the list, and resets the form after a submission; any *)
(* failure ends in failForm.                                               *)
SaveArrives(s) ==
  /\ req[s].pc \in {"ok", "failed"}
  /\ req[s].kind # "list"
  /\ IF req[s].pc = "ok"
     THEN /\ req' = [req EXCEPT ![s] = Sent("list", None, None)]
          /\ page' = IF req[s].kind = "activate" THEN page
                     ELSE [page EXCEPT !.submitting = FALSE, !.form = EmptyForm]
     ELSE /\ req' = [req EXCEPT ![s] = NoRequest]
          /\ page' = [page EXCEPT !.submitting = FALSE]
  /\ UNCHANGED <<row, review>>

-----------------------------------------------------------------------------
(* The requests at the API and the database.                               *)

Locks(s) == IF req[s].pc \in {"locked", "deactivate", "activate", "commit"}
            THEN {req[s].id} \cup req[s].off ELSE {}

LockedByOther(s, ids) == \E t \in Slots \ {s} : Locks(t) \cap ids # {}

Ended(s, answer) == req' = [req EXCEPT ![s] =
  [NoRequest EXCEPT !.kind = req[s].kind, !.pc = answer]]

(* Every way a request may end that has not written anything.              *)
Fails(s) ==
  /\ DbOutcomes # {"ok"}
  /\ req[s].pc \in {"sent", "locked", "deactivate", "activate", "commit"}
  /\ Ended(s, "failed")
  /\ UNCHANGED <<row, page, review>>

List(s) ==
  /\ req[s].pc = "sent"
  /\ req[s].kind = "list"
  /\ req' = [req EXCEPT ![s].pc = "ok",
       ![s].rows = [r \in Ids |-> IF row[r] = None THEN "absent"
                                  ELSE IF row[r].active THEN "active" ELSE "inactive"]]
  /\ UNCHANGED <<row, page, review>>

(* What a committed statement answers: its outcome may be lost.            *)
Committed(s) == \E o \in DbOutcomes \ {"error"} : Ended(s, IF o = "ok" THEN "ok" ELSE "failed")

(* POST: a key is required; the row is not active.                         *)
Create(s) ==
  /\ req[s].pc = "sent"
  /\ req[s].kind = "create"
  /\ IF req[s].key = None
     THEN Ended(s, "failed") /\ UNCHANGED row
     ELSE /\ \E r \in Ids \ Existing :
               row' = [row EXCEPT ![r] = [active |-> FALSE, key |-> req[s].key]]
          /\ Committed(s)
  /\ UNCHANGED <<page, review>>

(* Variant: a key that was not typed is written as well.                   *)
UpdateErasing(s) ==
  /\ req[s].pc = "sent"
  /\ req[s].kind = "update"
  /\ ~LockedByOther(s, {req[s].id})
  /\ row' = [row EXCEPT ![req[s].id].key = req[s].key]
  /\ Committed(s)
  /\ UNCHANGED <<page, review>>

(* PATCH: without a key the stored one is kept; the update waits for the   *)
(* row's lock.                                                             *)
Update(s) ==
  /\ req[s].pc = "sent"
  /\ req[s].kind = "update"
  /\ ~LockedByOther(s, {req[s].id})
  /\ row' = IF req[s].key = None THEN row
            ELSE [row EXCEPT ![req[s].id].key = req[s].key]
  /\ Committed(s)
  /\ UNCHANGED <<page, review>>

(* activate: SELECT role ... FOR UPDATE.                                   *)
LockTarget(s) ==
  /\ req[s].pc = "sent"
  /\ req[s].kind = "activate"
  /\ ~LockedByOther(s, {req[s].id})
  /\ req' = [req EXCEPT ![s].pc = "locked"]
  /\ UNCHANGED <<row, page, review>>

(* Variant: the update of the other rows has lost its condition on the     *)
(* role.                                                                   *)
FindActiveAnyRole(s) ==
  /\ req[s].pc = "locked"
  /\ req' = [req EXCEPT ![s].pc = "deactivate",
                        ![s].seen = Active("judgment") \cup Active("triage")]
  /\ UNCHANGED <<row, page, review>>

(* Variant: it has lost its condition on is_active.                        *)
FindEveryRow(s) ==
  /\ req[s].pc = "locked"
  /\ req' = [req EXCEPT ![s].pc = "deactivate",
                 ![s].seen = {r \in Existing : RoleOf[r] = RoleOf[req[s].id]}]
  /\ UNCHANGED <<row, page, review>>

(* UPDATE ... WHERE is_active = true AND role = $1 takes its snapshot.     *)
FindActive(s) ==
  /\ req[s].pc = "locked"
  /\ req' = [req EXCEPT ![s].pc = "deactivate",
                        ![s].seen = Active(RoleOf[req[s].id])]
  /\ UNCHANGED <<row, page, review>>

(* It has the locks, and skips the rows that are no longer active.         *)
Deactivate(s) ==
  /\ req[s].pc = "deactivate"
  /\ ~LockedByOther(s, req[s].seen)
  /\ req' = [req EXCEPT ![s].pc = "activate", ![s].seen = {},
                        ![s].off = {r \in req[s].seen : row[r].active}]
  /\ UNCHANGED <<row, page, review>>

(* The unique index on (role) WHERE is_active waits for the transactions   *)
(* that change entries of the role, and rejects a second entry.            *)
IndexBusy(s) ==
  \E t \in Slots \ {s} :
    /\ req[t].on \/ req[t].off # {}
    /\ RoleOf[req[t].id] = RoleOf[req[s].id]

IndexConflict(s) == Active(RoleOf[req[s].id]) \ (req[s].off \cup {req[s].id}) # {}

(* Variant: the index of migration 0002 is dropped and not replaced.       *)
SetActiveUnindexed(s) ==
  /\ req[s].pc = "activate"
  /\ ~IndexBusy(s)
  /\ req' = [req EXCEPT ![s].pc = "commit", ![s].on = TRUE]
  /\ UNCHANGED <<row, page, review>>

(* UPDATE ... SET is_active = true WHERE id = $1; a conflict rolls back.   *)
SetActive(s) ==
  /\ req[s].pc = "activate"
  /\ ~IndexBusy(s)
  /\ IF IndexConflict(s) THEN Ended(s, "failed")
     ELSE req' = [req EXCEPT ![s].pc = "commit", ![s].on = TRUE]
  /\ UNCHANGED <<row, page, review>>

One(ids) == IF ids = {} THEN None ELSE CHOOSE r \in ids : TRUE

Commit(s) ==
  /\ req[s].pc = "commit"
  /\ row' = [r \in Ids |-> IF r = req[s].id THEN [row[r] EXCEPT !.active = TRUE]
                           ELSE IF r \in req[s].off THEN [row[r] EXCEPT !.active = FALSE]
                           ELSE row[r]]
  /\ Committed(s)
  /\ review' = [q \in Reviews |->
       [review[q] EXCEPT !.since = [role \in Roles |->
          IF @[role] = {} THEN {} ELSE @[role] \cup {One(Active(role)')}]]]
  /\ UNCHANGED page

-----------------------------------------------------------------------------
(* A review.                                                               *)

(* The run is started; extraction and rules come before the CAG review.    *)
Start(q) ==
  /\ review[q].pc = "idle"
  /\ review' = [review EXCEPT ![q] = [NoReview EXCEPT !.pc = "started",
       !.since = [role \in Roles |-> {One(Active(role))}]]]
  /\ UNCHANGED <<row, req, page>>

(* The review has what it needs, or throws; history: whether what it read  *)
(* has been active since it was started.                                   *)
Verdict(q, role, used) ==
  [review[q] EXCEPT !.stale = @ \/ used \notin review[q].since[role],
                    !.since[role] = {}]

Over(v) == [NoReview EXCEPT !.stale = v.stale]

ReadJudgmentOf(q, used) ==
  /\ review[q].pc = "started"
  /\ LET v == Verdict(q, "judgment", used)
     IN review' = [review EXCEPT ![q] =
                     IF used = None THEN Over(v) ELSE [v EXCEPT !.pc = "judged"]]
  /\ UNCHANGED <<row, req, page>>

(* Variant: the query has lost its condition on is_active.                 *)
ReadJudgmentAnyRow(q) ==
  ReadJudgmentOf(q, One({r \in Existing : RoleOf[r] = "judgment"}))

(* getActiveProvider("judgment"): without one the CAG review throws.       *)
ReadJudgment(q) == ReadJudgmentOf(q, One(Active("judgment")))

(* getActiveProvider("triage"), which is optional; then both go to the     *)
(* worker and into the provenance.                                         *)
ReadTriage(q) ==
  /\ review[q].pc = "judged"
  /\ review' = [review EXCEPT ![q] = Over(Verdict(q, "triage", One(Active("triage"))))]
  /\ UNCHANGED <<row, req, page>>

Handle(s) ==
  \/ List(s) \/ Create(s) \/ Update(s)
  \/ LockTarget(s) \/ FindActive(s) \/ Deactivate(s) \/ SetActive(s) \/ Commit(s)

Next ==
  \/ \E r \in Ids : Edit(r)
  \/ CancelEdit
  \/ TypeKey
  \/ \E s \in Slots : Submit(s) \/ (\E r \in Ids : Activate(s, r))
  \/ \E s \in Slots : ListArrives(s) \/ SaveArrives(s)
  \/ \E s \in Slots : Handle(s) \/ Fails(s)
  \/ \E q \in Reviews : Start(q) \/ ReadJudgment(q) \/ ReadTriage(q)

Spec == Init /\ [][Next]_vars

-----------------------------------------------------------------------------
(* Properties.                                                             *)

(* Every variable has its type.                                            *)
TypeOK ==
  /\ row \in [Ids -> Row \cup {None}]
  /\ req \in [Slots ->
       [kind : {"none", "list", "create", "update", "activate"},
        pc : {"idle", "sent", "locked", "deactivate", "activate", "commit", "ok", "failed"},
        id : Ids \cup {None}, key : Keys \cup {None}, seen : SUBSET Ids,
        off : SUBSET Ids, on : BOOLEAN, rows : Listing \cup {None}]]
  /\ page \in [list : Listing \cup {None}, submitting : BOOLEAN,
               form : [editing : Ids \cup {None}, key : Keys \cup {None}]]
  /\ review \in [Reviews ->
       [pc : {"idle", "started", "judged"},
        since : [Roles -> SUBSET (Ids \cup {None})],
        stale : BOOLEAN]]

(* However activations overlap, at most one row of a role is active.       *)
OneActivePerRole == \A role \in Roles : \A r, s \in Active(role) : r = s

(* Once a role has an active provider it always has one: an activation     *)
(* replaces it in one transaction, leaves the other role alone, and takes  *)
(* nothing away when it loses a race and is rolled back.                   *)
RoleStaysServed ==
  [][\A role \in Roles : Active(role) # {} => Active(role)' # {}]_vars

(* A review uses providers that were active at some moment since it was    *)
(* started, and finds none only if there was none: a switch takes effect   *)
(* on the next run.                                                        *)
SwitchTakesEffect == \A q \in Reviews : ~review[q].stale

(* The transactions never wait for one another in a circle: while requests *)
(* are at the database, one of them can go on.                             *)
Waiting(s) ==
  \/ req[s].pc = "sent" /\ req[s].kind \in {"update", "activate"}
     /\ LockedByOther(s, {req[s].id})
  \/ req[s].pc = "deactivate" /\ LockedByOther(s, req[s].seen)
  \/ req[s].pc = "activate" /\ IndexBusy(s)

NoDeadlock ==
  LET atDatabase == {s \in Slots : req[s].pc \notin {"idle", "ok", "failed"}}
  IN atDatabase # {} => \E s \in atDatabase : ~Waiting(s)

(* A key ends up in the row it was typed for and in no other, although the *)
(* form stays open while a submission is running and an answer may reset   *)
(* it under the admin's hands.                                             *)
KeyStaysWithItsRow ==
  \A r \in Existing : row[r].key \in IF r \in Initial THEN {r} ELSE {r, "new"}
=============================================================================
