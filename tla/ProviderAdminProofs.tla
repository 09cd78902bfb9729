------------------------ MODULE ProviderAdminProofs ------------------------
(***************************************************************************)
(* Proofs about ProviderAdmin, for any rows, any number of requests in     *)
(* flight and reviews, and whatever the database does.                     *)
(*                                                                         *)
(* The argument is about the unique index: a transaction that is about to  *)
(* commit has taken every other active row of its role down, and no other  *)
(* transaction has changed anything of that role.  That nobody waits       *)
(* forever is shown at the end: activations that look for active rows can  *)
(* be ranked by when they looked, and one only waits for a later one.      *)
(***************************************************************************)
EXTENDS ProviderAdmin, WellFoundedInduction, TLAPS

RequestRecord ==
  [kind : {"none", "list", "create", "update", "activate"},
   pc : {"idle", "sent", "locked", "deactivate", "activate", "commit", "ok", "failed"},
   id : Ids \cup {None}, key : Keys \cup {None}, seen : SUBSET Ids,
   off : SUBSET Ids, on : BOOLEAN, rows : Listing \cup {None}]

PageRecord ==
  [list : Listing \cup {None}, submitting : BOOLEAN,
   form : [editing : Ids \cup {None}, key : Keys \cup {None}]]

ReviewRecord ==
  [pc : {"idle", "started", "judged"},
   since : [Roles -> SUBSET (Ids \cup {None})], stale : BOOLEAN]

Writing == {"activate", "commit"}
InTransaction == {"locked", "deactivate"} \cup Writing

(* What a request holds: the row it is about is there, what it saw and     *)
(* takes down is of that row's role, and before the commit no other row of *)
(* the role is left active.                                                *)
TransactionInv(s) ==
  /\ (req[s].pc \in InTransaction) => req[s].kind = "activate"
  /\ (/\ req[s].kind \in {"update", "activate"}
      /\ req[s].pc \in InTransaction \cup {"sent"}) => req[s].id \in Existing
  /\ (req[s].pc \in InTransaction) =>
       \A r \in req[s].seen \cup req[s].off :
         r \in Existing /\ RoleOf[r] = RoleOf[req[s].id]
  /\ (req[s].pc # "deactivate") => req[s].seen = {}
  /\ (req[s].pc \notin Writing) => req[s].off = {}
  /\ req[s].on = (req[s].pc = "commit")
  /\ (req[s].pc = "commit") =>
       Active(RoleOf[req[s].id]) \subseteq req[s].off \cup {req[s].id}

(* A list names rows that are there, and a key belongs to the row it was   *)
(* typed for.                                                              *)
ContentInv(s) ==
  /\ (req[s].rows # None) => \A r \in Ids : (req[s].rows[r] # "absent") => r \in Existing
  /\ (req[s].kind = "create") => req[s].key \in {None, "new"}
  /\ (req[s].kind = "update") => req[s].key \in {None, req[s].id}

(* Nobody else has touched the role of a transaction that commits.         *)
Exclusive ==
  \A s, t \in Slots :
    (/\ s # t
     /\ req[s].pc = "commit"
     /\ req[t].pc \in Writing
     /\ RoleOf[req[s].id] = RoleOf[req[t].id]) =>
      req[t].pc = "activate" /\ req[t].off = {}

PageInv ==
  /\ (page.list # None) => \A r \in Ids : (page.list[r] # "absent") => r \in Existing
  /\ (page.form.editing = None) => page.form.key \in {None, "new"}
  /\ (page.form.editing # None) =>
       page.form.editing \in Existing /\ page.form.key \in {None, page.form.editing}

(* History: a review still to read a role knows what is active in it.      *)
ReviewInv ==
  \A q \in Reviews :
    /\ \A role \in Roles :
         (review[q].since[role] # {}) => One(Active(role)) \in review[q].since[role]
    /\ (review[q].pc = "started") => review[q].since["judgment"] # {}
    /\ (review[q].pc \in {"started", "judged"}) => review[q].since["triage"] # {}
    /\ ~review[q].stale

RowInv == OneActivePerRole /\ KeyStaysWithItsRow /\ Initial \subseteq Existing

RequestInv == (\A s \in Slots : TransactionInv(s) /\ ContentInv(s)) /\ Exclusive

Inv == TypeOK /\ RowInv /\ RequestInv /\ PageInv /\ ReviewInv

-----------------------------------------------------------------------------
(* Lemmas.                                                                 *)

LEMMA RowIsThere == \A x \in Row : x # None
  BY ProviderAssumption DEF Row, Keys

LEMMA TypeSplit ==
  TypeOK <=> /\ row \in [Ids -> Row \cup {None}]
             /\ req \in [Slots -> RequestRecord]
             /\ page \in PageRecord
             /\ review \in [Reviews -> ReviewRecord]
  BY DEF TypeOK, RequestRecord, PageRecord, ReviewRecord

LEMMA NoRequestIsRequest == NoRequest \in RequestRecord
  BY DEF NoRequest, RequestRecord

(* The choice among one row is that row.                                   *)
LEMMA OneOf ==
  ASSUME NEW ids
  PROVE  /\ (ids = {}) => One(ids) = None
         /\ (ids # {}) => One(ids) \in ids
  BY DEF One

LEMMA ActiveRows ==
  ASSUME NEW role
  PROVE  /\ Active(role) \subseteq Existing
         /\ Existing \subseteq Ids
         /\ \A r \in Active(role) : RoleOf[r] = role
  BY DEF Active, Existing

(* A step that leaves every row and what is active as it was, apart from   *)
(* rows that are new or whose key is changed.                              *)
Calm == /\ Existing \subseteq Existing'
        /\ \A role : Active(role)' = Active(role)

LEMMA RowsUntouched ==
  ASSUME UNCHANGED row
  PROVE  Calm /\ (RowInv => RowInv')
<1>1. Existing' = Existing
  BY DEF Existing
<1>2. \A role : Active(role)' = Active(role)
  BY <1>1 DEF Active
<1>3. KeyStaysWithItsRow => KeyStaysWithItsRow'
  BY <1>1 DEF KeyStaysWithItsRow
<1>4. OneActivePerRole => OneActivePerRole'
  BY <1>2 DEF OneActivePerRole
<1>5. QED
  BY <1>1, <1>2, <1>3, <1>4 DEF Calm, RowInv

LEMMA ReviewsUntouched ==
  ASSUME ReviewInv, UNCHANGED review, Calm
  PROVE  ReviewInv'
  BY DEF ReviewInv, Calm

LEMMA PageUntouched ==
  ASSUME PageInv, UNCHANGED page, Existing \subseteq Existing'
  PROVE  PageInv'
  BY DEF PageInv

(* A request is not disturbed by a step that leaves it alone.              *)
LEMMA Bystander ==
  ASSUME NEW s \in Slots, TransactionInv(s), ContentInv(s), req'[s] = req[s],
         Existing \subseteq Existing',
         (req[s].pc = "commit") =>
           Active(RoleOf[req[s].id])' \subseteq Active(RoleOf[req[s].id])
  PROVE  TransactionInv(s)' /\ ContentInv(s)'
<1>1. ContentInv(s)'
  BY DEF ContentInv
<1>2. TransactionInv(s)'
  BY DEF TransactionInv
<1>3. QED
  BY <1>1, <1>2

(* A step of one request, after which it is writing nothing, in a calm     *)
(* table.                                                                  *)
LEMMA OneRequest ==
  ASSUME TypeOK, RequestInv, NEW s \in Slots, NEW x \in RequestRecord,
         req' = [req EXCEPT ![s] = x], x.pc \notin Writing, Calm,
         TransactionInv(s)', ContentInv(s)'
  PROVE  /\ req' \in [Slots -> RequestRecord]
         /\ RequestInv'
<1>1. req \in [Slots -> RequestRecord]
  BY TypeSplit
<1>2. /\ req' \in [Slots -> RequestRecord]
      /\ req'[s] = x
      /\ \A t \in Slots \ {s} : req'[t] = req[t]
  BY <1>1
<1>3. ASSUME NEW t \in Slots \ {s} PROVE TransactionInv(t)' /\ ContentInv(t)'
  <2>1. Active(RoleOf[req[t].id])' \subseteq Active(RoleOf[req[t].id])
    BY <1>2 DEF Calm, Active
  <2>2. QED
    BY <2>1, <1>2, Bystander DEF RequestInv, Calm
<1>4. Exclusive'
  BY <1>2 DEF Exclusive, RequestInv, Writing
<1>5. QED
  BY <1>2, <1>3, <1>4 DEF RequestInv

(* The end of a request, and a request that has just been sent.            *)
LEMMA EndedRequest ==
  ASSUME TypeOK, RequestInv, NEW s \in Slots, NEW a \in {"ok", "failed"}, Ended(s, a), Calm
  PROVE  req' \in [Slots -> RequestRecord] /\ RequestInv'
<1> DEFINE x == [NoRequest EXCEPT !.kind = req[s].kind, !.pc = a]
<1>1. req \in [Slots -> RequestRecord]
  BY TypeSplit
<1>2. /\ x \in RequestRecord /\ x.pc = a /\ x.key = None /\ x.id = None
      /\ x.seen = {} /\ x.off = {} /\ x.on = FALSE /\ x.rows = None
  BY <1>1 DEF RequestRecord, NoRequest
<1>3. req' = [req EXCEPT ![s] = x]
  BY DEF Ended
<1> HIDE DEF x
<1>4. req'[s] = x
  BY <1>1, <1>3
<1>5. TransactionInv(s)' /\ ContentInv(s)'
  BY <1>2, <1>4 DEF TransactionInv, ContentInv, InTransaction, Writing
<1>6. QED
  BY <1>2, <1>3, <1>5, OneRequest DEF Writing

LEMMA ForgottenRequest ==
  ASSUME TypeOK, RequestInv, NEW s \in Slots, req' = [req EXCEPT ![s] = NoRequest], Calm
  PROVE  req' \in [Slots -> RequestRecord] /\ RequestInv'
<1>1. /\ req'[s].kind = "none" /\ req'[s].pc = "idle" /\ req'[s].off = {} /\ req'[s].seen = {}
      /\ req'[s].on = FALSE /\ req'[s].rows = None
  BY TypeSplit DEF NoRequest
<1>2. TransactionInv(s)' /\ ContentInv(s)'
  BY <1>1 DEF TransactionInv, ContentInv, InTransaction, Writing
<1>3. NoRequest.pc \notin Writing
  BY DEF NoRequest, Writing
<1>4. QED
  BY <1>2, <1>3, NoRequestIsRequest, OneRequest

LEMMA SentRequest ==
  ASSUME TypeOK, RequestInv, NEW s \in Slots, NEW kind \in {"list", "create", "update", "activate"},
         NEW id \in Ids \cup {None}, NEW key \in Keys \cup {None},
         req' = [req EXCEPT ![s] = Sent(kind, id, key)], Calm,
         kind \in {"update", "activate"} => id \in Existing,
         kind = "create" => key \in {None, "new"},
         kind = "update" => key \in {None, id}
  PROVE  req' \in [Slots -> RequestRecord] /\ RequestInv'
<1> DEFINE x == Sent(kind, id, key)
<1>1. /\ x \in RequestRecord /\ x.pc = "sent" /\ x.kind = kind /\ x.id = id /\ x.key = key
      /\ x.seen = {} /\ x.off = {} /\ x.on = FALSE /\ x.rows = None
  BY DEF Sent, RequestRecord, NoRequest
<1> HIDE DEF x
<1>2. req' = [req EXCEPT ![s] = x] /\ req'[s] = x
  BY TypeSplit DEF x
<1>3. TransactionInv(s)' /\ ContentInv(s)'
  <2>1. (kind \in {"update", "activate"}) => id \in Existing'
    BY DEF Calm
  <2>2. TransactionInv(s)'
    BY <1>1, <1>2, <2>1 DEF TransactionInv, InTransaction, Writing
  <2>3. ContentInv(s)'
    BY <1>1, <1>2 DEF ContentInv
  <2>4. QED
    BY <2>2, <2>3
<1>4. QED
  BY <1>1, <1>2, <1>3, OneRequest DEF Writing

LEMMA Assembled ==
  ASSUME row' \in [Ids -> Row \cup {None}], req' \in [Slots -> RequestRecord],
         page' \in PageRecord, review' \in [Reviews -> ReviewRecord],
         RowInv', RequestInv', PageInv', ReviewInv'
  PROVE  Inv'
  BY DEF Inv, TypeOK, RequestRecord, PageRecord, ReviewRecord

(* A step that touches no row and no review.                               *)
LEMMA RequestStep ==
  ASSUME Inv, UNCHANGED <<row, review>>,
         req' \in [Slots -> RequestRecord], RequestInv',
         page' \in PageRecord, PageInv'
  PROVE  Inv'
<1>1. Calm /\ RowInv'
  BY RowsUntouched DEF Inv
<1>2. ReviewInv'
  BY <1>1, ReviewsUntouched DEF Inv
<1>3. row' \in [Ids -> Row \cup {None}] /\ review' \in [Reviews -> ReviewRecord]
  BY TypeSplit DEF Inv
<1>4. QED
  BY <1>1, <1>2, <1>3, Assembled

LEMMA QuietPage ==
  ASSUME Inv, UNCHANGED page, Calm
  PROVE  page' \in PageRecord /\ PageInv'
  BY TypeSplit, PageUntouched DEF Inv, Calm

(* A step of the page that sends nothing.                                  *)
LEMMA PageStep ==
  ASSUME Inv, UNCHANGED <<row, req, review>>, page' \in PageRecord, PageInv'
  PROVE  Inv'
<1>1. Existing' = Existing /\ \A role : Active(role)' = Active(role)
  BY DEF Existing, Active
<1>2. RequestInv'
  BY <1>1 DEF Inv, RequestInv, TransactionInv, ContentInv, Exclusive
<1>3. req' \in [Slots -> RequestRecord]
  BY TypeSplit DEF Inv
<1>4. QED
  BY <1>2, <1>3, RequestStep

-----------------------------------------------------------------------------
(* The steps of the page.                                                  *)

LEMMA EditStep ==
  ASSUME Inv, NEW r \in Ids, Edit(r)
  PROVE  Inv'
<1>1. page \in PageRecord /\ r \in Existing
  BY TypeSplit DEF Inv, PageInv, Edit, Shown
<1>2. /\ page'.list = page.list /\ page'.submitting = page.submitting
      /\ page'.form = [EmptyForm EXCEPT !.editing = r]
      /\ page' = [list |-> page'.list, submitting |-> page'.submitting, form |-> page'.form]
  BY <1>1 DEF Edit, PageRecord
<1>3. /\ page'.form.editing = r /\ page'.form.key = None
      /\ page'.form \in [editing : Ids \cup {None}, key : Keys \cup {None}]
  BY <1>2 DEF EmptyForm
<1>4. page' \in PageRecord
  BY <1>1, <1>2, <1>3 DEF PageRecord
<1>5. Existing' = Existing
  BY DEF Edit, Existing
<1>6. PageInv'
  BY <1>1, <1>2, <1>3, <1>5 DEF Inv, PageInv
<1>7. QED
  BY <1>4, <1>6, PageStep DEF Edit

(* The form is emptied.                                                    *)
LEMMA EmptiedForm ==
  ASSUME Inv, Existing' = Existing, NEW b \in BOOLEAN,
         page' = [page EXCEPT !.submitting = b, !.form = EmptyForm]
  PROVE  page' \in PageRecord /\ PageInv'
<1>1. page \in PageRecord
  BY TypeSplit DEF Inv
<1>2. EmptyForm \in [editing : Ids \cup {None}, key : Keys \cup {None}]
  BY DEF EmptyForm
<1>3. EmptyForm.editing = None /\ EmptyForm.key = None
  BY DEF EmptyForm
<1>4. page' \in PageRecord /\ page'.list = page.list /\ page'.form = EmptyForm
  BY <1>1, <1>2 DEF PageRecord
<1>5. PageInv'
  BY <1>3, <1>4 DEF Inv, PageInv
<1>6. QED
  BY <1>4, <1>5

LEMMA CancelEditStep ==
  ASSUME Inv, CancelEdit
  PROVE  Inv'
<1>1. page \in PageRecord
  BY TypeSplit DEF Inv
<1>2. page' = [page EXCEPT !.submitting = page.submitting, !.form = EmptyForm]
  BY <1>1 DEF CancelEdit, PageRecord
<1>3. page.submitting \in BOOLEAN /\ Existing' = Existing
  BY <1>1 DEF PageRecord, CancelEdit, Existing
<1>4. page' \in PageRecord /\ PageInv'
  BY <1>2, <1>3, EmptiedForm
<1>5. QED
  BY <1>4, PageStep DEF CancelEdit

LEMMA TypeKeyStep ==
  ASSUME Inv, TypeKey
  PROVE  Inv'
<1> DEFINE k == IF page.form.editing = None THEN "new" ELSE page.form.editing
<1>1. page \in PageRecord
  BY TypeSplit DEF Inv
<1>2. k \in Keys
  BY <1>1 DEF PageRecord, Keys
<1>3. page' = [page EXCEPT !.form.key = k]
  BY DEF TypeKey
<1>4. (page.form.editing = None) => k = "new"
  OBVIOUS
<1>5. (page.form.editing # None) => k = page.form.editing
  OBVIOUS
<1> HIDE DEF k
<1>6. /\ page' \in PageRecord /\ page'.list = page.list
      /\ page'.form.editing = page.form.editing /\ page'.form.key = k
  BY <1>1, <1>2, <1>3 DEF PageRecord
<1>7. Existing' = Existing
  BY DEF TypeKey, Existing
<1>8. PageInv'
  BY <1>4, <1>5, <1>6, <1>7 DEF Inv, PageInv
<1>9. QED
  BY <1>6, <1>8, PageStep DEF TypeKey

(* The submitting flag means nothing to the invariant.                     *)
LEMMA FlaggedPage ==
  ASSUME Inv, Existing' = Existing, NEW b \in BOOLEAN, page' = [page EXCEPT !.submitting = b]
  PROVE  page' \in PageRecord /\ PageInv'
<1>1. page \in PageRecord
  BY TypeSplit DEF Inv
<1>2. page' \in PageRecord /\ page'.list = page.list /\ page'.form = page.form
  BY <1>1 DEF PageRecord
<1>3. QED
  BY <1>2 DEF Inv, PageInv

LEMMA SubmitStep ==
  ASSUME Inv, NEW s \in Slots, Submit(s)
  PROVE  Inv'
<1>1. page \in PageRecord /\ TypeOK /\ RequestInv
  BY TypeSplit DEF Inv
<1>2. Calm /\ Existing' = Existing
  BY RowsUntouched DEF Submit, Existing
<1>3. req' \in [Slots -> RequestRecord] /\ RequestInv'
  <2>1. CASE page.form.editing = None
    <3>1. req' = [req EXCEPT ![s] = Sent("create", None, page.form.key)]
      BY <2>1 DEF Submit
    <3>2. page.form.key \in {None, "new"} /\ page.form.key \in Keys \cup {None}
      BY <2>1, <1>1 DEF Inv, PageInv, PageRecord
    <3>3. QED
      BY <1>1, <1>2, <3>1, <3>2, SentRequest
  <2>2. CASE page.form.editing # None
    <3>1. req' = [req EXCEPT ![s] = Sent("update", page.form.editing, page.form.key)]
      BY <2>2 DEF Submit
    <3>2. /\ page.form.editing \in Existing /\ page.form.editing \in Ids
          /\ page.form.key \in {None, page.form.editing} /\ page.form.key \in Keys \cup {None}
      BY <2>2, <1>1 DEF Inv, PageInv, PageRecord
    <3>3. QED
      BY <1>1, <1>2, <3>1, <3>2, SentRequest
  <2>3. QED
    BY <2>1, <2>2
<1>4. page' \in PageRecord /\ PageInv'
  BY <1>2, FlaggedPage DEF Submit
<1>5. QED
  BY <1>3, <1>4, RequestStep DEF Submit

LEMMA ActivateStep ==
  ASSUME Inv, NEW s \in Slots, NEW r \in Ids, Activate(s, r)
  PROVE  Inv'
<1>1. r \in Existing
  BY DEF Inv, PageInv, Activate, Shown
<1>2. Calm
  BY RowsUntouched DEF Activate
<1>3. req' \in [Slots -> RequestRecord] /\ RequestInv'
  BY <1>1, <1>2, SentRequest DEF Activate, Inv
<1>4. QED
  BY <1>2, <1>3, QuietPage, RequestStep DEF Activate

LEMMA ListArrivesStep ==
  ASSUME Inv, NEW s \in Slots, ListArrives(s)
  PROVE  Inv'
<1>1. page \in PageRecord /\ req \in [Slots -> RequestRecord]
  BY TypeSplit DEF Inv
<1>2. Calm /\ Existing' = Existing
  BY RowsUntouched DEF ListArrives, Existing
<1>3. req' \in [Slots -> RequestRecord] /\ RequestInv'
  BY <1>2, ForgottenRequest DEF ListArrives, Inv
<1>4. req[s].rows \in Listing \cup {None}
  BY <1>1 DEF RequestRecord
<1>5. page' \in PageRecord /\ page'.list = req[s].rows /\ page'.form = page.form
  BY <1>1, <1>4 DEF PageRecord, ListArrives
<1>6. PageInv'
  BY <1>2, <1>5 DEF Inv, PageInv, RequestInv, ContentInv
<1>7. QED
  BY <1>3, <1>5, <1>6, RequestStep DEF ListArrives

LEMMA SaveArrivesStep ==
  ASSUME Inv, NEW s \in Slots, SaveArrives(s)
  PROVE  Inv'
<1>1. Calm /\ Existing' = Existing
  BY RowsUntouched DEF SaveArrives, Existing
<1>2. req' \in [Slots -> RequestRecord] /\ RequestInv'
  <2>1. CASE req[s].pc = "ok"
    <3>1. req' = [req EXCEPT ![s] = Sent("list", None, None)]
      BY <2>1 DEF SaveArrives
    <3>2. QED
      BY <1>1, <3>1, SentRequest DEF Inv
  <2>2. CASE req[s].pc # "ok"
    <3>1. req' = [req EXCEPT ![s] = NoRequest]
      BY <2>2 DEF SaveArrives
    <3>2. QED
      BY <1>1, <3>1, ForgottenRequest DEF Inv
  <2>3. QED
    BY <2>1, <2>2
<1>3. page' \in PageRecord /\ PageInv'
  <2>1. CASE page' = page
    BY <2>1, <1>1, QuietPage
  <2>2. CASE page' = [page EXCEPT !.submitting = FALSE, !.form = EmptyForm]
    BY <2>2, <1>1, EmptiedForm
  <2>3. CASE page' = [page EXCEPT !.submitting = FALSE]
    BY <2>3, <1>1, FlaggedPage
  <2>4. QED
    BY <2>1, <2>2, <2>3 DEF SaveArrives
<1>4. QED
  BY <1>2, <1>3, RequestStep DEF SaveArrives

-----------------------------------------------------------------------------
(* The steps of the database.                                              *)

LEMMA FailsStep ==
  ASSUME Inv, NEW s \in Slots, Fails(s)
  PROVE  Inv'
<1>1. Calm
  BY RowsUntouched DEF Fails
<1>2. req' \in [Slots -> RequestRecord] /\ RequestInv'
  BY <1>1, EndedRequest DEF Fails, Inv
<1>3. QED
  BY <1>1, <1>2, QuietPage, RequestStep DEF Fails

(* A request that goes on without writing.                                 *)
LEMMA GoesOn ==
  ASSUME Inv, NEW s \in Slots, UNCHANGED <<row, page, review>>,
         NEW x \in RequestRecord, req' = [req EXCEPT ![s] = x],
         x.pc \notin Writing, TransactionInv(s)', ContentInv(s)'
  PROVE  Inv'
<1>1. Calm
  BY RowsUntouched
<1>2. req' \in [Slots -> RequestRecord] /\ RequestInv'
  BY <1>1, OneRequest DEF Inv
<1>3. QED
  BY <1>1, <1>2, QuietPage, RequestStep

LEMMA ListStep ==
  ASSUME Inv, NEW s \in Slots, List(s)
  PROVE  Inv'
<1> DEFINE l == [r \in Ids |-> IF row[r] = None THEN "absent"
                               ELSE IF row[r].active THEN "active" ELSE "inactive"]
           x == [req[s] EXCEPT !.pc = "ok", !.rows = l]
<1>1. l \in Listing
  BY DEF Listing
<1>2. \A r \in Ids : (l[r] # "absent") => r \in Existing
  BY DEF Existing
<1>3. req[s] \in RequestRecord
  BY TypeSplit DEF Inv
<1>4. req' = [req EXCEPT ![s].pc = "ok", ![s].rows = l]
  BY DEF List
<1> HIDE DEF l
<1>5. /\ x \in RequestRecord /\ x.pc = "ok" /\ x.rows = l /\ x.kind = "list"
      /\ x.seen = req[s].seen /\ x.off = req[s].off /\ x.on = req[s].on
  BY <1>1, <1>3 DEF RequestRecord, List
<1>6. req' = [req EXCEPT ![s] = x] /\ req'[s] = x
  BY <1>4, TypeSplit DEF Inv
<1> HIDE DEF x
<1>7. Existing' = Existing
  BY DEF List, Existing
<1>8. TransactionInv(s) /\ req[s].pc = "sent"
  BY DEF Inv, RequestInv, List
<1>9. TransactionInv(s)'
  BY <1>5, <1>6, <1>8 DEF TransactionInv, Writing, InTransaction
<1>10. ContentInv(s)'
  BY <1>2, <1>5, <1>6, <1>7 DEF ContentInv
<1>11. QED
  BY <1>5, <1>6, <1>9, <1>10, GoesOn DEF List, Writing

LEMMA LockTargetStep ==
  ASSUME Inv, NEW s \in Slots, LockTarget(s)
  PROVE  Inv'
<1> DEFINE x == [req[s] EXCEPT !.pc = "locked"]
<1>1. req[s] \in RequestRecord
  BY TypeSplit DEF Inv
<1>2. /\ x \in RequestRecord /\ x.pc = "locked" /\ x.kind = "activate" /\ x.id = req[s].id
      /\ x.seen = req[s].seen /\ x.off = req[s].off /\ x.on = req[s].on
      /\ x.rows = req[s].rows /\ x.key = req[s].key
  BY <1>1 DEF RequestRecord, LockTarget
<1>3. req' = [req EXCEPT ![s] = x] /\ req'[s] = x
  BY TypeSplit DEF Inv, LockTarget
<1> HIDE DEF x
<1>4. Existing' = Existing
  BY DEF LockTarget, Existing
<1>5. TransactionInv(s) /\ ContentInv(s) /\ req[s].pc = "sent" /\ req[s].kind = "activate"
  BY DEF Inv, RequestInv, LockTarget
<1>6. TransactionInv(s)'
  BY <1>2, <1>3, <1>4, <1>5 DEF TransactionInv, Writing, InTransaction
<1>7. ContentInv(s)'
  BY <1>2, <1>3, <1>4, <1>5 DEF ContentInv
<1>8. QED
  BY <1>2, <1>3, <1>6, <1>7, GoesOn DEF LockTarget, Writing

LEMMA FindActiveStep ==
  ASSUME Inv, NEW s \in Slots, FindActive(s)
  PROVE  Inv'
<1> DEFINE a == Active(RoleOf[req[s].id])
           x == [req[s] EXCEPT !.pc = "deactivate", !.seen = a]
<1>1. req[s] \in RequestRecord
  BY TypeSplit DEF Inv
<1>2. a \subseteq Ids /\ \A r \in a : r \in Existing /\ RoleOf[r] = RoleOf[req[s].id]
  BY ActiveRows
<1>3. req' = [req EXCEPT ![s].pc = "deactivate", ![s].seen = a]
  BY DEF FindActive
<1> HIDE DEF a
<1>4. /\ x \in RequestRecord /\ x.pc = "deactivate" /\ x.kind = req[s].kind /\ x.id = req[s].id
      /\ x.seen = a /\ x.off = req[s].off /\ x.on = req[s].on
      /\ x.rows = req[s].rows /\ x.key = req[s].key
  BY <1>1, <1>2 DEF RequestRecord
<1>5. req' = [req EXCEPT ![s] = x] /\ req'[s] = x
  BY <1>3, TypeSplit DEF Inv
<1> HIDE DEF x
<1>6. Existing' = Existing
  BY DEF FindActive, Existing
<1>7. TransactionInv(s) /\ ContentInv(s) /\ req[s].pc = "locked"
  BY DEF Inv, RequestInv, FindActive
<1>8. TransactionInv(s)'
  BY <1>2, <1>4, <1>5, <1>6, <1>7 DEF TransactionInv, Writing, InTransaction
<1>9. ContentInv(s)'
  BY <1>4, <1>5, <1>6, <1>7 DEF ContentInv
<1>10. QED
  BY <1>4, <1>5, <1>8, <1>9, GoesOn DEF FindActive, Writing

(* A request that begins or goes on to write: nobody else has touched the  *)
(* role of a commit.                                                       *)
LEMMA Writes ==
  ASSUME Inv, NEW s \in Slots, UNCHANGED <<row, page, review>>,
         NEW x \in RequestRecord, req' = [req EXCEPT ![s] = x],
         TransactionInv(s)', ContentInv(s)', Exclusive'
  PROVE  Inv'
<1>1. Calm
  BY RowsUntouched
<1>2. req' \in [Slots -> RequestRecord] /\ \A t \in Slots \ {s} : req'[t] = req[t]
  BY TypeSplit DEF Inv
<1>3. ASSUME NEW t \in Slots \ {s} PROVE TransactionInv(t)' /\ ContentInv(t)'
  <2>1. Active(RoleOf[req[t].id])' \subseteq Active(RoleOf[req[t].id])
    BY <1>1, <1>2 DEF Calm, Active
  <2>2. QED
    BY <2>1, <1>1, <1>2, Bystander DEF Inv, RequestInv, Calm
<1>4. RequestInv'
  BY <1>3 DEF RequestInv
<1>5. QED
  BY <1>1, <1>2, <1>4, QuietPage, RequestStep

(* The rows a request takes down are not those of a transaction that is    *)
(* about to commit: those are locked, and no other row of its role is      *)
(* active.                                                                 *)
LEMMA DeactivateStep ==
  ASSUME Inv, NEW s \in Slots, Deactivate(s)
  PROVE  Inv'
<1> DEFINE d == {r \in req[s].seen : row[r].active}
           x == [req[s] EXCEPT !.pc = "activate", !.seen = {}, !.off = d]
<1>1. req[s] \in RequestRecord
  BY TypeSplit DEF Inv
<1>2. TransactionInv(s) /\ ContentInv(s) /\ req[s].pc = "deactivate"
  BY DEF Inv, RequestInv, Deactivate
<1>3. \A r \in d : r \in req[s].seen /\ r \in Existing /\ RoleOf[r] = RoleOf[req[s].id]
                   /\ r \in Active(RoleOf[req[s].id])
  BY <1>2 DEF TransactionInv, InTransaction, Active
<1>4. d \subseteq Ids
  BY <1>3 DEF Existing
<1>5. req' = [req EXCEPT ![s].pc = "activate", ![s].seen = {}, ![s].off = d]
  BY DEF Deactivate
<1> HIDE DEF d
<1>6. /\ x \in RequestRecord /\ x.pc = "activate" /\ x.kind = req[s].kind /\ x.id = req[s].id
      /\ x.seen = {} /\ x.off = d /\ x.on = req[s].on
      /\ x.rows = req[s].rows /\ x.key = req[s].key
  BY <1>1, <1>4 DEF RequestRecord
<1>7. /\ req' = [req EXCEPT ![s] = x] /\ req'[s] = x
      /\ \A t \in Slots \ {s} : req'[t] = req[t]
  BY <1>5, TypeSplit DEF Inv
<1> HIDE DEF x
<1>8. Existing' = Existing
  BY DEF Deactivate, Existing
<1>9. TransactionInv(s)'
  BY <1>2, <1>3, <1>6, <1>7, <1>8 DEF TransactionInv, Writing, InTransaction
<1>10. ContentInv(s)'
  BY <1>2, <1>6, <1>7, <1>8 DEF ContentInv
<1>11. ASSUME NEW t \in Slots \ {s}, req[t].pc = "commit",
              RoleOf[req[t].id] = RoleOf[req[s].id]
       PROVE  d = {}
  <2>1. Active(RoleOf[req[s].id]) \subseteq req[t].off \cup {req[t].id}
    BY <1>11 DEF Inv, RequestInv, TransactionInv
  <2>2. Locks(t) = {req[t].id} \cup req[t].off
    BY <1>11 DEF Locks
  <2>3. ~LockedByOther(s, req[s].seen)
    BY DEF Deactivate
  <2>4. QED
    BY <1>3, <2>1, <2>2, <2>3 DEF LockedByOther
<1>12. Exclusive'
  BY <1>6, <1>7, <1>11 DEF Exclusive, Inv, RequestInv, Writing
<1>13. QED
  BY <1>6, <1>7, <1>9, <1>10, <1>12, Writes DEF Deactivate

(* The unique index lets one transaction of a role through at a time, and  *)
(* only if it leaves no other row of the role active.                      *)
LEMMA SetActiveStep ==
  ASSUME Inv, NEW s \in Slots, SetActive(s)
  PROVE  Inv'
<1>1. CASE IndexConflict(s)
  <2>1. Calm
    BY RowsUntouched DEF SetActive
  <2>2. Ended(s, "failed")
    BY <1>1 DEF SetActive
  <2>3. req' \in [Slots -> RequestRecord] /\ RequestInv'
    BY <2>1, <2>2, EndedRequest DEF Inv
  <2>4. QED
    BY <2>1, <2>3, QuietPage, RequestStep DEF SetActive
<1>2. CASE ~IndexConflict(s)
  <2> DEFINE x == [req[s] EXCEPT !.pc = "commit", !.on = TRUE]
  <2>1. req[s] \in RequestRecord
    BY TypeSplit DEF Inv
  <2>2. /\ x \in RequestRecord /\ x.pc = "commit" /\ x.kind = req[s].kind /\ x.id = req[s].id
        /\ x.seen = req[s].seen /\ x.off = req[s].off /\ x.on = TRUE
        /\ x.rows = req[s].rows /\ x.key = req[s].key
    BY <2>1 DEF RequestRecord
  <2>3. /\ req' = [req EXCEPT ![s] = x] /\ req'[s] = x
        /\ \A t \in Slots \ {s} : req'[t] = req[t]
    BY <1>2, TypeSplit DEF Inv, SetActive
  <2> HIDE DEF x
  <2>4. Existing' = Existing
    BY DEF SetActive, Existing
  <2>5. Active(RoleOf[req[s].id])' = Active(RoleOf[req[s].id])
    BY <2>2, <2>3, <2>4 DEF SetActive, Active
  <2>6. TransactionInv(s) /\ ContentInv(s) /\ req[s].pc = "activate"
    BY DEF Inv, RequestInv, SetActive
  <2>7. Active(RoleOf[req[s].id]) \subseteq req[s].off \cup {req[s].id}
    BY <1>2 DEF IndexConflict
  <2>8. TransactionInv(s)'
    <3>1. Active(RoleOf[req[s].id])' \subseteq req'[s].off \cup {req'[s].id}
      BY <2>2, <2>3, <2>5, <2>7
    <3>2. \A r \in req'[s].seen \cup req'[s].off :
            r \in Existing' /\ RoleOf[r] = RoleOf[req'[s].id]
      BY <2>2, <2>3, <2>4, <2>6 DEF TransactionInv, Writing, InTransaction
    <3>3. /\ req'[s].kind = "activate" /\ req'[s].id \in Existing' /\ req'[s].seen = {}
          /\ req'[s].pc = "commit" /\ req'[s].on = TRUE
      BY <2>2, <2>3, <2>4, <2>6 DEF TransactionInv, Writing, InTransaction
    <3>4. QED
      BY <3>1, <3>2, <3>3 DEF TransactionInv, Writing, InTransaction
  <2>9. ContentInv(s)'
    BY <2>2, <2>3, <2>4, <2>6 DEF ContentInv
  <2>10. ASSUME NEW t \in Slots \ {s}, RoleOf[req[t].id] = RoleOf[req[s].id]
         PROVE  req[t].off = {} /\ req[t].pc # "commit"
    <3>1. ~req[t].on /\ req[t].off = {}
      BY <2>10 DEF SetActive, IndexBusy
    <3>2. QED
      BY <3>1 DEF Inv, RequestInv, TransactionInv
  <2>11. Exclusive'
    BY <2>2, <2>3, <2>10 DEF Exclusive, Inv, RequestInv, Writing
  <2>12. QED
    BY <2>2, <2>3, <2>8, <2>9, <2>11, Writes DEF SetActive
<1>3. QED
  BY <1>1, <1>2

(* A statement that commits and does not change what is active.            *)
LEMMA CalmWrite ==
  ASSUME Inv, NEW s \in Slots, Committed(s), UNCHANGED <<page, review>>, Calm,
         row' \in [Ids -> Row \cup {None}], KeyStaysWithItsRow'
  PROVE  Inv'
<1>1. req' \in [Slots -> RequestRecord] /\ RequestInv'
  BY EndedRequest DEF Committed, Inv
<1>2. RowInv'
  BY DEF Inv, RowInv, OneActivePerRole, Calm
<1>3. ReviewInv'
  BY ReviewsUntouched DEF Inv
<1>4. page' \in PageRecord /\ PageInv'
  BY QuietPage
<1>5. review' \in [Reviews -> ReviewRecord]
  BY TypeSplit DEF Inv
<1>6. QED
  BY <1>1, <1>2, <1>3, <1>4, <1>5, Assembled

(* Neither a new row nor a new key changes what is active.                 *)
LEMMA CreateRows ==
  ASSUME Inv, NEW s \in Slots, Create(s)
  PROVE  Calm /\ row' \in [Ids -> Row \cup {None}] /\ KeyStaysWithItsRow'
<1>1. row \in [Ids -> Row \cup {None}]
  BY TypeSplit DEF Inv
<1>2. CASE req[s].key = None
  <2>1. UNCHANGED row
    BY <1>2 DEF Create
  <2>2. QED
    BY <1>1, <2>1, RowsUntouched DEF Inv, RowInv
<1>3. CASE req[s].key # None
  <2>1. PICK i \in Ids \ Existing :
           row' = [row EXCEPT ![i] = [active |-> FALSE, key |-> req[s].key]]
    BY <1>3 DEF Create
  <2>2. req[s].key = "new"
    BY <1>3 DEF Create, Inv, RequestInv, ContentInv
  <2> DEFINE x == [active |-> FALSE, key |-> "new"]
  <2>3. x \in Row /\ x # None /\ x.active = FALSE /\ x.key = "new"
    BY RowIsThere DEF Row, Keys
  <2> HIDE DEF x
  <2>4. row' = [row EXCEPT ![i] = x]
    BY <2>1, <2>2 DEF x
  <2>5. /\ row' \in [Ids -> Row \cup {None}] /\ row'[i] = x
        /\ \A r \in Ids \ {i} : row'[r] = row[r]
    BY <1>1, <2>3, <2>4
  <2>6. Existing' = Existing \cup {i}
    BY <2>3, <2>5 DEF Existing
  <2>7. \A role : Active(role)' = Active(role)
    BY <2>1, <2>3, <2>5, <2>6 DEF Active, Existing
  <2>8. KeyStaysWithItsRow'
    BY <2>3, <2>5, <2>6 DEF Inv, RowInv, KeyStaysWithItsRow, Existing
  <2>9. QED
    BY <2>5, <2>6, <2>7, <2>8 DEF Calm
<1>4. QED
  BY <1>2, <1>3

LEMMA CreateStep ==
  ASSUME Inv, NEW s \in Slots, Create(s)
  PROVE  Inv'
<1>1. CASE req[s].key = None
  <2>1. Ended(s, "failed") /\ UNCHANGED row
    BY <1>1 DEF Create
  <2>2. Calm
    BY <2>1, RowsUntouched
  <2>3. req' \in [Slots -> RequestRecord] /\ RequestInv'
    BY <2>1, <2>2, EndedRequest DEF Inv
  <2>4. QED
    BY <2>1, <2>2, <2>3, QuietPage, RequestStep DEF Create
<1>2. CASE req[s].key # None
  BY <1>2, CreateRows, CalmWrite DEF Create
<1>3. QED
  BY <1>1, <1>2

LEMMA UpdateRows ==
  ASSUME Inv, NEW s \in Slots, Update(s)
  PROVE  Calm /\ row' \in [Ids -> Row \cup {None}] /\ KeyStaysWithItsRow'
<1>1. CASE req[s].key = None
  <2>1. row' = row
    BY <1>1 DEF Update
  <2>2. QED
    BY <2>1, RowsUntouched, TypeSplit DEF Inv, RowInv
<1>2. CASE req[s].key # None
  <2>1. PICK i \in Existing : i = req[s].id /\ i = req[s].key
    BY <1>2 DEF Update, Inv, RequestInv, TransactionInv, ContentInv
  <2>2. row' = [row EXCEPT ![i].key = i]
    BY <1>2, <2>1 DEF Update
  <2>3. row \in [Ids -> Row \cup {None}] /\ i \in Ids /\ row[i] \in Row
    BY TypeSplit DEF Inv, Existing
  <2> DEFINE x == [row[i] EXCEPT !.key = i]
  <2>4. x \in Row /\ x # None /\ x.active = row[i].active /\ x.key = i
    <3>1. x \in Row /\ x.active = row[i].active /\ x.key = i
      BY <2>3 DEF Row, Keys
    <3>2. QED
      BY <3>1, RowIsThere
  <2>5. row' = [row EXCEPT ![i] = x]
    BY <2>2, <2>3
  <2> HIDE DEF x
  <2>6. /\ row' \in [Ids -> Row \cup {None}] /\ row'[i] = x
        /\ \A r \in Ids \ {i} : row'[r] = row[r]
    BY <2>3, <2>4, <2>5
  <2>7. Existing' = Existing
    BY <2>3, <2>4, <2>6 DEF Existing
  <2>8. \A role : Active(role)' = Active(role)
    BY <2>4, <2>6, <2>7 DEF Active, Existing
  <2>9. KeyStaysWithItsRow'
    BY <2>4, <2>6, <2>7 DEF Inv, RowInv, KeyStaysWithItsRow, Existing
  <2>10. QED
    BY <2>6, <2>7, <2>8, <2>9 DEF Calm
<1>3. QED
  BY <1>1, <1>2

LEMMA UpdateStep ==
  ASSUME Inv, NEW s \in Slots, Update(s)
  PROVE  Inv'
  BY UpdateRows, CalmWrite DEF Update

(* A commit leaves the row it is about as the only active one of its role  *)
(* and the other role as it is.                                            *)
LEMMA CommitRows ==
  ASSUME Inv, NEW s \in Slots, Commit(s), NEW i, i = req[s].id
  PROVE  /\ i \in Existing
         /\ row' \in [Ids -> Row \cup {None}]
         /\ Existing' = Existing
         /\ \A r \in Existing : row'[r].key = row[r].key
         /\ Active(RoleOf[i])' = {i}
         /\ \A role \in Roles \ {RoleOf[i]} : Active(role)' = Active(role)
<1>1. /\ i \in Existing
      /\ \A r \in req[s].off : r \in Existing /\ RoleOf[r] = RoleOf[i]
      /\ Active(RoleOf[i]) \subseteq req[s].off \cup {i}
  BY DEF Commit, Inv, RequestInv, TransactionInv, InTransaction, Writing
<1>2. row \in [Ids -> Row \cup {None}]
  BY TypeSplit DEF Inv
<1> DEFINE on(r) == [row[r] EXCEPT !.active = TRUE]
           off(r) == [row[r] EXCEPT !.active = FALSE]
<1>3. \A r \in Existing :
        /\ on(r) \in Row /\ on(r).active = TRUE /\ on(r).key = row[r].key
        /\ off(r) \in Row /\ off(r).active = FALSE /\ off(r).key = row[r].key
  <2>1. \A r \in Existing : row[r] \in Row
    BY <1>2 DEF Existing
  <2>2. QED
    BY <2>1 DEF Row
<1>4. \A r \in Ids : row'[r] = IF r = i THEN on(r) ELSE IF r \in req[s].off THEN off(r) ELSE row[r]
  BY DEF Commit
<1>5. row' = [r \in Ids |-> row'[r]]
  BY DEF Commit
<1> HIDE DEF on, off
<1>6. \A r \in Ids : row'[r] \in Row \cup {None} /\ ((row'[r] # None) <=> (row[r] # None))
  BY <1>1, <1>2, <1>3, <1>4, RowIsThere DEF Existing
<1>7. row' \in [Ids -> Row \cup {None}]
  BY <1>5, <1>6
<1>8. Existing' = Existing
  BY <1>6 DEF Existing
<1>9. \A r \in Existing : row'[r].key = row[r].key
  BY <1>3, <1>4 DEF Existing
<1>10. i \in Ids /\ Existing \subseteq Ids
  BY <1>1 DEF Existing
<1>11. Active(RoleOf[i])' = {i}
  <2>1. i \in Active(RoleOf[i])'
    BY <1>1, <1>3, <1>4, <1>8, <1>10 DEF Active
  <2>2. ASSUME NEW r \in Active(RoleOf[i])' PROVE r = i
    <3>1. r \in Existing /\ row'[r].active /\ RoleOf[r] = RoleOf[i]
      BY <1>8, <2>2 DEF Active
    <3>2. CASE r # i /\ r \in req[s].off
      BY <1>3, <1>4, <1>10, <3>1, <3>2
    <3>3. CASE r # i /\ r \notin req[s].off
      BY <1>1, <1>4, <1>10, <3>1, <3>3 DEF Active
    <3>4. QED
      BY <3>2, <3>3
  <2>3. QED
    BY <2>1, <2>2
<1>12. ASSUME NEW role \in Roles \ {RoleOf[i]} PROVE Active(role)' = Active(role)
  <2>1. \A r \in Existing : RoleOf[r] = role => row'[r] = row[r]
    BY <1>1, <1>4, <1>10
  <2>2. QED
    BY <1>8, <2>1 DEF Active
<1>13. QED
  BY <1>1, <1>7, <1>8, <1>9, <1>11, <1>12

LEMMA CommitStep ==
  ASSUME Inv, NEW s \in Slots, Commit(s)
  PROVE  Inv'
<1>1. PICK i : i = req[s].id
  OBVIOUS
<1>2. /\ i \in Existing
      /\ row' \in [Ids -> Row \cup {None}]
      /\ Existing' = Existing
      /\ \A r \in Existing : row'[r].key = row[r].key
      /\ Active(RoleOf[i])' = {i}
      /\ \A role \in Roles \ {RoleOf[i]} : Active(role)' = Active(role)
  BY <1>1, CommitRows
<1>3. RowInv'
  <2>1. OneActivePerRole'
    BY <1>2 DEF Inv, RowInv, OneActivePerRole
  <2>2. KeyStaysWithItsRow'
    BY <1>2 DEF Inv, RowInv, KeyStaysWithItsRow
  <2>3. QED
    BY <1>2, <2>1, <2>2 DEF Inv, RowInv
<1>4. page' \in PageRecord /\ PageInv'
  <2>1. page' = page
    BY DEF Commit
  <2>2. QED
    BY <1>2, <2>1, TypeSplit, PageUntouched DEF Inv
<1>5. req' \in [Slots -> RequestRecord] /\ RequestInv'
  <2>1. PICK a \in {"ok", "failed"} : Ended(s, a)
    BY DEF Commit, Committed
  <2> DEFINE x == [NoRequest EXCEPT !.kind = req[s].kind, !.pc = a]
  <2>2. req \in [Slots -> RequestRecord]
    BY TypeSplit DEF Inv
  <2>3. /\ x \in RequestRecord /\ x.pc = a /\ x.key = None /\ x.id = None
        /\ x.seen = {} /\ x.off = {} /\ x.on = FALSE /\ x.rows = None
    BY <2>2 DEF RequestRecord, NoRequest
  <2>4. req' = [req EXCEPT ![s] = x]
    BY <2>1 DEF Ended
  <2> HIDE DEF x
  <2>5. /\ req' \in [Slots -> RequestRecord] /\ req'[s] = x
        /\ \A t \in Slots \ {s} : req'[t] = req[t]
    BY <2>2, <2>3, <2>4
  <2>6. TransactionInv(s)' /\ ContentInv(s)'
    BY <2>3, <2>5 DEF TransactionInv, ContentInv, InTransaction, Writing
  <2>7. ASSUME NEW t \in Slots \ {s} PROVE TransactionInv(t)' /\ ContentInv(t)'
    <3>1. ASSUME req[t].pc = "commit"
          PROVE  Active(RoleOf[req[t].id])' \subseteq Active(RoleOf[req[t].id])
      <4>1. RoleOf[req[t].id] # RoleOf[i]
        BY <1>1, <3>1 DEF Commit, Inv, RequestInv, Exclusive, Writing
      <4>2. req[t].id \in Ids
        BY <3>1 DEF Inv, RequestInv, TransactionInv, InTransaction, Writing, Existing
      <4>3. RoleOf[req[t].id] \in Roles
        BY <4>2, ProviderAssumption
      <4>4. PICK role \in Roles \ {RoleOf[i]} : role = RoleOf[req[t].id]
        BY <4>1, <4>3
      <4>5. role = RoleOf[req'[t].id]
        BY <2>5, <4>4
      <4>6. Active(RoleOf[req[t].id])' = Active(role)'
        BY <4>5 DEF Active
      <4>7. QED
        BY <1>2, <4>4, <4>6
    <3>2. QED
      BY <1>2, <2>5, <3>1, Bystander DEF Inv, RequestInv
  <2>8. Exclusive'
    BY <2>3, <2>5 DEF Exclusive, Inv, RequestInv, Writing
  <2>9. QED
    BY <2>5, <2>6, <2>7, <2>8 DEF RequestInv
<1>6. review' \in [Reviews -> ReviewRecord] /\ ReviewInv'
  <2> DEFINE one(role) == One(Active(role)')
             news(q) == [role \in Roles |-> IF review[q].since[role] = {} THEN {}
                                            ELSE review[q].since[role] \cup {one(role)}]
  <2>1. \A role \in Roles : one(role) \in Ids \cup {None}
    <3>1. ASSUME NEW role \in Roles PROVE one(role) \in Ids \cup {None}
      <4>1. Active(role)' \subseteq Ids
        BY DEF Active, Existing
      <4>2. QED
        BY <4>1, OneOf
    <3>2. QED
      BY <3>1
  <2>2. \A q \in Reviews : review'[q] = [review[q] EXCEPT !.since = news(q)]
    BY DEF Commit
  <2>3. review' = [q \in Reviews |-> review'[q]]
    BY DEF Commit
  <2>4. \A role : one(role) = One(Active(role))'
    BY DEF One
  <2> HIDE DEF one
  <2>5. \A q \in Reviews : review[q] \in ReviewRecord
    BY TypeSplit DEF Inv
  <2>6. ASSUME NEW q \in Reviews PROVE news(q) \in [Roles -> SUBSET (Ids \cup {None})]
    BY <2>1, <2>5 DEF ReviewRecord
  <2>7. ASSUME NEW q \in Reviews, NEW role \in Roles
        PROVE  /\ (news(q)[role] # {}) => one(role) \in news(q)[role]
               /\ (review[q].since[role] # {}) => news(q)[role] # {}
    OBVIOUS
  <2> HIDE DEF news
  <2>8. \A q \in Reviews :
          /\ review'[q] \in ReviewRecord /\ review'[q].since = news(q)
          /\ review'[q].pc = review[q].pc /\ review'[q].stale = review[q].stale
    <3>1. ASSUME NEW q \in Reviews
          PROVE  /\ review'[q] \in ReviewRecord /\ review'[q].since = news(q)
                 /\ review'[q].pc = review[q].pc /\ review'[q].stale = review[q].stale
      <4>1. PICK n \in [Roles -> SUBSET (Ids \cup {None})] : n = news(q)
        BY <2>6
      <4>2. review'[q] = [review[q] EXCEPT !.since = n]
        BY <2>2, <4>1
      <4>3. review[q] \in ReviewRecord
        BY <2>5
      <4>4. /\ review'[q] \in ReviewRecord /\ review'[q].since = n
            /\ review'[q].pc = review[q].pc /\ review'[q].stale = review[q].stale
        BY <4>2, <4>3 DEF ReviewRecord
      <4>5. QED
        BY <4>1, <4>4
    <3>2. QED
      BY <3>1
  <2>9. ReviewInv'
    BY <2>4, <2>7, <2>8 DEF Inv, ReviewInv, Roles
  <2>10. QED
    BY <2>3, <2>8, <2>9
<1>7. QED
  BY <1>2, <1>3, <1>4, <1>5, <1>6, Assembled

-----------------------------------------------------------------------------
(* The steps of a review.                                                  *)

LEMMA ReviewStep ==
  ASSUME Inv, UNCHANGED <<row, req, page>>,
         review' \in [Reviews -> ReviewRecord], ReviewInv'
  PROVE  Inv'
<1>1. Existing' = Existing /\ \A role : Active(role)' = Active(role)
  BY DEF Existing, Active
<1>2. RequestInv'
  BY <1>1 DEF Inv, RequestInv, TransactionInv, ContentInv, Exclusive
<1>3. Calm /\ RowInv'
  BY RowsUntouched DEF Inv
<1>4. page' \in PageRecord /\ PageInv'
  BY <1>3, QuietPage
<1>5. row' \in [Ids -> Row \cup {None}] /\ req' \in [Slots -> RequestRecord]
  BY TypeSplit DEF Inv
<1>6. QED
  BY <1>2, <1>3, <1>4, <1>5, Assembled

(* One review goes on, and nothing else happens.                           *)
LEMMA OneReview ==
  ASSUME Inv, UNCHANGED <<row, req, page>>, NEW q \in Reviews, NEW x \in ReviewRecord,
         review' = [review EXCEPT ![q] = x],
         \A role \in Roles : (x.since[role] # {}) => One(Active(role)) \in x.since[role],
         (x.pc = "started") => x.since["judgment"] # {},
         (x.pc \in {"started", "judged"}) => x.since["triage"] # {},
         ~x.stale
  PROVE  Inv'
<1>1. review \in [Reviews -> ReviewRecord]
  BY TypeSplit DEF Inv
<1>2. /\ review' \in [Reviews -> ReviewRecord] /\ review'[q] = x
      /\ \A p \in Reviews \ {q} : review'[p] = review[p]
  BY <1>1
<1>3. \A role : One(Active(role))' = One(Active(role))
  BY DEF One, Active, Existing
<1>4. ReviewInv'
  BY <1>2, <1>3 DEF Inv, ReviewInv
<1>5. QED
  BY <1>2, <1>4, ReviewStep

LEMMA OneIsARow ==
  ASSUME NEW role
  PROVE  One(Active(role)) \in Ids \cup {None}
  BY OneOf, ActiveRows

LEMMA StartStep ==
  ASSUME Inv, NEW q \in Reviews, Start(q)
  PROVE  Inv'
<1> DEFINE f == [role \in Roles |-> {One(Active(role))}]
           x == [NoReview EXCEPT !.pc = "started", !.since = f]
<1>1. /\ f \in [Roles -> SUBSET (Ids \cup {None})]
      /\ \A role \in Roles : f[role] # {} /\ One(Active(role)) \in f[role]
  BY OneIsARow
<1>2. review' = [review EXCEPT ![q] = x]
  BY DEF Start
<1> HIDE DEF f
<1>3. x \in ReviewRecord /\ x.pc = "started" /\ x.since = f /\ x.stale = FALSE
  BY <1>1 DEF NoReview, ReviewRecord
<1> HIDE DEF x
<1>4. QED
  BY <1>1, <1>2, <1>3, OneReview DEF Start, Roles

LEMMA EmptyReview == NoReview \in ReviewRecord
  BY DEF NoReview, ReviewRecord

(* What is active now is not stale for a review that was still to read it. *)
LEMMA FreshVerdict ==
  ASSUME Inv, NEW q \in Reviews, NEW role \in Roles, review[q].since[role] # {}
  PROVE  LET v == Verdict(q, role, One(Active(role)))
         IN  /\ v \in ReviewRecord
             /\ v.stale = FALSE
             /\ v.pc = review[q].pc
             /\ v.since[role] = {}
             /\ \A o \in Roles \ {role} : v.since[o] = review[q].since[o]
<1> DEFINE used == One(Active(role))
           b == review[q].stale \/ used \notin review[q].since[role]
           f == [review[q].since EXCEPT ![role] = {}]
<1>1. review[q] \in ReviewRecord
  BY TypeSplit DEF Inv
<1>2. b = FALSE
  BY DEF Inv, ReviewInv
<1>3. /\ f \in [Roles -> SUBSET (Ids \cup {None})] /\ f[role] = {}
      /\ \A o \in Roles \ {role} : f[o] = review[q].since[o]
  BY <1>1 DEF ReviewRecord
<1>4. Verdict(q, role, used) = [review[q] EXCEPT !.stale = b, !.since = f]
  BY <1>1 DEF Verdict, ReviewRecord
<1> HIDE DEF b, f, used
<1>5. LET v == Verdict(q, role, used)
      IN  v \in ReviewRecord /\ v.stale = FALSE /\ v.pc = review[q].pc /\ v.since = f
  BY <1>1, <1>2, <1>3, <1>4 DEF ReviewRecord
<1>6. QED
  BY <1>3, <1>5 DEF used

LEMMA OverReview ==
  ASSUME Inv, UNCHANGED <<row, req, page>>, NEW q \in Reviews, NEW v, v.stale = FALSE,
         review' = [review EXCEPT ![q] = Over(v)]
  PROVE  Inv'
<1>1. /\ Over(v) \in ReviewRecord /\ Over(v).pc = "idle" /\ Over(v).stale = FALSE
      /\ \A role \in Roles : Over(v).since[role] = {}
  BY DEF Over, NoReview, ReviewRecord
<1>2. QED
  BY <1>1, OneReview

LEMMA ReadJudgmentStep ==
  ASSUME Inv, NEW q \in Reviews, ReadJudgment(q)
  PROVE  Inv'
<1> DEFINE used == One(Active("judgment"))
           v == Verdict(q, "judgment", used)
           x == [v EXCEPT !.pc = "judged"]
<1>1. review[q].pc = "started" /\ UNCHANGED <<row, req, page>>
  BY DEF ReadJudgment, ReadJudgmentOf
<1>2. review[q].since["judgment"] # {} /\ review[q].since["triage"] # {}
  BY <1>1 DEF Inv, ReviewInv
<1>3. /\ v \in ReviewRecord /\ v.stale = FALSE /\ v.since["judgment"] = {}
      /\ v.since["triage"] = review[q].since["triage"]
  BY <1>2, FreshVerdict DEF Roles
<1>4. CASE used = None
  <2>1. review' = [review EXCEPT ![q] = Over(v)]
    BY <1>4 DEF ReadJudgment, ReadJudgmentOf
  <2> HIDE DEF v
  <2>2. QED
    BY <1>1, <1>3, <2>1, OverReview
<1>5. CASE used # None
  <2>1. review' = [review EXCEPT ![q] = x]
    BY <1>5 DEF ReadJudgment, ReadJudgmentOf
  <2> HIDE DEF v
  <2>2. x \in ReviewRecord /\ x.pc = "judged" /\ x.stale = FALSE /\ x.since = v.since
    BY <1>3 DEF ReviewRecord
  <2> HIDE DEF x
  <2>3. One(Active("triage")) \in x.since["triage"]
    BY <1>2, <1>3, <2>2 DEF Inv, ReviewInv, Roles
  <2>4. QED
    BY <1>1, <1>2, <1>3, <2>1, <2>2, <2>3, OneReview DEF Roles
<1>6. QED
  BY <1>4, <1>5

LEMMA ReadTriageStep ==
  ASSUME Inv, NEW q \in Reviews, ReadTriage(q)
  PROVE  Inv'
<1> DEFINE v == Verdict(q, "triage", One(Active("triage")))
<1>1. review[q].since["triage"] # {}
  BY DEF Inv, ReviewInv, ReadTriage
<1>2. v.stale = FALSE
  BY <1>1, FreshVerdict DEF Roles
<1>3. review' = [review EXCEPT ![q] = Over(v)] /\ UNCHANGED <<row, req, page>>
  BY DEF ReadTriage
<1> HIDE DEF v
<1>4. QED
  BY <1>2, <1>3, OverReview

-----------------------------------------------------------------------------
(* The invariant.                                                          *)

LEMMA Initially ==
  ASSUME Init
  PROVE  Inv
<1>1. /\ row \in [Ids -> Row \cup {None}] /\ Existing = Initial
      /\ \A r \in Initial : row[r].key = r
      /\ \A role \in Roles : \A r, s \in Active(role) : r = s
      /\ page = [list |-> None, submitting |-> FALSE, form |-> EmptyForm]
      /\ review = [q \in Reviews |-> NoReview]
  BY DEF Init
<1>2. PICK s \in Slots :
        req = [t \in Slots |-> IF t = s THEN Sent("list", None, None) ELSE NoRequest]
  BY DEF Init
<1>3. \A t \in Slots : req[t] = Sent("list", None, None) \/ req[t] = NoRequest
  BY <1>2
<1>4. /\ Sent("list", None, None) \in RequestRecord
      /\ Sent("list", None, None).pc = "sent" /\ Sent("list", None, None).kind = "list"
      /\ Sent("list", None, None).seen = {} /\ Sent("list", None, None).off = {}
      /\ Sent("list", None, None).on = FALSE /\ Sent("list", None, None).rows = None
  BY DEF Sent, NoRequest, RequestRecord
<1>5. /\ NoRequest \in RequestRecord /\ NoRequest.pc = "idle" /\ NoRequest.kind = "none"
      /\ NoRequest.seen = {} /\ NoRequest.off = {} /\ NoRequest.on = FALSE
      /\ NoRequest.rows = None
  BY DEF NoRequest, RequestRecord
<1>6. /\ \A t \in Slots : req[t] \in RequestRecord
      /\ req = [t \in Slots |-> req[t]]
  BY <1>2, <1>3, <1>4, <1>5
<1>7. req \in [Slots -> RequestRecord]
  BY <1>6
<1>8. RequestInv
  <2>1. \A t \in Slots : TransactionInv(t) /\ ContentInv(t)
    BY <1>3, <1>4, <1>5 DEF TransactionInv, ContentInv, InTransaction, Writing
  <2>2. Exclusive
    BY <1>3, <1>4, <1>5 DEF Exclusive
  <2>3. QED
    BY <2>1, <2>2 DEF RequestInv
<1>9. EmptyForm.editing = None /\ EmptyForm.key = None
  BY DEF EmptyForm
<1>10. page \in PageRecord /\ PageInv
  BY <1>1, <1>9 DEF PageRecord, PageInv, EmptyForm
<1>11. /\ NoReview \in ReviewRecord /\ NoReview.pc = "idle" /\ NoReview.stale = FALSE
       /\ \A role \in Roles : NoReview.since[role] = {}
  BY EmptyReview DEF NoReview
<1>12. review \in [Reviews -> ReviewRecord] /\ ReviewInv
  BY <1>1, <1>11 DEF ReviewInv
<1>13. RowInv
  BY <1>1 DEF RowInv, OneActivePerRole, KeyStaysWithItsRow
<1>14. QED
  BY <1>1, <1>7, <1>8, <1>10, <1>12, <1>13, TypeSplit DEF Inv

LEMMA Stuttering ==
  ASSUME Inv, UNCHANGED vars
  PROVE  Inv'
  BY PageStep, PageUntouched, TypeSplit, RowsUntouched, QuietPage DEF Inv, vars, Calm

LEMMA Preserved ==
  ASSUME Inv, [Next]_vars
  PROVE  Inv'
<1>1. ASSUME NEW r \in Ids, Edit(r) PROVE Inv'
  BY <1>1, EditStep
<1>2. CASE CancelEdit
  BY <1>2, CancelEditStep
<1>3. CASE TypeKey
  BY <1>3, TypeKeyStep
<1>4. ASSUME NEW s \in Slots, Submit(s) PROVE Inv'
  BY <1>4, SubmitStep
<1>5. ASSUME NEW s \in Slots, NEW r \in Ids, Activate(s, r) PROVE Inv'
  BY <1>5, ActivateStep
<1>6. ASSUME NEW s \in Slots, ListArrives(s) \/ SaveArrives(s) PROVE Inv'
  BY <1>6, ListArrivesStep, SaveArrivesStep
<1>7. ASSUME NEW s \in Slots, Handle(s) PROVE Inv'
  BY <1>7, ListStep, CreateStep, UpdateStep, LockTargetStep, FindActiveStep,
     DeactivateStep, SetActiveStep, CommitStep DEF Handle
<1>8. ASSUME NEW s \in Slots, Fails(s) PROVE Inv'
  BY <1>8, FailsStep
<1>9. ASSUME NEW q \in Reviews, Start(q) \/ ReadJudgment(q) \/ ReadTriage(q) PROVE Inv'
  BY <1>9, StartStep, ReadJudgmentStep, ReadTriageStep
<1>10. CASE UNCHANGED vars
  BY <1>10, Stuttering
<1>11. QED
  BY <1>1, <1>2, <1>3, <1>4, <1>5, <1>6, <1>7, <1>8, <1>9, <1>10 DEF Next

(* The rows, the requests, the page and the reviews agree in every         *)
(* reachable state.                                                        *)
THEOREM Invariant == Spec => []Inv
<1>1. Init => Inv
  BY Initially
<1>2. Inv /\ [Next]_vars => Inv'
  BY Preserved
<1>3. QED
  BY <1>1, <1>2, PTL DEF Spec

-----------------------------------------------------------------------------
(* The theorems.                                                           *)

(* Every variable keeps its type.                                          *)
THEOREM TypeCorrect == Spec => []TypeOK
<1>1. Inv => TypeOK
  BY DEF Inv
<1>2. QED
  BY <1>1, Invariant, PTL

(* However many activations overlap, and whichever of them fail or lose    *)
(* their answer, two rows of one role are never active.                    *)
THEOREM OneActive == Spec => []OneActivePerRole
<1>1. Inv => OneActivePerRole
  BY DEF Inv, RowInv
<1>2. QED
  BY <1>1, Invariant, PTL

(* A key is stored in the row it was typed for, or in a new one if it was  *)
(* typed for a new one.                                                    *)
THEOREM KeysStay == Spec => []KeyStaysWithItsRow
<1>1. Inv => KeyStaysWithItsRow
  BY DEF Inv, RowInv
<1>2. QED
  BY <1>1, Invariant, PTL

(* A review uses a provider that was active since the review was started.  *)
THEOREM SwitchIsSeen == Spec => []SwitchTakesEffect
<1>1. Inv => SwitchTakesEffect
  BY DEF Inv, ReviewInv, SwitchTakesEffect
<1>2. QED
  BY <1>1, Invariant, PTL

(* A role that has an active provider never stops having one.              *)
THEOREM Served == Spec => RoleStaysServed
<1> DEFINE Kept == \A role \in Roles : Active(role) # {} => Active(role)' # {}
<1>1. ASSUME Inv, Next PROVE Kept
  <2>1. CASE UNCHANGED row
    BY <2>1, RowsUntouched DEF Calm
  <2>2. ASSUME NEW s \in Slots, Create(s) \/ Update(s) PROVE Kept
    BY <1>1, <2>2, CreateRows, UpdateRows DEF Calm
  <2>3. ASSUME NEW s \in Slots, Commit(s) PROVE Kept
    BY <1>1, <2>3, CommitRows
  <2>4. UNCHANGED row \/ \E s \in Slots : Create(s) \/ Update(s) \/ Commit(s)
    BY <1>1 DEF Next, Edit, CancelEdit, TypeKey, Submit, Activate, ListArrives, SaveArrives,
       Handle, Fails, List, LockTarget, FindActive, Deactivate, SetActive,
       Start, ReadJudgment, ReadJudgmentOf, ReadTriage
  <2>5. QED
    BY <2>1, <2>2, <2>3, <2>4
<1>2. ASSUME UNCHANGED vars PROVE Kept
  BY <1>2, RowsUntouched DEF vars, Calm
<1>3. Inv /\ [Next]_vars => [Kept]_vars
  BY <1>1, <1>2
<1>4. QED
  BY <1>3, Invariant, PTL DEF Spec, RoleStaysServed

-----------------------------------------------------------------------------
(* Waiting.  The row a transaction has locked is neither switched on nor   *)
(* off by others, so what an activation found active of its own row is     *)
(* still so.                                                               *)

Live == {r \in Existing : row[r].active}

Snapshot(s) ==
  /\ (req[s].pc = "deactivate") =>
       /\ \A r, q \in req[s].seen : r = q
       /\ req[s].id \in Live => req[s].id \in req[s].seen
  /\ (req[s].pc = "activate") => req[s].off \subseteq Live

Disjoint == \A s, t \in Slots : s # t => Locks(s) \cap Locks(t) = {}

(* p found the row of s active, and s did not: s looked later.             *)
Behind(p, s) ==
  /\ req[p].pc = "deactivate"
  /\ req[s].pc = "deactivate"
  /\ req[s].id \in req[p].seen \ req[s].seen

Ordered ==
  \E rank \in [Slots -> Nat], n \in Nat :
    /\ \A s \in Slots : rank[s] <= n
    /\ \A p, s \in Slots : Behind(p, s) => rank[p] < rank[s]

WaitInv == (\A s \in Slots : Snapshot(s)) /\ Disjoint /\ Ordered

(* The requests of a non-empty set are ranked, and one of them is last.    *)
LEMMA Latest ==
  ASSUME NEW rank \in [Slots -> Nat], NEW n \in Nat, NEW D, D \subseteq Slots, D # {},
         \A s \in Slots : rank[s] <= n
  PROVE  \E s \in D : \A p \in D : rank[p] <= rank[s]
<1> DEFINE T == {n - rank[s] : s \in D}
<1>1. \A s \in D : rank[s] \in Nat /\ rank[s] <= n
  OBVIOUS
<1>2. T \subseteq Nat /\ T # {}
  <2>1. \A s \in D : n - rank[s] \in Nat
    BY <1>1
  <2>2. QED
    BY <2>1
<1>3. \E x \in T : \A y \in T : ~ (<<y, x>> \in OpToRel(<, Nat))
  BY <1>2, NatLessThanWellFounded, WFMin, Zenon
<1>4. PICK x \in T : \A y \in T : ~ (y < x)
  BY <1>2, <1>3 DEF OpToRel
<1>5. PICK s \in D : x = n - rank[s]
  OBVIOUS
<1>6. ASSUME NEW p \in D PROVE rank[p] <= rank[s]
  <2>1. n - rank[p] \in T
    OBVIOUS
  <2>2. ~ (n - rank[p] < n - rank[s])
    BY <2>1, <1>4, <1>5
  <2>3. QED
    BY <2>2, <1>1
<1>7. QED
  BY <1>6

(* What others have locked is as active as before.                         *)
Respected(s) ==
  \A t \in Slots \ {s} : \A r \in Locks(t) : r \in Live' <=> r \in Live

LEMMA LiveUntouched ==
  ASSUME Calm, NEW s
  PROVE  Respected(s)
<1>1. ASSUME NEW r PROVE r \in Live <=> r \in Active(RoleOf[r])
  BY DEF Live, Active
<1>2. ASSUME NEW r PROVE r \in Live' <=> r \in Active(RoleOf[r])'
  BY DEF Live, Active
<1>3. QED
  BY <1>1, <1>2 DEF Calm, Respected

(* A step of one request that does not look for active rows.               *)
LEMMA OneStep ==
  ASSUME TypeOK, WaitInv, NEW s \in Slots, NEW x, req' = [req EXCEPT ![s] = x],
         x.pc # "deactivate", Snapshot(s)', Respected(s),
         \A t \in Slots \ {s} : Locks(s)' \cap Locks(t) = {}
  PROVE  WaitInv'
<1>1. req'[s] = x /\ \A t \in Slots \ {s} : req'[t] = req[t]
  BY TypeSplit
<1>2. \A t \in Slots \ {s} : Locks(t)' = Locks(t)
  BY <1>1 DEF Locks
<1>3. Disjoint'
  BY <1>2 DEF WaitInv, Disjoint
<1>4. ASSUME NEW t \in Slots \ {s} PROVE Snapshot(t)'
  <2>1. CASE req[t].pc = "deactivate"
    <3>1. req[t].id \in Locks(t)
      BY <2>1 DEF Locks
    <3>2. req[t].id \in Live' => req[t].id \in Live
      BY <3>1 DEF Respected
    <3>3. QED
      BY <2>1, <3>2, <1>1 DEF WaitInv, Snapshot
  <2>2. CASE req[t].pc = "activate"
    <3>1. req[t].off \subseteq Locks(t)
      BY <2>2 DEF Locks
    <3>2. req[t].off \subseteq Live'
      BY <2>2, <3>1 DEF Respected, WaitInv, Snapshot
    <3>3. QED
      BY <2>2, <3>2, <1>1 DEF Snapshot
  <2>3. QED
    BY <2>1, <2>2, <1>1 DEF Snapshot
<1>5. \A p, t \in Slots : Behind(p, t)' => Behind(p, t)
  BY <1>1 DEF Behind
<1>6. Ordered'
  BY <1>5 DEF WaitInv, Ordered
<1>7. QED
  BY <1>3, <1>4, <1>6 DEF WaitInv

(* A request that holds no locks afterwards.                               *)
LEMMA Released ==
  ASSUME TypeOK, WaitInv, NEW s \in Slots, NEW x, req' = [req EXCEPT ![s] = x],
         x.pc \in {"idle", "sent", "ok", "failed"}, Respected(s)
  PROVE  WaitInv'
<1>1. req'[s] = x
  BY TypeSplit
<1>2. Locks(s)' = {} /\ Snapshot(s)'
  BY <1>1 DEF Locks, Snapshot
<1>3. QED
  BY <1>2, OneStep

LEMMA EndReleases ==
  ASSUME TypeOK, WaitInv, NEW s \in Slots, NEW a \in {"ok", "failed"}, Ended(s, a), Respected(s)
  PROVE  WaitInv'
<1> DEFINE x == [NoRequest EXCEPT !.kind = req[s].kind, !.pc = a]
<1>1. x.pc \in {"idle", "sent", "ok", "failed"}
  BY DEF NoRequest
<1>2. req' = [req EXCEPT ![s] = x]
  BY DEF Ended
<1> HIDE DEF x
<1>3. QED
  BY <1>1, <1>2, Released

LEMMA SentIsSent ==
  ASSUME NEW kind, NEW id, NEW key
  PROVE  Sent(kind, id, key).pc = "sent"
  BY DEF Sent, NoRequest

(* A step that leaves the requests alone.                                  *)
LEMMA RequestsUntouched ==
  ASSUME WaitInv, UNCHANGED <<row, req>>
  PROVE  WaitInv'
<1>1. Live' = Live
  BY DEF Live, Existing
<1>2. \A s \in Slots : Locks(s)' = Locks(s)
  BY DEF Locks
<1>3. Disjoint'
  BY <1>2 DEF WaitInv, Disjoint
<1>4. \A s \in Slots : Snapshot(s)'
  BY <1>1 DEF WaitInv, Snapshot
<1>5. \A p, t \in Slots : Behind(p, t)' => Behind(p, t)
  BY DEF Behind
<1>6. Ordered'
  BY <1>5 DEF WaitInv, Ordered
<1>7. QED
  BY <1>3, <1>4, <1>6 DEF WaitInv

LEMMA PageWaits ==
  ASSUME Inv, WaitInv, NEW s \in Slots,
         \/ Submit(s) \/ (\E r \in Ids : Activate(s, r)) \/ ListArrives(s) \/ SaveArrives(s)
  PROVE  WaitInv'
<1>1. row' = row
  BY DEF Submit, Activate, ListArrives, SaveArrives
<1>2. Respected(s)
  BY <1>1, RowsUntouched, LiveUntouched
<1>3. \/ req' = [req EXCEPT ![s] = NoRequest]
      \/ \E kind, id, key : req' = [req EXCEPT ![s] = Sent(kind, id, key)]
  BY DEF Submit, Activate, ListArrives, SaveArrives
<1>4. NoRequest.pc = "idle"
  BY DEF NoRequest
<1>5. QED
  BY <1>2, <1>3, <1>4, SentIsSent, Released DEF Inv

LEMMA ListWaits ==
  ASSUME Inv, WaitInv, NEW s \in Slots, List(s)
  PROVE  WaitInv'
<1> DEFINE l == [r \in Ids |-> IF row[r] = None THEN "absent"
                               ELSE IF row[r].active THEN "active" ELSE "inactive"]
           x == [req[s] EXCEPT !.pc = "ok", !.rows = l]
<1>1. req' = [req EXCEPT ![s].pc = "ok", ![s].rows = l] /\ row' = row
  BY DEF List
<1> HIDE DEF l
<1>2. req[s] \in RequestRecord
  BY TypeSplit DEF Inv
<1>3. x.pc = "ok"
  BY <1>2 DEF RequestRecord
<1>4. req' = [req EXCEPT ![s] = x]
  BY <1>1, TypeSplit DEF Inv
<1> HIDE DEF x
<1>5. Respected(s)
  BY <1>1, RowsUntouched, LiveUntouched
<1>6. QED
  BY <1>3, <1>4, <1>5, Released DEF Inv

LEMMA WriteWaits ==
  ASSUME Inv, WaitInv, NEW s \in Slots, Create(s) \/ Update(s)
  PROVE  WaitInv'
<1>1. Respected(s)
  BY CreateRows, UpdateRows, LiveUntouched
<1>2. Ended(s, "ok") \/ Ended(s, "failed")
  BY DEF Create, Update, Committed
<1>3. QED
  BY <1>1, <1>2, EndReleases DEF Inv

LEMMA FailureWaits ==
  ASSUME Inv, WaitInv, NEW s \in Slots, Ended(s, "failed"), row' = row
  PROVE  WaitInv'
<1>1. Respected(s)
  BY RowsUntouched, LiveUntouched
<1>2. QED
  BY <1>1, EndReleases DEF Inv

(* A commit switches only rows that it has locked.                         *)
LEMMA CommitWaits ==
  ASSUME Inv, WaitInv, NEW s \in Slots, Commit(s)
  PROVE  WaitInv'
<1>1. Locks(s) = {req[s].id} \cup req[s].off
  BY DEF Commit, Locks
<1>2. ASSUME NEW t \in Slots \ {s}, NEW r \in Locks(t) PROVE r \in Live' <=> r \in Live
  <2>1. r # req[s].id /\ r \notin req[s].off
    BY <1>1 DEF WaitInv, Disjoint
  <2>2. r \in Ids => row'[r] = row[r]
    BY <2>1 DEF Commit
  <2>3. QED
    BY <2>2 DEF Live, Existing
<1>3. Respected(s)
  BY <1>2 DEF Respected
<1>4. Ended(s, "ok") \/ Ended(s, "failed")
  BY DEF Commit, Committed
<1>5. QED
  BY <1>3, <1>4, EndReleases DEF Inv

LEMMA LockTargetWaits ==
  ASSUME Inv, WaitInv, NEW s \in Slots, LockTarget(s)
  PROVE  WaitInv'
<1> DEFINE x == [req[s] EXCEPT !.pc = "locked"]
<1>1. req[s] \in RequestRecord
  BY TypeSplit DEF Inv
<1>2. x.pc = "locked" /\ x.id = req[s].id /\ x.off = {}
  BY <1>1 DEF RequestRecord, LockTarget, Inv, RequestInv, TransactionInv, Writing
<1>3. req' = [req EXCEPT ![s] = x] /\ req'[s] = x
  BY TypeSplit DEF Inv, LockTarget
<1> HIDE DEF x
<1>4. Locks(s)' = {req[s].id} /\ Snapshot(s)'
  BY <1>2, <1>3 DEF Locks, Snapshot
<1>5. \A t \in Slots \ {s} : Locks(s)' \cap Locks(t) = {}
  BY <1>4 DEF LockTarget, LockedByOther
<1>6. Respected(s)
  BY RowsUntouched, LiveUntouched DEF LockTarget
<1>7. QED
  BY <1>2, <1>3, <1>4, <1>5, <1>6, OneStep DEF Inv

LEMMA DeactivateWaits ==
  ASSUME Inv, WaitInv, NEW s \in Slots, Deactivate(s)
  PROVE  WaitInv'
<1> DEFINE d == {r \in req[s].seen : row[r].active}
           x == [req[s] EXCEPT !.pc = "activate", !.seen = {}, !.off = d]
<1>1. req[s] \in RequestRecord
  BY TypeSplit DEF Inv
<1>2. req' = [req EXCEPT ![s].pc = "activate", ![s].seen = {}, ![s].off = d]
  BY DEF Deactivate
<1>3. d \subseteq req[s].seen /\ d \subseteq Live
  BY DEF Deactivate, Inv, RequestInv, TransactionInv, InTransaction, Live
<1> HIDE DEF d
<1>4. x.pc = "activate" /\ x.id = req[s].id /\ x.off = d
  BY <1>1 DEF RequestRecord
<1>5. req' = [req EXCEPT ![s] = x] /\ req'[s] = x
  BY <1>2, TypeSplit DEF Inv
<1> HIDE DEF x
<1>6. Live' = Live
  BY DEF Live, Existing, Deactivate
<1>7. Snapshot(s)'
  BY <1>3, <1>4, <1>5, <1>6 DEF Snapshot
<1>8. req[s].id \in Locks(s) /\ Locks(s)' = {req[s].id} \cup d
  BY <1>4, <1>5 DEF Locks, Deactivate
<1>9. \A t \in Slots \ {s} : Locks(s)' \cap Locks(t) = {}
  BY <1>3, <1>8 DEF Deactivate, LockedByOther, WaitInv, Disjoint
<1>10. Respected(s)
  BY RowsUntouched, LiveUntouched DEF Deactivate
<1>11. QED
  BY <1>4, <1>5, <1>7, <1>9, <1>10, OneStep DEF Inv

LEMMA SetActiveWaits ==
  ASSUME Inv, WaitInv, NEW s \in Slots, SetActive(s)
  PROVE  WaitInv'
<1>1. CASE IndexConflict(s)
  BY <1>1, FailureWaits DEF SetActive
<1>2. CASE ~IndexConflict(s)
  <2> DEFINE x == [req[s] EXCEPT !.pc = "commit", !.on = TRUE]
  <2>1. req[s] \in RequestRecord
    BY TypeSplit DEF Inv
  <2>2. x.pc = "commit" /\ x.id = req[s].id /\ x.off = req[s].off
    BY <2>1 DEF RequestRecord
  <2>3. req' = [req EXCEPT ![s] = x] /\ req'[s] = x
    BY <1>2, TypeSplit DEF Inv, SetActive
  <2> HIDE DEF x
  <2>4. Snapshot(s)'
    BY <2>2, <2>3 DEF Snapshot
  <2>5. Locks(s)' = Locks(s)
    BY <2>2, <2>3 DEF Locks, SetActive
  <2>6. \A t \in Slots \ {s} : Locks(s)' \cap Locks(t) = {}
    BY <2>5 DEF WaitInv, Disjoint
  <2>7. Respected(s)
    BY RowsUntouched, LiveUntouched DEF SetActive
  <2>8. QED
    BY <2>2, <2>3, <2>4, <2>6, <2>7, OneStep DEF Inv
<1>3. QED
  BY <1>1, <1>2

(* The one who looks is ranked last.  If it finds the row of another       *)
(* activation active, that one has found it active too.                    *)
LEMMA FindActiveWaits ==
  ASSUME Inv, WaitInv, NEW s \in Slots, FindActive(s)
  PROVE  WaitInv'
<1> DEFINE a == Active(RoleOf[req[s].id])
           x == [req[s] EXCEPT !.pc = "deactivate", !.seen = a]
<1>1. req[s] \in RequestRecord
  BY TypeSplit DEF Inv
<1>2. req' = [req EXCEPT ![s].pc = "deactivate", ![s].seen = a]
  BY DEF FindActive
<1>3. a \subseteq Live
  BY DEF Active, Live
<1>4. req[s].id \in Live => req[s].id \in a
  BY DEF Active, Live
<1>5. req[s].id \in Ids
  BY DEF FindActive, Inv, RequestInv, TransactionInv, InTransaction, Existing
<1>6. \A r, q \in a : r = q
  <2>1. RoleOf[req[s].id] \in Roles
    BY <1>5, ProviderAssumption
  <2>2. QED
    BY <2>1 DEF Inv, RowInv, OneActivePerRole
<1> HIDE DEF a
<1>7. x.pc = "deactivate" /\ x.id = req[s].id /\ x.seen = a /\ x.off = req[s].off
  BY <1>1 DEF RequestRecord
<1>8. req' = [req EXCEPT ![s] = x] /\ req'[s] = x /\ \A t \in Slots \ {s} : req'[t] = req[t]
  BY <1>2, TypeSplit DEF Inv
<1> HIDE DEF x
<1>9. Live' = Live
  BY DEF Live, Existing, FindActive
<1>10. \A t \in Slots : Locks(t)' = Locks(t)
  BY <1>7, <1>8 DEF Locks, FindActive
<1>11. Disjoint'
  BY <1>10 DEF WaitInv, Disjoint
<1>12. ASSUME NEW t \in Slots PROVE Snapshot(t)'
  <2>1. CASE t = s
    BY <2>1, <1>4, <1>6, <1>7, <1>8, <1>9 DEF Snapshot
  <2>2. CASE t # s
    BY <2>2, <1>8, <1>9 DEF Snapshot, WaitInv
  <2>3. QED
    BY <2>1, <2>2
<1>13. Ordered'
  <2>1. PICK rank \in [Slots -> Nat], n \in Nat :
          /\ \A t \in Slots : rank[t] <= n
          /\ \A p, t \in Slots : Behind(p, t) => rank[p] < rank[t]
    BY DEF WaitInv, Ordered
  <2> DEFINE new == [rank EXCEPT ![s] = n + 1]
  <2>2. /\ new \in [Slots -> Nat] /\ new[s] = n + 1
        /\ \A t \in Slots \ {s} : new[t] = rank[t]
    OBVIOUS
  <2> HIDE DEF new
  <2>3. \A t \in Slots : new[t] <= n + 1
    BY <2>1, <2>2
  <2>4. ASSUME NEW p \in Slots, NEW t \in Slots, Behind(p, t)' PROVE new[p] < new[t]
    <3>1. CASE p = s
      <4>1. req'[t].id \in a /\ req'[t].id \notin req'[t].seen /\ req'[t].pc = "deactivate"
        BY <2>4, <3>1, <1>7, <1>8 DEF Behind
      <4>2. t # s
        BY <4>1, <1>7, <1>8
      <4>3. req[t].id \in Live /\ req[t].pc = "deactivate" /\ req[t].id \notin req[t].seen
        BY <4>1, <4>2, <1>3, <1>8
      <4>4. QED
        BY <4>3 DEF WaitInv, Snapshot
    <3>2. CASE p # s /\ t = s
      BY <3>2, <2>1, <2>2
    <3>3. CASE p # s /\ t # s
      BY <3>3, <2>1, <2>2, <2>4, <1>8 DEF Behind
    <3>4. QED
      BY <3>1, <3>2, <3>3
  <2>5. n + 1 \in Nat
    OBVIOUS
  <2>6. QED
    BY <2>2, <2>3, <2>4, <2>5 DEF Ordered
<1>14. QED
  BY <1>11, <1>12, <1>13 DEF WaitInv

LEMMA InitiallyWaiting ==
  ASSUME Init
  PROVE  WaitInv
<1>1. \A t \in Slots : req[t].pc \in {"idle", "sent"}
  BY SentIsSent DEF Init, NoRequest
<1>2. \A t \in Slots : Locks(t) = {} /\ Snapshot(t)
  BY <1>1 DEF Locks, Snapshot
<1>3. \A p, t \in Slots : ~Behind(p, t)
  BY <1>1 DEF Behind
<1>4. Ordered
  <2> DEFINE rank == [t \in Slots |-> 0]
  <2>1. rank \in [Slots -> Nat] /\ \A t \in Slots : rank[t] <= 0
    OBVIOUS
  <2>2. QED
    BY <2>1, <1>3 DEF Ordered
<1>5. QED
  BY <1>2, <1>4 DEF WaitInv, Disjoint

LEMMA WaitingPreserved ==
  ASSUME Inv, WaitInv, [Next]_vars
  PROVE  WaitInv'
<1>1. CASE UNCHANGED <<row, req>>
  BY <1>1, RequestsUntouched
<1>2. ASSUME NEW s \in Slots, Submit(s) \/ \E r \in Ids : Activate(s, r) PROVE WaitInv'
  BY <1>2, PageWaits
<1>3. ASSUME NEW s \in Slots, ListArrives(s) \/ SaveArrives(s) PROVE WaitInv'
  BY <1>3, PageWaits
<1>4. ASSUME NEW s \in Slots, Handle(s) PROVE WaitInv'
  BY <1>4, ListWaits, WriteWaits, LockTargetWaits, FindActiveWaits,
     DeactivateWaits, SetActiveWaits, CommitWaits DEF Handle
<1>5. ASSUME NEW s \in Slots, Fails(s) PROVE WaitInv'
  BY <1>5, FailureWaits DEF Fails
<1>6. ASSUME NEW r \in Ids, Edit(r) PROVE WaitInv'
  BY <1>1, <1>6 DEF Edit
<1>7. ASSUME NEW q \in Reviews, Start(q) \/ ReadJudgment(q) \/ ReadTriage(q) PROVE WaitInv'
  BY <1>1, <1>7 DEF Start, ReadJudgment, ReadJudgmentOf, ReadTriage
<1>8. CASE CancelEdit \/ TypeKey \/ UNCHANGED vars
  BY <1>1, <1>8 DEF CancelEdit, TypeKey, vars
<1>9. QED
  BY <1>2, <1>3, <1>4, <1>5, <1>6, <1>7, <1>8 DEF Next

(* If everybody waited, nobody would be about to switch its row on: the    *)
(* index holds it up only for another one that does, and the rows the two  *)
(* have taken down would both be active.  So all who hold locks would be   *)
(* waiting for a row that one of them found active, and the one of them    *)
(* that looked last waits for nobody.                                      *)
LEMMA SomebodyGoesOn ==
  ASSUME Inv, WaitInv
  PROVE  NoDeadlock
<1> DEFINE atDatabase == {s \in Slots : req[s].pc \notin {"idle", "ok", "failed"}}
           D == {s \in atDatabase : req[s].pc = "deactivate"}
<1> SUFFICES ASSUME atDatabase # {}, \A s \in atDatabase : Waiting(s)
             PROVE  FALSE
  BY DEF NoDeadlock
<1>1. \A s \in atDatabase : req[s].pc \in {"sent", "deactivate", "activate"}
  BY DEF Waiting
<1>2. ASSUME NEW s \in atDatabase, req[s].pc = "activate"
      PROVE  \E t \in atDatabase \ {s} :
               /\ req[t].pc = "activate"
               /\ req[t].off # {}
               /\ RoleOf[req[t].id] = RoleOf[req[s].id]
  <2>1. IndexBusy(s)
    BY <1>2 DEF Waiting
  <2>2. PICK t \in Slots \ {s} : /\ req[t].on \/ req[t].off # {}
                                 /\ RoleOf[req[t].id] = RoleOf[req[s].id]
    BY <2>1 DEF IndexBusy
  <2>3. req[t].pc \in Writing
    BY <2>2 DEF Inv, RequestInv, TransactionInv, Writing
  <2>4. t \in atDatabase
    BY <2>3 DEF Writing
  <2>5. req[t].pc = "activate"
    BY <2>3, <2>4, <1>1 DEF Writing
  <2>6. ~req[t].on
    BY <2>5 DEF Inv, RequestInv, TransactionInv
  <2>7. QED
    BY <2>2, <2>4, <2>5, <2>6
<1>3. ASSUME NEW s \in atDatabase, req[s].pc = "activate" PROVE FALSE
  <2>1. PICK t \in atDatabase : req[t].pc = "activate" /\ req[t].off # {}
    BY <1>2, <1>3
  <2>2. PICK u \in atDatabase \ {t} : /\ req[u].pc = "activate" /\ req[u].off # {}
                                      /\ RoleOf[req[u].id] = RoleOf[req[t].id]
    BY <1>2, <2>1
  <2>3. PICK i \in req[t].off, j \in req[u].off : TRUE
    BY <2>1, <2>2
  <2>4. /\ i \in Locks(t) /\ j \in Locks(u)
        /\ i \in Live /\ j \in Live
    BY <2>1, <2>2, <2>3 DEF Locks, WaitInv, Snapshot
  <2>5. RoleOf[i] = RoleOf[req[t].id] /\ RoleOf[j] = RoleOf[req[t].id]
    BY <2>1, <2>2, <2>3 DEF Inv, RequestInv, TransactionInv, InTransaction, Writing
  <2>6. i = j
    <3>1. RoleOf[i] \in Roles
      BY <2>4, ProviderAssumption DEF Live, Existing
    <3>2. i \in Active(RoleOf[i]) /\ j \in Active(RoleOf[i])
      BY <2>4, <2>5 DEF Live, Active
    <3>3. QED
      BY <3>1, <3>2 DEF Inv, RowInv, OneActivePerRole
  <2>7. QED
    BY <2>2, <2>4, <2>6 DEF WaitInv, Disjoint
<1>4. ASSUME NEW t \in Slots, Locks(t) # {} PROVE t \in D /\ Locks(t) = {req[t].id}
  <2>1. t \in atDatabase /\ req[t].pc # "sent"
    BY <1>4 DEF Locks
  <2>2. req[t].pc = "deactivate"
    BY <2>1, <1>1, <1>3
  <2>3. req[t].off = {}
    BY <2>2 DEF Inv, RequestInv, TransactionInv, Writing
  <2>4. QED
    BY <2>1, <2>2, <2>3 DEF Locks
<1>5. D # {}
  <2>1. PICK s \in atDatabase : TRUE
    OBVIOUS
  <2>2. \E t \in Slots : Locks(t) # {}
    <3>1. req[s].pc # "activate" /\ Waiting(s)
      BY <1>3
    <3>2. QED
      BY <3>1 DEF Waiting, LockedByOther
  <2>3. QED
    BY <2>2, <1>4
<1>6. ASSUME NEW p \in D PROVE \E t \in D : req[t].id \in req[p].seen /\ t # p
  <2>1. LockedByOther(p, req[p].seen)
    BY <1>6 DEF Waiting
  <2>2. PICK t \in Slots \ {p} : Locks(t) \cap req[p].seen # {}
    BY <2>1 DEF LockedByOther
  <2>3. QED
    BY <2>2, <1>4
<1>7. ASSUME NEW p \in D PROVE req[p].id \notin req[p].seen
  <2>1. SUFFICES ASSUME req[p].id \in req[p].seen PROVE FALSE
    OBVIOUS
  <2>2. PICK t \in D : req[t].id \in req[p].seen /\ t # p
    BY <1>6
  <2>3. req[t].id = req[p].id
    BY <2>1, <2>2 DEF WaitInv, Snapshot
  <2>4. req[p].id \in Locks(p) /\ req[p].id \in Locks(t)
    BY <2>3 DEF Locks
  <2>5. QED
    BY <2>2, <2>4 DEF WaitInv, Disjoint
<1>8. \A p \in D : \E t \in D : Behind(p, t)
  BY <1>6, <1>7 DEF Behind
<1>9. PICK rank \in [Slots -> Nat], n \in Nat :
        /\ \A s \in Slots : rank[s] <= n
        /\ \A p, s \in Slots : Behind(p, s) => rank[p] < rank[s]
  BY DEF WaitInv, Ordered
<1>10. D \subseteq Slots
  OBVIOUS
<1> HIDE DEF D
<1>11. PICK s \in D : \A p \in D : rank[p] <= rank[s]
  BY <1>5, <1>9, <1>10, Latest
<1>12. PICK t \in D : Behind(s, t)
  BY <1>8
<1>13. rank[s] < rank[t] /\ rank[t] <= rank[s]
  BY <1>9, <1>10, <1>11, <1>12
<1>14. rank[s] \in Nat /\ rank[t] \in Nat
  BY <1>9, <1>10
<1>15. QED
  BY <1>13, <1>14

(* However many requests are at the database, they never all wait for one  *)
(* another: two activations of one role that each wait for the row the     *)
(* other has locked cannot both have found the other's active.             *)
THEOREM NobodyStuck == Spec => []NoDeadlock
<1>1. Init => WaitInv
  BY InitiallyWaiting
<1>2. Inv /\ WaitInv /\ [Next]_vars => WaitInv'
  BY WaitingPreserved
<1>3. Inv /\ WaitInv => NoDeadlock
  BY SomebodyGoesOn
<1>4. QED
  BY <1>1, <1>2, <1>3, Invariant, PTL DEF Spec
=============================================================================
