------------------------- MODULE ReviewerTabProofs -------------------------
(***************************************************************************)
(* Proofs about ReviewerTab, for any bound on the requests in flight, the  *)
(* sessions and the polls of pages that were left.                         *)
(*                                                                         *)
(* The argument is about what is in flight: the requests of the page that  *)
(* is shown are of the kinds this page asks for, at most one of them asks  *)
(* for the run, and what has been answered is still true of the run.       *)
(***************************************************************************)
EXTENDS ReviewerTab, FiniteSetTheorems, TLAPS

Kinds == {"none", "login", "run", "findings", "cards", "detail", "other"}
Replies == {"none", "session", "401", "error", "active", "some", "empty"} \cup Terminal

RequestRecord ==
  [kind : Kinds, owner : {"page", "left"}, token : 0..Tokens, reply : Replies]

PageRecord ==
  [run : {"none", "active"} \cup Terminal, error : BOOLEAN, timer : BOOLEAN,
   found : {"none", "some", "empty"}, card : {"none", "active"} \cup Terminal]

RunRecord == [status : {"active"} \cup Terminal, found : BOOLEAN]

(* What a page asks for.                                                   *)
PageKinds(p) ==
  CASE p = "login" -> {"login"}
    [] p = "results" -> {"run", "findings"}
    [] p = "student" -> {"cards", "detail"}
    [] OTHER -> {}

(* The row of a run, which the cards show, ends like the run, but for a    *)
(* cancelled one.                                                          *)
EndedAs(s) == s # "cancelled" /\ run.status \in {s, "cancelled"}

(* What an answer on its way says holds when it arrives.                   *)
Truthful(q) ==
  /\ (q.reply = "session") => q.kind = "login" /\ q.token # 0
  /\ (q.reply \in Terminal) =>
       IF q.kind = "cards" THEN EndedAs(q.reply) ELSE run.status = q.reply
  /\ (q.reply = "some") => run.found

OfPageKind(q, p) == (q.owner = "page") => q.kind \in PageKinds(p)

RequestsInv ==
  \A x \in Slots : Truthful(requests[x]) /\ OfPageKind(requests[x], route)

(* What a page shows is true of the run, only the results page has a timer,*)
(* and the login page has nothing.                                         *)
PageInv ==
  /\ (page.run \in Terminal) => run.status = page.run /\ route = "results"
  /\ (page.card \in Terminal) => EndedAs(page.card)
  /\ (page.found = "some") => run.found
  /\ (session = 0) => route = "login"
  /\ (route = "login") => page = Blank
  /\ (route # "results") => ~page.timer

(* A results page waits for its timer or for one request, or is settled.   *)
PollInv ==
  (route = "results") =>
    IF Settled THEN InFlight("run", "page") = {} /\ ~page.timer
    ELSE \/ page.timer /\ InFlight("run", "page") = {}
         \/ ~page.timer /\ \E x \in Slots : InFlight("run", "page") = {x}

(* The poll of a results page can still be left behind.                    *)
QuotaInv ==
  /\ LeftPolls(requests) <= MaxStrays
  /\ (route = "results" /\ ~Settled) => LeftPolls(requests) < MaxStrays

Inv == TypeOK /\ RequestsInv /\ PageInv /\ PollInv /\ QuotaInv

-----------------------------------------------------------------------------
(* Lemmas about requests.                                                  *)

LEMMA TypeSplit ==
  TypeOK <=> /\ session \in 0..Tokens
             /\ route \in GuardedPages \cup {"login"}
             /\ page \in PageRecord
             /\ requests \in [Slots -> RequestRecord]
             /\ strays \in 0..MaxStrays
             /\ accepted \subseteq 1..Tokens
             /\ run \in RunRecord
             /\ known \in BOOLEAN
  BY DEF TypeOK, PageRecord, RequestRecord, RunRecord, Kinds, Replies

LEMMA NoRequestFields ==
  /\ NoRequest \in RequestRecord
  /\ NoRequest.kind = "none" /\ NoRequest.owner = "left" /\ NoRequest.reply = "none"
  BY TabAssumption DEF NoRequest, RequestRecord, Kinds, Replies

LEMMA RequestFields ==
  ASSUME NEW kind \in Kinds, NEW owner \in {"page", "left"}, NEW s \in 0..Tokens
  PROVE  LET q == Request(kind, owner, s)
         IN  /\ q \in RequestRecord
             /\ q.kind = Kind(kind, owner) /\ q.owner = owner /\ q.reply = "none"
  BY TabAssumption DEF Request, RequestRecord, Kind, Kinds, Replies

(* A request that has not been answered says nothing yet.                  *)
LEMMA Silent ==
  ASSUME NEW q, q.reply = "none"
  PROVE  Truthful(q)
  BY DEF Truthful, EndedAs, Terminal

(* The polls are finitely many.                                            *)
LEMMA AskedFinite ==
  ASSUME NEW reqs, NEW kind, NEW owner
  PROVE  /\ IsFiniteSet(Asked(reqs, kind, owner))
         /\ Cardinality(Asked(reqs, kind, owner)) \in Nat
<1>1. Asked(reqs, kind, owner) \in SUBSET Slots
  BY DEF Asked
<1>2. IsFiniteSet(Asked(reqs, kind, owner))
  BY <1>1, FS_Subset, TabAssumption
<1>3. QED
  BY <1>2, FS_CardinalityType

LEMMA AskedPrimed ==
  ASSUME NEW kind, NEW owner
  PROVE  /\ InFlight(kind, owner)' = Asked(requests', kind, owner)
         /\ LeftPolls(requests)' = strays' + Cardinality(Asked(requests', "run", "left"))
  BY DEF InFlight, Asked, LeftPolls

(* One slot gets another request, or is freed.                             *)
LEMMA Put ==
  ASSUME NEW reqs \in [Slots -> RequestRecord], NEW x \in Slots, NEW q \in RequestRecord,
         NEW r, r = [reqs EXCEPT ![x] = q]
  PROVE  /\ r \in [Slots -> RequestRecord]
         /\ r[x] = q
         /\ \A y \in Slots \ {x} : r[y] = reqs[y]
  OBVIOUS

LEMMA FreeFinite ==
  ASSUME NEW reqs
  PROVE  IsFiniteSet(Free(reqs)) /\ Cardinality(Free(reqs)) \in Nat
<1>1. Free(reqs) \in SUBSET Slots
  BY DEF Free
<1>2. IsFiniteSet(Free(reqs))
  BY <1>1, FS_Subset, TabAssumption
<1>3. QED
  BY <1>2, FS_CardinalityType

(* A request is sent in a free slot, which is then no longer free.         *)
LEMMA SentSomewhere ==
  ASSUME NEW reqs \in [Slots -> RequestRecord], NEW q \in RequestRecord,
         NEW n \in Nat \ {0}, Fits(reqs, n), q.kind # "none"
  PROVE  /\ \E c \in Slots : reqs[c].kind = "none" /\ Sent(reqs, q) = [reqs EXCEPT ![c] = q]
         /\ Fits(Sent(reqs, q), n - 1)
<1> DEFINE f == Free(reqs)
           c == CHOOSE x \in f : TRUE
<1>1. IsFiniteSet(f) /\ Cardinality(f) \in Nat /\ Cardinality(f) >= n
  BY FreeFinite DEF Fits
<1>2. f # {}
  BY <1>1, FS_EmptySet
<1>3. c \in f
  BY <1>2
<1>4. c \in Slots /\ reqs[c].kind = "none"
  BY <1>3 DEF Free
<1>5. Sent(reqs, q) = [reqs EXCEPT ![c] = q]
  BY DEF Sent
<1> HIDE DEF f, c
<1>6. Free(Sent(reqs, q)) = f \ {c}
  <2>1. /\ Sent(reqs, q)[c] = q
        /\ \A y \in Slots \ {c} : Sent(reqs, q)[y] = reqs[y]
    BY <1>4, <1>5
  <2>2. QED
    BY <2>1, <1>4 DEF Free, f
<1>7. Cardinality(f \ {c}) = Cardinality(f) - 1
  BY <1>1, <1>3, FS_RemoveElement
<1>8. Fits(Sent(reqs, q), n - 1)
  BY <1>1, <1>6, <1>7 DEF Fits
<1>9. QED
  BY <1>4, <1>5, <1>8

(* What is in flight after a request was sent: no request but this one is  *)
(* new, and the polls are the same unless it is one.                       *)
LEMMA SentOne ==
  ASSUME NEW reqs \in [Slots -> RequestRecord], NEW q \in RequestRecord,
         NEW n \in Nat \ {0}, Fits(reqs, n), q.kind # "none",
         NEW r, r = Sent(reqs, q)
  PROVE  /\ r \in [Slots -> RequestRecord]
         /\ Fits(r, n - 1)
         /\ \A x \in Slots : r[x] = reqs[x] \/ r[x] = q
<1>1. PICK c \in Slots : reqs[c].kind = "none" /\ r = [reqs EXCEPT ![c] = q]
  BY SentSomewhere
<1>2. Fits(r, n - 1)
  BY SentSomewhere
<1>3. QED
  BY <1>1, <1>2, Put

LEMMA SentAsked ==
  ASSUME NEW reqs \in [Slots -> RequestRecord], NEW q \in RequestRecord,
         Fits(reqs, 1), q.kind # "none",
         NEW r, r = Sent(reqs, q), NEW owner
  PROVE  /\ (q.kind # "run" \/ q.owner # owner) =>
              Asked(r, "run", owner) = Asked(reqs, "run", owner)
         /\ (q.kind = "run" /\ q.owner = owner) =>
              \E c \in Slots \ Asked(reqs, "run", owner) :
                Asked(r, "run", owner) = Asked(reqs, "run", owner) \cup {c}
<1>1. PICK c \in Slots : reqs[c].kind = "none" /\ r = [reqs EXCEPT ![c] = q]
  BY SentSomewhere
<1>2. /\ (q.kind = "run" /\ q.owner = owner) =>
           Asked(r, "run", owner) = Asked(reqs, "run", owner) \cup {c}
      /\ (q.kind # "run" \/ q.owner # owner) =>
           Asked(r, "run", owner) = Asked(reqs, "run", owner) \ {c}
  <2>1. r[c] = q /\ \A y \in Slots \ {c} : r[y] = reqs[y]
    BY <1>1, Put
  <2>2. QED
    BY <2>1, <1>1 DEF Asked
<1>3. c \notin Asked(reqs, "run", owner)
  BY <1>1 DEF Asked
<1>4. QED
  BY <1>2, <1>3

(* Both requests of loadRun: one more poll, for the owner only.            *)
LEMMA LoadRunSends ==
  ASSUME NEW reqs \in [Slots -> RequestRecord], NEW owner \in {"page", "left"},
         NEW s \in 0..Tokens, Fits(reqs, 2), NEW r, r = LoadRun(reqs, owner, s)
  PROVE  /\ r \in [Slots -> RequestRecord]
         /\ \A x \in Slots :
              \/ r[x] = reqs[x]
              \/ /\ r[x].owner = owner /\ r[x].reply = "none"
                 /\ (owner = "page") => r[x].kind \in {"run", "findings"}
         /\ \E c \in Slots \ Asked(reqs, "run", owner) :
              Asked(r, "run", owner) = Asked(reqs, "run", owner) \cup {c}
         /\ (owner = "page") => Asked(r, "run", "left") = Asked(reqs, "run", "left")
         /\ (owner = "left") => Asked(r, "run", "page") = Asked(reqs, "run", "page")
<1> DEFINE q1 == Request("run", owner, s)
           q2 == Request("findings", owner, s)
           m == Sent(reqs, q1)
<1>1. /\ q1 \in RequestRecord /\ q1.kind = "run" /\ q1.owner = owner /\ q1.reply = "none"
      /\ q2 \in RequestRecord /\ q2.kind = Kind("findings", owner) /\ q2.owner = owner
      /\ q2.reply = "none"
  BY RequestFields DEF Kinds, Kind
<1>2. q2.kind \in {"findings", "other"} /\ ((owner = "page") => q2.kind = "findings")
  BY <1>1 DEF Kind
<1>3. r = Sent(m, q2)
  BY DEF LoadRun
<1> HIDE DEF q1, q2
<1>4. Fits(reqs, 1)
  BY FreeFinite DEF Fits
<1>5. /\ m \in [Slots -> RequestRecord]
      /\ Fits(m, 2 - 1)
      /\ \A x \in Slots : m[x] = reqs[x] \/ m[x] = q1
  BY <1>1, <1>4, SentOne
<1>6. \E c \in Slots \ Asked(reqs, "run", owner) :
        Asked(m, "run", owner) = Asked(reqs, "run", owner) \cup {c}
  BY <1>1, <1>4, SentAsked
<1>7. \A o \in {"page", "left"} : (o # owner) => Asked(m, "run", o) = Asked(reqs, "run", o)
  BY <1>1, <1>4, SentAsked
<1> HIDE DEF m
<1>8. Fits(m, 1)
  BY <1>5
<1>9. /\ r \in [Slots -> RequestRecord]
      /\ \A x \in Slots : r[x] = m[x] \/ r[x] = q2
  BY <1>1, <1>2, <1>3, <1>5, <1>8, SentOne
<1>10. \A o \in {"page", "left"} : Asked(r, "run", o) = Asked(m, "run", o)
  BY <1>1, <1>2, <1>3, <1>5, <1>8, SentAsked
<1>11. \A x \in Slots :
        \/ r[x] = reqs[x]
        \/ /\ r[x].owner = owner /\ r[x].reply = "none"
           /\ (owner = "page") => r[x].kind \in {"run", "findings"}
  BY <1>1, <1>2, <1>5, <1>9
<1>12. \E c \in Slots \ Asked(reqs, "run", owner) :
        Asked(r, "run", owner) = Asked(reqs, "run", owner) \cup {c}
  BY <1>6, <1>10
<1>13. QED
  BY <1>7, <1>9, <1>10, <1>11, <1>12

(* The requests of a page that is left: what they say stays true, none is  *)
(* the next page's, and its polls join those of earlier pages.             *)
LEMMA Leaving ==
  ASSUME NEW reqs \in [Slots -> RequestRecord], NEW r, r = Left(reqs)
  PROVE  /\ r \in [Slots -> RequestRecord]
         /\ \A x \in Slots : r[x].owner = "left" /\ (Truthful(reqs[x]) => Truthful(r[x]))
         /\ Asked(r, "run", "page") = {}
         /\ Asked(r, "run", "left") \subseteq
              Asked(reqs, "run", "left") \cup Asked(reqs, "run", "page")
<1>1. ASSUME NEW x \in Slots
      PROVE  /\ r[x] \in RequestRecord /\ r[x].owner = "left"
             /\ Truthful(reqs[x]) => Truthful(r[x])
             /\ (r[x].kind = "run") => reqs[x].kind = "run"
  <2> DEFINE k == Kind(reqs[x].kind, "left")
             q == [reqs[x] EXCEPT !.owner = "left", !.kind = k]
  <2>1. r[x] = Kept(q)
    BY DEF Left
  <2>2. k \in Kinds
    BY DEF Kind, Kinds, RequestRecord
  <2>3. /\ k \in {reqs[x].kind, "other"}
        /\ (reqs[x].kind \in {"login", "cards"}) => k = reqs[x].kind
    BY DEF Kind
  <2> HIDE DEF k
  <2>4. /\ q \in RequestRecord /\ q.owner = "left" /\ q.kind = k
        /\ q.token = reqs[x].token /\ q.reply = reqs[x].reply
    BY <2>2 DEF RequestRecord
  <2> HIDE DEF q
  <2>5. Truthful(reqs[x]) => Truthful(q)
    BY <2>3, <2>4 DEF Truthful, EndedAs
  <2>6. CASE r[x] = q
    BY <2>3, <2>4, <2>5, <2>6
  <2>7. CASE r[x] = NoRequest
    BY <2>7, NoRequestFields, Silent
  <2>8. QED
    BY <2>1, <2>6, <2>7 DEF Kept
<1>2. r \in [Slots -> RequestRecord]
  BY <1>1 DEF Left
<1>3. Asked(r, "run", "page") = {}
  BY <1>1 DEF Asked
<1>4. Asked(r, "run", "left") \subseteq
        Asked(reqs, "run", "left") \cup Asked(reqs, "run", "page")
  <2> SUFFICES ASSUME NEW x \in Slots, r[x].kind = "run"
               PROVE  x \in Asked(reqs, "run", "left") \cup Asked(reqs, "run", "page")
    BY DEF Asked
  <2>1. reqs[x].kind = "run" /\ reqs[x].owner \in {"page", "left"}
    BY <1>1 DEF RequestRecord
  <2>2. QED
    BY <2>1 DEF Asked
<1>5. QED
  BY <1>1, <1>2, <1>3, <1>4

(* Fewer polls are not more.                                               *)
LEMMA Fewer ==
  ASSUME NEW reqs, NEW S, S \subseteq Asked(reqs, "run", "left")
  PROVE  Cardinality(S) \in Nat /\ Cardinality(S) <= Cardinality(Asked(reqs, "run", "left"))
  BY AskedFinite, FS_Subset, FS_CardinalityType

-----------------------------------------------------------------------------
(* The invariant holds initially, and steps preserve it.                   *)

(* A page other than the results page polls nothing.                       *)
LEMMA NoPolls ==
  ASSUME Inv, route # "results"
  PROVE  InFlight("run", "page") = {}
<1> SUFFICES ASSUME NEW x \in InFlight("run", "page")
             PROVE  FALSE
  OBVIOUS
<1>1. x \in Slots /\ requests[x].kind = "run" /\ requests[x].owner = "page"
  BY DEF InFlight, Asked
<1>2. "run" \in PageKinds(route)
  BY <1>1 DEF Inv, RequestsInv, OfPageKind
<1>3. route \in {"login", "student", "other"}
  BY TypeSplit DEF Inv, GuardedPages
<1>4. QED
  BY <1>2, <1>3 DEF PageKinds

(* Every poll can be left behind.                                          *)
LEMMA Room ==
  ASSUME Inv
  PROVE  /\ LeftPolls(requests) \in Nat
         /\ Cardinality(InFlight("run", "left")) \in Nat
         /\ \A S : S \subseteq InFlight("run", "left") \cup InFlight("run", "page")
                     => strays + Cardinality(S) <= MaxStrays
<1>1. strays \in Nat /\ MaxStrays \in Nat /\ Slots # {}
  <2>1. Slots # {}
    BY TabAssumption, FS_EmptySet
  <2>2. QED
    BY <2>1, TypeSplit, TabAssumption DEF Inv
<1> DEFINE L == InFlight("run", "left")
           O == InFlight("run", "page")
<1>2. IsFiniteSet(L) /\ Cardinality(L) \in Nat
  BY AskedFinite DEF InFlight
<1>3. strays + Cardinality(L) = LeftPolls(requests)
  BY DEF LeftPolls, InFlight
<1>4. ASSUME NEW S, S \subseteq L \cup O
      PROVE  strays + Cardinality(S) <= MaxStrays
  <2>1. CASE O = {}
    <3>1. IsFiniteSet(S) /\ Cardinality(S) \in Nat /\ Cardinality(S) <= Cardinality(L)
      BY <1>2, <1>4, <2>1, FS_Subset, FS_CardinalityType
    <3>2. LeftPolls(requests) <= MaxStrays
      BY DEF Inv, QuotaInv
    <3>3. QED
      BY <1>1, <1>2, <1>3, <3>1, <3>2
  <2>2. CASE O # {}
    <3>1. route = "results"
      BY <2>2, NoPolls
    <3>2. ~Settled /\ \E x \in Slots : O = {x}
      BY <2>2, <3>1 DEF Inv, PollInv
    <3>3. PICK x \in Slots : O = {x}
      BY <3>2
    <3>4. LeftPolls(requests) < MaxStrays
      BY <3>1, <3>2 DEF Inv, QuotaInv
    <3>5. /\ IsFiniteSet(L \cup {x}) /\ Cardinality(L \cup {x}) \in Nat
          /\ Cardinality(L \cup {x}) <= Cardinality(L) + 1
      <4> HIDE DEF L
      <4>1. /\ IsFiniteSet(L \cup {x})
            /\ Cardinality(L \cup {x}) = IF x \in L THEN Cardinality(L) ELSE Cardinality(L) + 1
        BY <1>2, FS_AddElement
      <4>2. QED
        BY <1>2, <4>1
    <3>6. Cardinality(S) \in Nat /\ Cardinality(S) <= Cardinality(L \cup {x})
      BY <1>4, <3>3, <3>5, FS_Subset, FS_CardinalityType
    <3>7. QED
      BY <1>1, <1>2, <1>3, <3>4, <3>5, <3>6
  <2>3. QED
    BY <2>1, <2>2
<1>5. QED
  BY <1>1, <1>2, <1>3, <1>4

(* Steps after which the page polls as before and no more polls are left   *)
(* behind.                                                                 *)
LEMMA PollsKept ==
  ASSUME Inv, route' = route, page'.timer = page.timer,
         (route = "results") => (Settled' <=> Settled),
         Asked(requests', "run", "page") = Asked(requests, "run", "page"),
         strays' = strays,
         Asked(requests', "run", "left") \subseteq Asked(requests, "run", "left")
  PROVE  PollInv' /\ QuotaInv'
<1>1. InFlight("run", "page")' = InFlight("run", "page")
  BY AskedPrimed DEF InFlight
<1>2. LeftPolls(requests)' = strays + Cardinality(Asked(requests', "run", "left"))
  BY AskedPrimed
<1>3. /\ Cardinality(Asked(requests', "run", "left")) \in Nat
      /\ Cardinality(Asked(requests', "run", "left")) <= Cardinality(Asked(requests, "run", "left"))
      /\ Cardinality(Asked(requests, "run", "left")) \in Nat
  BY Fewer, AskedFinite
<1>4. strays \in Nat /\ MaxStrays \in Nat
  BY TypeSplit, TabAssumption DEF Inv
<1>5. LeftPolls(requests)' \in Nat /\ LeftPolls(requests)' <= LeftPolls(requests)
  BY <1>2, <1>3, <1>4 DEF LeftPolls
<1>6. LeftPolls(requests) \in Nat
  BY Room
<1>7. PollInv'
  BY <1>1 DEF Inv, PollInv
<1>8. QuotaInv'
  BY <1>4, <1>5, <1>6 DEF Inv, QuotaInv
<1>9. QED
  BY <1>7, <1>8

(* A slot's request is answered, or forgotten; a poll of the page that is  *)
(* shown is not forgotten.                                                 *)
LEMMA SlotStep ==
  ASSUME Inv, NEW x \in Slots, NEW q \in RequestRecord,
         requests' = [requests EXCEPT ![x] = q], Truthful(q),
         \/ q.kind = requests[x].kind /\ q.owner = requests[x].owner
         \/ q = NoRequest /\ ~(requests[x].kind = "run" /\ requests[x].owner = "page"),
         session' \in 0..Tokens, page' \in PageRecord, accepted' \subseteq 1..Tokens,
         UNCHANGED <<route, strays, run, known>>,
         PageInv', page'.timer = page.timer,
         (route = "results") => (Settled' <=> Settled)
  PROVE  Inv'
<1> TypeOK
  BY DEF Inv
<1>1. /\ requests' \in [Slots -> RequestRecord] /\ requests'[x] = q
      /\ \A y \in Slots \ {x} : requests'[y] = requests[y]
  BY TypeSplit, Put
<1>2. TypeOK'
  <2>1. /\ route \in GuardedPages \cup {"login"} /\ strays \in 0..MaxStrays
        /\ run \in RunRecord /\ known \in BOOLEAN
    BY TypeSplit
  <2>2. QED
    BY <1>1, <2>1 DEF TypeOK, PageRecord, RequestRecord, RunRecord, Kinds, Replies
<1>3. RequestsInv'
  <2> SUFFICES ASSUME NEW y \in Slots
               PROVE  Truthful(requests[y])' /\ OfPageKind(requests[y], route)'
    BY DEF RequestsInv
  <2>1. CASE y = x
    <3>1. Truthful(requests[y])'
      BY <1>1, <2>1 DEF Truthful, EndedAs
    <3>2. OfPageKind(requests[y], route)'
      BY <1>1, <2>1, NoRequestFields DEF Inv, RequestsInv, OfPageKind
    <3>3. QED
      BY <3>1, <3>2
  <2>2. CASE y # x
    BY <1>1, <2>2 DEF Inv, RequestsInv, Truthful, EndedAs, OfPageKind
  <2>3. QED
    BY <2>1, <2>2
<1>4. /\ Asked(requests', "run", "page") = Asked(requests, "run", "page")
      /\ Asked(requests', "run", "left") \subseteq Asked(requests, "run", "left")
  BY <1>1, NoRequestFields DEF Asked
<1>5. PollInv' /\ QuotaInv'
  BY <1>4, PollsKept
<1>6. QED
  BY <1>2, <1>3, <1>5 DEF Inv

(* The router shows another page.                                          *)
LEMMA ShowStep ==
  ASSUME Inv, NEW p \in GuardedPages \cup {"login"}, NEW s \in 0..Tokens,
         (s = 0) => p = "login",
         NEW reqs \in [Slots -> RequestRecord],
         \A x \in Slots : reqs[x] = requests[x] \/ reqs[x] = NoRequest,
         Show(p, s, reqs), UNCHANGED <<strays, apiVars>>
  PROVE  Inv'
<1> TypeOK
  BY DEF Inv
<1> DEFINE old == Left(reqs)
<1>1. /\ session' = s /\ route' = p /\ page' = Blank
      /\ requests' = FirstRequests(p, old, s)
      /\ Fits(old, Needs(p))
      /\ (p = "results") => LeftPolls(old) < MaxStrays
  BY DEF Show
<1>2. \A x \in Slots : Truthful(reqs[x])
  BY NoRequestFields, Silent DEF Inv, RequestsInv
<1>3. /\ old \in [Slots -> RequestRecord]
      /\ \A x \in Slots : old[x].owner = "left" /\ Truthful(old[x])
      /\ Asked(old, "run", "page") = {}
      /\ Asked(old, "run", "left") \subseteq
           Asked(reqs, "run", "left") \cup Asked(reqs, "run", "page")
  BY <1>2, Leaving
<1> HIDE DEF old
<1>4. Asked(reqs, "run", "left") \cup Asked(reqs, "run", "page")
        \subseteq InFlight("run", "left") \cup InFlight("run", "page")
  BY NoRequestFields DEF Asked, InFlight
<1>5. strays + Cardinality(Asked(old, "run", "left")) <= MaxStrays
  BY <1>3, <1>4, Room
<1>6. /\ requests' \in [Slots -> RequestRecord]
      /\ \A x \in Slots :
           \/ requests'[x] = old[x]
           \/ requests'[x].reply = "none" /\ requests'[x].kind \in PageKinds(p)
      /\ Asked(requests', "run", "left") = Asked(old, "run", "left")
      /\ (p = "results") => \E c \in Slots : Asked(requests', "run", "page") = {c}
  <2>1. CASE p = "results"
    <3>1. requests' = LoadRun(old, "page", s) /\ Fits(old, 2)
      BY <1>1, <2>1 DEF FirstRequests, Needs
    <3>2. /\ requests' \in [Slots -> RequestRecord]
          /\ \A x \in Slots :
               \/ requests'[x] = old[x]
               \/ requests'[x].reply = "none" /\ requests'[x].kind \in {"run", "findings"}
          /\ \E c \in Slots \ Asked(old, "run", "page") :
               Asked(requests', "run", "page") = Asked(old, "run", "page") \cup {c}
          /\ Asked(requests', "run", "left") = Asked(old, "run", "left")
      BY <1>3, <3>1, LoadRunSends
    <3>3. PageKinds(p) = {"run", "findings"}
      BY <2>1 DEF PageKinds
    <3>4. \E c \in Slots : Asked(requests', "run", "page") = {c}
      BY <1>3, <3>2
    <3>5. QED
      BY <3>2, <3>3, <3>4
  <2>2. CASE p = "student"
    <3> DEFINE q == Request("cards", "page", s)
    <3>1. requests' = Sent(old, q) /\ Fits(old, 1)
      BY <1>1, <2>2 DEF FirstRequests, Needs
    <3>2. q \in RequestRecord /\ q.kind = "cards" /\ q.owner = "page" /\ q.reply = "none"
      BY RequestFields DEF Kinds, Kind
    <3> HIDE DEF q
    <3>4. /\ requests' \in [Slots -> RequestRecord]
          /\ \A x \in Slots : requests'[x] = old[x] \/ requests'[x] = q
      BY <1>3, <3>1, <3>2, SentOne
    <3>5. Asked(requests', "run", "left") = Asked(old, "run", "left")
      BY <1>3, <3>1, <3>2, SentAsked
    <3>6. PageKinds(p) = {"cards", "detail"}
      BY <2>2 DEF PageKinds
    <3>7. QED
      BY <2>2, <3>2, <3>4, <3>5, <3>6
  <2>3. CASE p \notin {"results", "student"}
    <3>1. requests' = old
      BY <1>1, <2>3 DEF FirstRequests
    <3>2. QED
      BY <1>3, <2>3, <3>1
  <2>4. QED
    BY <2>1, <2>2, <2>3
<1>7. TypeOK'
  <2>1. /\ strays \in 0..MaxStrays /\ accepted \subseteq 1..Tokens
        /\ run \in RunRecord /\ known \in BOOLEAN
    BY TypeSplit
  <2>2. Blank \in PageRecord
    BY DEF Blank, PageRecord, Terminal
  <2>3. QED
    BY <1>1, <1>6, <2>1, <2>2
       DEF TypeOK, PageRecord, RequestRecord, RunRecord, Kinds, Replies, apiVars
<1>8. RequestsInv'
  <2> SUFFICES ASSUME NEW x \in Slots
               PROVE  Truthful(requests[x])' /\ OfPageKind(requests[x], route)'
    BY DEF RequestsInv
  <2>1. Truthful(requests[x])'
    BY <1>3, <1>6 DEF Truthful, EndedAs, Terminal, apiVars
  <2>2. OfPageKind(requests[x], route)'
    BY <1>1, <1>3, <1>6 DEF OfPageKind
  <2>3. QED
    BY <2>1, <2>2
<1>9. PageInv'
  BY <1>1 DEF PageInv, EndedAs, Blank, Terminal
<1>10. (p = "results") => ~Settled'
  BY <1>1 DEF Settled, ResultsView, Blank
<1>11. PollInv'
  <2>1. page'.timer = FALSE
    BY <1>1 DEF Blank
  <2>2. InFlight("run", "page")' = Asked(requests', "run", "page")
    BY AskedPrimed
  <2>3. QED
    BY <1>1, <1>6, <1>10, <2>1, <2>2 DEF PollInv
<1>12. QuotaInv'
  <2>1. LeftPolls(requests)' = strays + Cardinality(Asked(old, "run", "left"))
    BY <1>6, AskedPrimed
  <2>2. LeftPolls(old) = strays + Cardinality(Asked(old, "run", "left"))
    BY DEF LeftPolls
  <2>3. (p = "results") => LeftPolls(requests)' < MaxStrays
    BY <1>1, <2>1, <2>2 DEF old
  <2>4. QED
    BY <1>1, <1>5, <2>1, <2>3 DEF QuotaInv
<1>13. QED
  BY <1>7, <1>8, <1>9, <1>11, <1>12 DEF Inv

-----------------------------------------------------------------------------
(* The reviewer.                                                           *)

LEMMA NavigateKeeps ==
  ASSUME Inv, NEW p \in GuardedPages \cup {"login"}, Navigate(p)
  PROVE  Inv'
<1> DEFINE d == RequireSession(p)
<1>1. session \in 0..Tokens /\ requests \in [Slots -> RequestRecord]
  BY TypeSplit DEF Inv
<1>2. d \in GuardedPages \cup {"login"} /\ ((session = 0) => d = "login")
  BY DEF RequireSession
<1>3. Show(d, session, requests) /\ UNCHANGED <<strays, apiVars>>
  BY DEF Navigate
<1> HIDE DEF d
<1>4. QED
  BY <1>1, <1>2, <1>3, ShowStep

LEMMA SubmitLoginKeeps ==
  ASSUME Inv, SubmitLogin
  PROVE  Inv'
<1> DEFINE q == Request("login", "page", session)
<1> TypeOK
  BY DEF Inv
<1>1. /\ route = "login" /\ Fits(requests, 1) /\ requests' = Sent(requests, q)
      /\ UNCHANGED <<session, route, page, strays, apiVars>>
  BY DEF SubmitLogin
<1>2. session \in 0..Tokens /\ requests \in [Slots -> RequestRecord]
  BY TypeSplit
<1>3. q \in RequestRecord /\ q.kind = "login" /\ q.owner = "page" /\ q.reply = "none"
  BY <1>2, RequestFields DEF Kinds, Kind
<1> HIDE DEF q
<1>4. /\ requests' \in [Slots -> RequestRecord]
      /\ \A x \in Slots : requests'[x] = requests[x] \/ requests'[x] = q
  BY <1>1, <1>2, <1>3, SentOne
<1>5. /\ Asked(requests', "run", "page") = Asked(requests, "run", "page")
      /\ Asked(requests', "run", "left") = Asked(requests, "run", "left")
  BY <1>1, <1>2, <1>3, SentAsked
<1>6. TypeOK'
  <2>1. /\ requests' \in [Slots ->
             [kind : Kinds, owner : {"page", "left"}, token : 0..Tokens, reply : Replies]]
    BY <1>4 DEF RequestRecord
  <2>2. QED
    BY <1>1, <2>1 DEF TypeOK, Kinds, Replies, apiVars
<1>7. RequestsInv'
  <2> SUFFICES ASSUME NEW x \in Slots
               PROVE  Truthful(requests[x])' /\ OfPageKind(requests[x], route)'
    BY DEF RequestsInv
  <2>1. CASE requests'[x] = requests[x]
    BY <1>1, <2>1 DEF Inv, RequestsInv, Truthful, EndedAs, OfPageKind, apiVars
  <2>2. CASE requests'[x] = q
    BY <1>1, <1>3, <2>2 DEF Truthful, EndedAs, OfPageKind, PageKinds, Terminal
  <2>3. QED
    BY <1>4, <2>1, <2>2
<1>8. PageInv'
  BY <1>1 DEF Inv, PageInv, EndedAs, apiVars
<1>9. PollInv' /\ QuotaInv'
  BY <1>1, <1>5, PollsKept DEF Settled, ResultsView
<1>10. QED
  BY <1>6, <1>7, <1>8, <1>9 DEF Inv

(* A tab that starts.                                                      *)
LEMMA Fresh ==
  ASSUME session = 0, route = "login", page = Blank, strays = 0,
         requests = [x \in Slots |-> NoRequest],
         accepted \subseteq 1..Tokens, run \in RunRecord, known \in BOOLEAN
  PROVE  Inv
<1>1. TypeOK
  <2>1. requests \in [Slots -> RequestRecord]
    BY NoRequestFields
  <2>2. Blank \in PageRecord
    BY DEF Blank, PageRecord, Terminal
  <2>3. QED
    BY <2>1, <2>2, TypeSplit, TabAssumption
<1>2. RequestsInv
  BY NoRequestFields, Silent DEF RequestsInv, OfPageKind
<1>3. PageInv
  BY DEF PageInv, EndedAs, Blank, Terminal
<1>4. Asked(requests, "run", "left") = {}
  BY NoRequestFields DEF Asked
<1>5. LeftPolls(requests) <= MaxStrays
  BY <1>4, FS_EmptySet, TabAssumption DEF LeftPolls
<1>6. QED
  BY <1>1, <1>2, <1>3, <1>5 DEF Inv, PollInv, QuotaInv

LEMMA ReloadKeeps ==
  ASSUME Inv, Reload
  PROVE  Inv'
<1>1. accepted' \subseteq 1..Tokens /\ run' \in RunRecord /\ known' \in BOOLEAN
  BY TypeSplit DEF Inv, Reload, apiVars
<1>2. (session = 0 /\ route = "login" /\ page = Blank /\ strays = 0
         /\ requests = [x \in Slots |-> NoRequest])'
  BY DEF Reload, NoRequest, Blank
<1>3. (accepted \subseteq 1..Tokens /\ run \in RunRecord /\ known \in BOOLEAN)'
  BY <1>1 DEF RunRecord, Terminal
<1>4. QED
  BY <1>2, <1>3, Fresh, PTL

-----------------------------------------------------------------------------
(* The API.                                                                *)

(* A request is answered or fails, and nothing else changes in the tab.    *)
LEMMA ReplyKeeps ==
  ASSUME Inv, NEW x \in Slots, NEW r \in Replies, NEW t \in 0..Tokens, Reply(x, r, t),
         Truthful([requests[x] EXCEPT !.reply = r, !.token = t]),
         accepted' \subseteq 1..Tokens,
         UNCHANGED <<session, route, page, strays, run, known>>
  PROVE  Inv'
<1> DEFINE q == [requests[x] EXCEPT !.reply = r, !.token = t]
<1>1. /\ session \in 0..Tokens /\ page \in PageRecord
      /\ requests \in [Slots -> RequestRecord]
  BY TypeSplit DEF Inv
<1>2. /\ q \in RequestRecord /\ q.kind = requests[x].kind /\ q.owner = requests[x].owner
  BY <1>1 DEF RequestRecord
<1>3. requests' = [requests EXCEPT ![x] = Kept(q)]
  BY DEF Reply
<1>4. Truthful(q)
  OBVIOUS
<1> HIDE DEF q
<1>5. /\ Kept(q) \in RequestRecord /\ Truthful(Kept(q))
      /\ \/ Kept(q) = q
         \/ Kept(q) = NoRequest /\ q.owner # "page"
  BY <1>2, <1>4, NoRequestFields, Silent DEF Kept, Matters
<1>6. PageInv'
  BY DEF Inv, PageInv, EndedAs
<1>7. Settled' <=> Settled
  BY DEF Settled, ResultsView
<1>8. PICK k \in RequestRecord : k = Kept(q)
  BY <1>5
<1>9. \/ k.kind = requests[x].kind /\ k.owner = requests[x].owner
      \/ k = NoRequest /\ ~(requests[x].kind = "run" /\ requests[x].owner = "page")
  BY <1>2, <1>5, <1>8
<1>10. requests' = [requests EXCEPT ![x] = k] /\ Truthful(k)
  BY <1>3, <1>5, <1>8
<1>11. QED
  BY <1>1, <1>6, <1>7, <1>9, <1>10, SlotStep

LEMMA AnswerLoginKeeps ==
  ASSUME Inv, NEW x \in Slots, AnswerLogin(x)
  PROVE  Inv'
<1>1. /\ accepted \subseteq 1..Tokens /\ requests[x] \in RequestRecord
      /\ requests[x].kind = "login"
  BY TypeSplit DEF Inv, AnswerLogin
<1>2. UNCHANGED <<session, route, page, strays, run, known>>
  BY DEF AnswerLogin
<1>3. CASE \E t \in FreshTokens : accepted' = accepted \cup {t} /\ Reply(x, "session", t)
  <2>1. PICK t \in FreshTokens : accepted' = accepted \cup {t} /\ Reply(x, "session", t)
    BY <1>3
  <2>2. t \in 1..Tokens
    BY DEF FreshTokens
  <2>3. t \in 0..Tokens /\ t # 0
    BY <2>2, TabAssumption
  <2>4. Truthful([requests[x] EXCEPT !.reply = "session", !.token = t])
    BY <1>1, <2>3 DEF Truthful, EndedAs, Terminal, RequestRecord
  <2>5. "session" \in Replies /\ accepted' \subseteq 1..Tokens
    BY <1>1, <2>1, <2>2 DEF Replies
  <2>6. QED
    BY <1>2, <2>1, <2>3, <2>4, <2>5, ReplyKeeps
<1>4. CASE Reply(x, "401", 0) /\ UNCHANGED accepted
  <2>1. Truthful([requests[x] EXCEPT !.reply = "401", !.token = 0])
    BY <1>1 DEF Truthful, EndedAs, Terminal, RequestRecord
  <2>2. "401" \in Replies /\ accepted' \subseteq 1..Tokens /\ 0 \in 0..Tokens
    BY <1>1, <1>4, TabAssumption DEF Replies
  <2>3. QED
    BY <1>2, <1>4, <2>1, <2>2, ReplyKeeps
<1>5. QED
  BY <1>3, <1>4 DEF AnswerLogin

LEMMA AnswerKeeps ==
  ASSUME Inv, NEW x \in Slots, Answer(x)
  PROVE  Inv'
<1>1. /\ accepted \subseteq 1..Tokens /\ requests[x] \in RequestRecord /\ run \in RunRecord
  BY TypeSplit DEF Inv
<1>2. UNCHANGED <<session, route, page, strays, run, known>> /\ accepted' \subseteq 1..Tokens
  BY <1>1 DEF Answer, apiVars
<1>3. 0 \in 0..Tokens
  BY TabAssumption
<1>4. ASSUME NEW v \in Views(requests[x].kind), Reply(x, v, 0)
      PROVE  Inv'
  <2>1. requests[x].kind \in {"run", "findings", "cards", "detail", "other"}
    BY <1>1 DEF Answer, Waiting, RequestRecord, Kinds
  <2>2. /\ v \in {"active", "some", "empty"} \cup Terminal
        /\ (v \in Terminal) =>
             IF requests[x].kind = "cards" THEN EndedAs(v) ELSE run.status = v
        /\ (v = "some") => run.found
    BY <1>1, <2>1
    DEF Views, CardViews, EndedAs, RunView, FindingsView, RunRecord, Terminal
  <2>3. v \in Replies
    BY <2>2 DEF Replies
  <2>4. Truthful([requests[x] EXCEPT !.reply = v, !.token = 0])
    BY <1>1, <2>2 DEF Truthful, EndedAs, Terminal, RequestRecord
  <2>5. QED
    BY <1>2, <1>3, <1>4, <2>3, <2>4, ReplyKeeps
<1>5. CASE Reply(x, "401", 0)
  <2>1. Truthful([requests[x] EXCEPT !.reply = "401", !.token = 0])
    BY <1>1 DEF Truthful, EndedAs, Terminal, RequestRecord
  <2>2. "401" \in Replies
    BY DEF Replies
  <2>3. QED
    BY <1>2, <1>3, <1>5, <2>1, <2>2, ReplyKeeps
<1>6. QED
  BY <1>4, <1>5 DEF Answer

LEMMA RefuseKeeps ==
  ASSUME Inv, NEW x \in Slots, Refuse(x)
  PROVE  Inv'
<1>1. /\ accepted \subseteq 1..Tokens /\ requests[x] \in RequestRecord
  BY TypeSplit DEF Inv
<1>2. /\ UNCHANGED <<session, route, page, strays, run, known>> /\ accepted' \subseteq 1..Tokens
      /\ Reply(x, "error", 0)
  BY <1>1 DEF Refuse, apiVars
<1>3. 0 \in 0..Tokens /\ "error" \in Replies
  BY TabAssumption DEF Replies
<1>4. Truthful([requests[x] EXCEPT !.reply = "error", !.token = 0])
  BY <1>1 DEF Truthful, EndedAs, Terminal, RequestRecord
<1>5. QED
  BY <1>2, <1>3, <1>4, ReplyKeeps

(* Steps of the API on what the run is and who is signed in: requests keep *)
(* their kinds, and the tab changes nothing.                               *)
LEMMA ApiStep ==
  ASSUME Inv, requests' \in [Slots -> RequestRecord],
         \A x \in Slots : /\ requests'[x].kind = requests[x].kind
                          /\ requests'[x].owner = requests[x].owner
                          /\ Truthful(requests[x])',
         UNCHANGED <<session, route, page, strays>>,
         accepted' \subseteq 1..Tokens, run' \in RunRecord, known' \in BOOLEAN, PageInv'
  PROVE  Inv'
<1>1. TypeOK'
  <2>1. requests' \in [Slots ->
          [kind : Kinds, owner : {"page", "left"}, token : 0..Tokens, reply : Replies]]
    BY DEF RequestRecord
  <2>2. QED
    BY <2>1 DEF Inv, TypeOK, RunRecord, Kinds, Replies
<1>2. RequestsInv'
  BY DEF Inv, RequestsInv, OfPageKind
<1>3. /\ Asked(requests', "run", "page") = Asked(requests, "run", "page")
      /\ Asked(requests', "run", "left") = Asked(requests, "run", "left")
  BY DEF Asked
<1>4. PollInv' /\ QuotaInv'
  BY <1>3, PollsKept DEF Settled, ResultsView
<1>5. QED
  BY <1>1, <1>2, <1>4 DEF Inv

LEMMA EndSessionKeeps ==
  ASSUME Inv, NEW t \in 1..Tokens, EndSession(t)
  PROVE  Inv'
<1>1. /\ accepted \subseteq 1..Tokens /\ requests \in [Slots -> RequestRecord]
      /\ run \in RunRecord /\ known \in BOOLEAN
  BY TypeSplit DEF Inv
<1>2. ASSUME NEW x \in Slots
      PROVE  /\ requests'[x] \in RequestRecord
             /\ requests'[x].kind = requests[x].kind
             /\ requests'[x].owner = requests[x].owner
             /\ Truthful(requests[x])'
  <2>1. \/ requests'[x] = requests[x]
        \/ requests'[x] = [requests[x] EXCEPT !.token = 0] /\ requests[x].reply = "none"
    BY DEF EndSession, Waiting
  <2>2. Truthful(requests[x]) /\ run' = run
    BY DEF Inv, RequestsInv, EndSession
  <2>3. QED
    BY <1>1, <2>1, <2>2, TabAssumption DEF Truthful, EndedAs, Terminal, RequestRecord
<1>3. requests' \in [Slots -> RequestRecord]
  BY <1>2 DEF EndSession
<1>4. /\ UNCHANGED <<session, route, page, strays>>
      /\ accepted' \subseteq 1..Tokens /\ run' \in RunRecord /\ known' \in BOOLEAN /\ PageInv'
  BY <1>1 DEF EndSession, Inv, PageInv, EndedAs
<1>5. QED
  BY <1>2, <1>3, <1>4, ApiStep

LEMMA StoreFindingsKeeps ==
  ASSUME Inv, StoreFindings
  PROVE  Inv'
<1>1. /\ accepted \subseteq 1..Tokens /\ requests \in [Slots -> RequestRecord]
      /\ run \in RunRecord /\ known \in BOOLEAN
  BY TypeSplit DEF Inv
<1>2. /\ run' \in RunRecord /\ run'.status = run.status /\ run'.found
      /\ UNCHANGED <<session, route, page, strays, requests, accepted, known>>
  BY <1>1 DEF StoreFindings, RunRecord, tabVars
<1>3. \A x \in Slots : Truthful(requests[x])'
  BY <1>2 DEF Inv, RequestsInv, Truthful, EndedAs
<1>4. PageInv'
  BY <1>2 DEF Inv, PageInv, EndedAs
<1>5. QED
  BY <1>1, <1>2, <1>3, <1>4, ApiStep

LEMMA EndRunKeeps ==
  ASSUME Inv, NEW s \in Terminal, EndRun(s)
  PROVE  Inv'
<1>1. /\ accepted \subseteq 1..Tokens /\ requests \in [Slots -> RequestRecord]
      /\ run \in RunRecord /\ known \in BOOLEAN
  BY TypeSplit DEF Inv
<1>2. /\ run' \in RunRecord /\ run.status \notin Terminal /\ run'.found = run.found
      /\ UNCHANGED <<session, route, page, strays, requests, accepted, known>>
  BY <1>1 DEF EndRun, RunRecord, tabVars, Terminal
<1>3. \A x \in Slots : Truthful(requests[x])'
  BY <1>2 DEF Inv, RequestsInv, Truthful, EndedAs, Terminal
<1>4. PageInv'
  BY <1>2 DEF Inv, PageInv, EndedAs, Terminal
<1>5. QED
  BY <1>1, <1>2, <1>3, <1>4, ApiStep

LEMMA RestartKeeps ==
  ASSUME Inv, Restart
  PROVE  Inv'
<1>1. /\ accepted \subseteq 1..Tokens /\ requests \in [Slots -> RequestRecord]
      /\ run \in RunRecord /\ known \in BOOLEAN
  BY TypeSplit DEF Inv
<1>2. /\ UNCHANGED <<session, route, page, strays, requests, accepted, run>>
      /\ known' \in BOOLEAN
  BY DEF Restart, tabVars
<1>3. \A x \in Slots : Truthful(requests[x])'
  BY <1>2 DEF Inv, RequestsInv, Truthful, EndedAs
<1>4. PageInv'
  BY <1>2 DEF Inv, PageInv, EndedAs
<1>5. QED
  BY <1>1, <1>2, <1>3, <1>4, ApiStep

-----------------------------------------------------------------------------
(* Answers reach the tab.                                                  *)

(* An answer that changes neither the session nor where the page stands    *)
(* with its polls.                                                         *)
LEMMA TakenStep ==
  ASSUME Inv, NEW x \in Slots, requests' = Taken(x),
         ~(requests[x].kind = "run" /\ requests[x].owner = "page"),
         session' \in 0..Tokens, page' \in PageRecord,
         UNCHANGED <<route, strays, apiVars>>, PageInv', page'.timer = page.timer,
         (route = "results") => (Settled' <=> Settled)
  PROVE  Inv'
<1>1. requests' = [requests EXCEPT ![x] = NoRequest]
  BY DEF Taken
<1>2. NoRequest \in RequestRecord /\ Truthful(NoRequest)
  BY NoRequestFields, Silent
<1>3. /\ accepted' \subseteq 1..Tokens
      /\ UNCHANGED <<route, strays, run, known>>
  BY TypeSplit DEF Inv, apiVars
<1>4. \/ NoRequest.kind = requests[x].kind /\ NoRequest.owner = requests[x].owner
      \/ NoRequest = NoRequest /\ ~(requests[x].kind = "run" /\ requests[x].owner = "page")
  OBVIOUS
<1>5. PICK q \in RequestRecord : q = NoRequest
  BY <1>2
<1>6. /\ requests' = [requests EXCEPT ![x] = q] /\ Truthful(q)
      /\ \/ q.kind = requests[x].kind /\ q.owner = requests[x].owner
         \/ q = NoRequest /\ ~(requests[x].kind = "run" /\ requests[x].owner = "page")
  BY <1>1, <1>2, <1>4, <1>5
<1>7. QED
  BY <1>3, <1>6, SlotStep

(* Only the page that asks for it is told.                                 *)
LEMMA AskedByPage ==
  ASSUME Inv, NEW x \in Slots, requests[x].owner = "page"
  PROVE  /\ (requests[x].kind \in {"run", "findings"}) => route = "results"
         /\ (requests[x].kind \in {"cards", "detail"}) => route = "student"
<1>1. requests[x].kind \in PageKinds(route)
  BY DEF Inv, RequestsInv, OfPageKind
<1>2. route \in {"results", "student", "other", "login"}
  BY TypeSplit DEF Inv, GuardedPages
<1>3. QED
  BY <1>1, <1>2 DEF PageKinds

LEMMA UnauthorizedKeeps ==
  ASSUME Inv, NEW x \in Slots, Unauthorized(x)
  PROVE  Inv'
<1>1. /\ requests \in [Slots -> RequestRecord] /\ 0 \in 0..Tokens /\ page \in PageRecord
  BY TypeSplit, TabAssumption DEF Inv
<1>2. UNCHANGED <<strays, apiVars>>
  BY DEF Unauthorized
<1>3. CASE route = "login"
  <2>1. /\ session' = 0 /\ requests' = Taken(x) /\ UNCHANGED <<route, page>>
    BY <1>3 DEF Unauthorized
  <2>2. ~(requests[x].kind = "run" /\ requests[x].owner = "page")
    BY <1>3, AskedByPage
  <2>3. PageInv'
    BY <1>2, <1>3, <2>1 DEF Inv, PageInv, EndedAs, apiVars
  <2>4. QED
    BY <1>1, <1>2, <1>3, <2>1, <2>2, <2>3, TakenStep
<1>4. CASE route # "login"
  <2>1. Show("login", 0, Taken(x))
    BY <1>4 DEF Unauthorized
  <2>2. /\ Taken(x) \in [Slots -> RequestRecord]
        /\ \A y \in Slots : Taken(x)[y] = requests[y] \/ Taken(x)[y] = NoRequest
    BY <1>1, NoRequestFields DEF Taken
  <2>3. PICK p \in GuardedPages \cup {"login"}, s \in 0..Tokens : p = "login" /\ s = 0
    BY <1>1
  <2>4. QED
    BY <1>2, <2>1, <2>2, <2>3, ShowStep
<1>5. QED
  BY <1>3, <1>4

LEMMA SignedInKeeps ==
  ASSUME Inv, NEW x \in Slots, SignedIn(x)
  PROVE  Inv'
<1>1. /\ requests \in [Slots -> RequestRecord]
  BY TypeSplit DEF Inv
<1>2. PICK p \in GuardedPages : Show(p, requests[x].token, Taken(x))
  BY DEF SignedIn
<1>3. UNCHANGED <<strays, apiVars>>
  BY DEF SignedIn
<1>4. requests[x].token \in 0..Tokens /\ requests[x].token # 0
  BY <1>1 DEF SignedIn, Has, Inv, RequestsInv, Truthful, EndedAs, RequestRecord
<1>5. /\ Taken(x) \in [Slots -> RequestRecord]
      /\ \A y \in Slots : Taken(x)[y] = requests[y] \/ Taken(x)[y] = NoRequest
  BY <1>1, NoRequestFields DEF Taken
<1>6. p \in GuardedPages \cup {"login"}
  OBVIOUS
<1>7. QED
  BY <1>2, <1>3, <1>4, <1>5, <1>6, ShowStep

(* An answer to the poll of the page that is shown.                        *)
LEMMA OwnPollArrives ==
  ASSUME Inv, NEW x \in Slots, requests[x].kind = "run", requests[x].owner = "page",
         requests' = Taken(x), page' \in PageRecord,
         UNCHANGED <<session, route, strays, apiVars>>, PageInv',
         page'.timer <=> ~Settled'
  PROVE  Inv'
<1> TypeOK
  BY DEF Inv
<1>1. /\ requests' \in [Slots -> RequestRecord] /\ requests'[x] = NoRequest
      /\ \A y \in Slots \ {x} : requests'[y] = requests[y]
  BY TypeSplit, NoRequestFields DEF Taken
<1>2. route = "results" /\ x \in InFlight("run", "page")
  BY AskedByPage DEF InFlight, Asked
<1>3. ~Settled /\ InFlight("run", "page") = {x}
  BY <1>2 DEF Inv, PollInv
<1>4. /\ Asked(requests', "run", "page") = {}
      /\ Asked(requests', "run", "left") = Asked(requests, "run", "left")
  BY <1>1, <1>3, NoRequestFields DEF Asked, InFlight
<1>5. TypeOK'
  <2>1. /\ session \in 0..Tokens /\ route \in GuardedPages \cup {"login"}
        /\ strays \in 0..MaxStrays /\ accepted \subseteq 1..Tokens
        /\ run \in RunRecord /\ known \in BOOLEAN
    BY TypeSplit
  <2>2. QED
    BY <1>1, <2>1 DEF TypeOK, PageRecord, RequestRecord, RunRecord, Kinds, Replies, apiVars
<1>6. RequestsInv'
  <2> SUFFICES ASSUME NEW y \in Slots
               PROVE  Truthful(requests[y])' /\ OfPageKind(requests[y], route)'
    BY DEF RequestsInv
  <2>1. CASE y = x
    BY <1>1, <2>1, NoRequestFields DEF Truthful, EndedAs, OfPageKind, Terminal
  <2>2. CASE y # x
    BY <1>1, <2>2 DEF Inv, RequestsInv, Truthful, EndedAs, OfPageKind, apiVars
  <2>3. QED
    BY <2>1, <2>2
<1>7. PollInv'
  <2>1. InFlight("run", "page")' = {}
    BY <1>4, AskedPrimed
  <2>2. page'.timer \in BOOLEAN
    BY DEF PageRecord
  <2>3. QED
    BY <2>1, <2>2 DEF PollInv
<1>8. QuotaInv'
  <2>1. LeftPolls(requests)' = LeftPolls(requests)
    BY <1>4, AskedPrimed DEF LeftPolls
  <2>2. LeftPolls(requests) < MaxStrays /\ LeftPolls(requests) <= MaxStrays
    BY <1>2, <1>3 DEF Inv, QuotaInv
  <2>3. QED
    BY <2>1, <2>2 DEF QuotaInv
<1>9. QED
  BY <1>5, <1>6, <1>7, <1>8 DEF Inv

(* A poll of a page that was left ends, and may set its timer again.       *)
LEMMA StrayArrives ==
  ASSUME Inv, NEW x \in Slots, requests[x].kind = "run", requests[x].owner = "left",
         requests' = Taken(x), strays' \in {strays, strays + 1},
         UNCHANGED <<session, route, page, apiVars>>
  PROVE  Inv'
<1> TypeOK
  BY DEF Inv
<1>1. /\ requests' \in [Slots -> RequestRecord] /\ requests'[x] = NoRequest
      /\ \A y \in Slots \ {x} : requests'[y] = requests[y]
  BY TypeSplit, NoRequestFields DEF Taken
<1> DEFINE L == Asked(requests, "run", "left")
<1>2. x \in L
  BY DEF Asked
<1>3. /\ Asked(requests', "run", "page") = Asked(requests, "run", "page")
      /\ Asked(requests', "run", "left") = L \ {x}
  BY <1>1, NoRequestFields DEF Asked
<1>4. IsFiniteSet(L) /\ Cardinality(L) \in Nat
  BY AskedFinite
<1>5. LeftPolls(requests) = strays + Cardinality(L)
  BY DEF LeftPolls
<1> HIDE DEF L
<1>6. Cardinality(L \ {x}) = Cardinality(L) - 1 /\ Cardinality(L \ {x}) \in Nat
  BY <1>2, <1>4, FS_RemoveElement, FS_CardinalityType
<1>7. strays \in Nat /\ MaxStrays \in Nat
  BY TypeSplit, TabAssumption
<1>8. LeftPolls(requests)' = strays' + Cardinality(L \ {x})
  BY <1>3, AskedPrimed
<1>9. LeftPolls(requests)' \in Nat /\ LeftPolls(requests)' <= LeftPolls(requests)
  BY <1>4, <1>5, <1>6, <1>7, <1>8
<1>10. LeftPolls(requests) <= MaxStrays
  BY DEF Inv, QuotaInv
<1>11. strays' \in 0..MaxStrays
  BY <1>4, <1>5, <1>6, <1>7, <1>8, <1>9, <1>10
<1>12. TypeOK'
  <2>1. /\ session \in 0..Tokens /\ route \in GuardedPages \cup {"login"}
        /\ page \in PageRecord /\ accepted \subseteq 1..Tokens
        /\ run \in RunRecord /\ known \in BOOLEAN
    BY TypeSplit
  <2>2. QED
    BY <1>1, <1>11, <2>1 DEF TypeOK, PageRecord, RequestRecord, RunRecord, Kinds, Replies, apiVars
<1>13. RequestsInv'
  <2> SUFFICES ASSUME NEW y \in Slots
               PROVE  Truthful(requests[y])' /\ OfPageKind(requests[y], route)'
    BY DEF RequestsInv
  <2>1. CASE y = x
    BY <1>1, <2>1, NoRequestFields DEF Truthful, EndedAs, OfPageKind, Terminal
  <2>2. CASE y # x
    BY <1>1, <2>2 DEF Inv, RequestsInv, Truthful, EndedAs, OfPageKind, apiVars
  <2>3. QED
    BY <2>1, <2>2
<1>14. PageInv'
  BY DEF Inv, PageInv, EndedAs, apiVars
<1>15. Settled' <=> Settled
  BY DEF Settled, ResultsView
<1>16. PollInv'
  <2>1. InFlight("run", "page")' = InFlight("run", "page")
    BY <1>3, AskedPrimed DEF InFlight
  <2>2. QED
    BY <1>15, <2>1 DEF Inv, PollInv
<1>17. QuotaInv'
  <2>1. LeftPolls(requests) \in Nat
    BY Room
  <2>2. QED
    BY <1>7, <1>9, <1>15, <2>1 DEF Inv, QuotaInv
<1>18. QED
  BY <1>12, <1>13, <1>14, <1>16, <1>17 DEF Inv

LEMMA RunArrivesKeeps ==
  ASSUME Inv, NEW x \in Slots, RunArrives(x)
  PROVE  Inv'
<1> DEFINE status == requests[x].reply
<1>1. /\ requests[x] \in RequestRecord /\ page \in PageRecord
  BY TypeSplit DEF Inv
<1>2. /\ requests[x].kind = "run" /\ status \in {"active"} \cup Terminal
      /\ requests' = Taken(x) /\ UNCHANGED <<session, route, apiVars>>
  BY DEF RunArrives, Has
<1>3. CASE requests[x].owner = "page"
  <2>1. /\ page' = [page EXCEPT !.run = status, !.error = FALSE,
                                !.timer = ScheduleNextPoll(status)]
        /\ UNCHANGED strays
    BY <1>3 DEF RunArrives, OfPage
  <2>2. /\ page'.run = status /\ page'.error = FALSE
        /\ page'.timer = (status \notin Terminal)
        /\ page'.found = page.found /\ page'.card = page.card
    BY <1>1, <2>1 DEF PageRecord, ScheduleNextPoll
  <2>3. page' \in PageRecord
    BY <1>1, <1>2, <2>1 DEF PageRecord, ScheduleNextPoll
  <2>4. (status \in Terminal) => run.status = status
    BY <1>2 DEF Inv, RequestsInv, Truthful, EndedAs
  <2>5. route = "results"
    BY <1>2, <1>3, AskedByPage
  <2>6. PageInv'
    BY <1>2, <2>2, <2>4, <2>5 DEF Inv, PageInv, EndedAs, apiVars
  <2>7. page'.timer <=> ~Settled'
    BY <1>2, <2>2 DEF Settled, ResultsView, Terminal
  <2>8. QED
    BY <1>2, <1>3, <2>1, <2>3, <2>6, <2>7, OwnPollArrives
<1>4. CASE requests[x].owner # "page"
  <2>1. requests[x].owner = "left"
    BY <1>1, <1>4 DEF RequestRecord
  <2>2. strays' \in {strays, strays + 1} /\ UNCHANGED page
    BY <1>4 DEF RunArrives, OfPage
  <2>3. QED
    BY <1>2, <2>1, <2>2, StrayArrives
<1>5. QED
  BY <1>3, <1>4

LEMMA RunFailsKeeps ==
  ASSUME Inv, NEW x \in Slots, RunFails(x)
  PROVE  Inv'
<1>1. /\ requests[x] \in RequestRecord /\ page \in PageRecord /\ session \in 0..Tokens
  BY TypeSplit DEF Inv
<1>2. /\ requests[x].kind = "run" /\ requests' = Taken(x)
      /\ UNCHANGED <<session, route, strays, apiVars>>
  BY DEF RunFails, Has
<1>3. CASE requests[x].owner = "page"
  <2>1. page' = [page EXCEPT !.error = TRUE]
    BY <1>3 DEF RunFails, OfPage
  <2>2. /\ page'.error = TRUE /\ page'.timer = page.timer /\ page'.run = page.run
        /\ page'.found = page.found /\ page'.card = page.card /\ page' \in PageRecord
    BY <1>1, <2>1 DEF PageRecord
  <2>3. route = "results"
    BY <1>2, <1>3, AskedByPage
  <2>4. PageInv'
    BY <1>2, <2>2, <2>3 DEF Inv, PageInv, EndedAs, apiVars
  <2>5. Settled'
    BY <2>2 DEF Settled, ResultsView
  <2>6. ~page.timer
    <3>1. InFlight("run", "page") # {}
      BY <1>2, <1>3 DEF InFlight, Asked
    <3>2. QED
      BY <2>3, <3>1 DEF Inv, PollInv
  <2>7. page'.timer <=> ~Settled'
    BY <2>2, <2>5, <2>6
  <2>8. QED
    BY <1>2, <1>3, <2>2, <2>4, <2>7, OwnPollArrives
<1>4. CASE requests[x].owner # "page"
  <2>1. requests[x].owner = "left"
    BY <1>1, <1>4 DEF RequestRecord
  <2>2. UNCHANGED page /\ strays' \in {strays, strays + 1}
    BY <1>2, <1>4 DEF RunFails, OfPage
  <2>3. QED
    BY <1>2, <2>1, <2>2, StrayArrives
<1>5. QED
  BY <1>3, <1>4

LEMMA FindingsArriveKeeps ==
  ASSUME Inv, NEW x \in Slots, FindingsArrive(x)
  PROVE  Inv'
<1>1. /\ requests[x] \in RequestRecord /\ page \in PageRecord /\ session \in 0..Tokens
  BY TypeSplit DEF Inv
<1>2. /\ requests[x].kind = "findings" /\ requests[x].reply \in {"some", "empty", "error"}
      /\ requests' = Taken(x) /\ UNCHANGED <<session, route, strays, apiVars>>
  BY DEF FindingsArrive, Has
<1>3. (requests[x].reply = "some") => run.found
  BY DEF Inv, RequestsInv, Truthful, EndedAs
<1>4. /\ page' \in PageRecord /\ page'.timer = page.timer /\ page'.run = page.run
      /\ page'.error = page.error /\ page'.card = page.card
      /\ (page'.found = "some") => page.found = "some" \/ requests[x].reply = "some"
      /\ page' = page \/ requests[x].owner = "page"
  BY <1>1, <1>2 DEF FindingsArrive, OfPage, PageRecord
<1>5. (page' = page) \/ route = "results"
  BY <1>2, <1>4, AskedByPage
<1>6. PageInv'
  BY <1>2, <1>3, <1>4, <1>5 DEF Inv, PageInv, EndedAs, apiVars
<1>7. Settled' <=> Settled
  BY <1>4 DEF Settled, ResultsView
<1>8. ~(requests[x].kind = "run" /\ requests[x].owner = "page") /\ session' \in 0..Tokens
  BY <1>1, <1>2
<1>9. QED
  BY <1>2, <1>4, <1>6, <1>7, <1>8, TakenStep

LEMMA DetailArrivesKeeps ==
  ASSUME Inv, NEW x \in Slots, DetailArrives(x)
  PROVE  Inv'
<1>1. /\ requests[x] \in RequestRecord /\ page \in PageRecord /\ session \in 0..Tokens
  BY TypeSplit DEF Inv
<1>2. /\ requests[x].kind = "detail"
      /\ requests' = Taken(x) /\ UNCHANGED <<session, route, strays, apiVars>>
  BY DEF DetailArrives, Has
<1>3. /\ page' \in PageRecord /\ page'.timer = page.timer /\ page'.run \in {page.run, "active"}
      /\ page'.error = page.error /\ page'.card = page.card /\ page'.found = page.found
      /\ page' = page \/ requests[x].owner = "page"
  BY <1>1, <1>2 DEF DetailArrives, OfPage, PageRecord
<1>4. (page' = page) \/ route = "student"
  BY <1>2, <1>3, AskedByPage
<1>5. PageInv'
  BY <1>2, <1>3, <1>4 DEF Inv, PageInv, EndedAs, apiVars, Terminal
<1>6. (route = "results") => (Settled' <=> Settled)
  BY <1>4 DEF Settled, ResultsView
<1>7. ~(requests[x].kind = "run" /\ requests[x].owner = "page") /\ session' \in 0..Tokens
  BY <1>1, <1>2
<1>8. QED
  BY <1>2, <1>3, <1>5, <1>6, <1>7, TakenStep

LEMMA LoginFailsKeeps ==
  ASSUME Inv, NEW x \in Slots, LoginFails(x)
  PROVE  Inv'
<1>1. /\ page \in PageRecord /\ session \in 0..Tokens
  BY TypeSplit DEF Inv
<1>2. /\ requests[x].kind = "login" /\ requests' = Taken(x)
      /\ UNCHANGED <<session, route, page, strays, apiVars>>
  BY DEF LoginFails, Has
<1>3. PageInv'
  BY <1>2 DEF Inv, PageInv, EndedAs, apiVars
<1>4. Settled' <=> Settled
  BY <1>2 DEF Settled, ResultsView
<1>5. ~(requests[x].kind = "run" /\ requests[x].owner = "page")
  BY <1>2
<1>6. QED
  BY <1>1, <1>2, <1>3, <1>4, <1>5, TakenStep

(* The cards lead to the request for the details of their run.             *)
LEMMA CardsArriveKeeps ==
  ASSUME Inv, NEW x \in Slots, CardsArrive(x)
  PROVE  Inv'
<1> DEFINE q == Request("detail", requests[x].owner, session)
           taken == Taken(x)
<1> TypeOK
  BY DEF Inv
<1>1. /\ requests[x] \in RequestRecord /\ page \in PageRecord /\ session \in 0..Tokens
      /\ requests \in [Slots -> RequestRecord]
  BY TypeSplit
<1>2. /\ requests[x].kind = "cards" /\ requests[x].reply \in {"active", "error"} \cup Terminal
      /\ UNCHANGED <<session, route, strays, apiVars>>
  BY DEF CardsArrive, Has
<1>3. (requests[x].reply \in Terminal) => EndedAs(requests[x].reply)
  BY <1>2 DEF Inv, RequestsInv, Truthful, EndedAs
<1>4. /\ page' \in PageRecord /\ page'.timer = page.timer /\ page'.run = page.run
      /\ page'.found = page.found
      /\ page'.card \in {page.card, requests[x].reply}
      /\ page' = page \/ requests[x].owner = "page"
  BY <1>1, <1>2 DEF CardsArrive, OfPage, PageRecord
<1>5. (page' = page) \/ route = "student"
  BY <1>2, <1>4, AskedByPage
<1>6. PageInv'
  BY <1>2, <1>3, <1>4, <1>5 DEF Inv, PageInv, EndedAs, apiVars
<1>7. (route = "results") => (Settled' <=> Settled)
  BY <1>5 DEF Settled, ResultsView
<1>8. ~(requests[x].kind = "run" /\ requests[x].owner = "page") /\ session' \in 0..Tokens
  BY <1>1, <1>2
<1>9. CASE requests[x].reply = "error"
  <2>1. requests' = Taken(x)
    BY <1>9 DEF CardsArrive
  <2>2. QED
    BY <1>2, <1>4, <1>6, <1>7, <1>8, <2>1, TakenStep
<1>10. CASE requests[x].reply # "error"
  <2>1. requests' = Sent(taken, q)
    BY <1>10 DEF CardsArrive
  <2>2. /\ taken \in [Slots -> RequestRecord] /\ taken[x] = NoRequest
        /\ \A y \in Slots : taken[y] = requests[y] \/ taken[y] = NoRequest
        /\ \A y \in Slots \ {x} : taken[y] = requests[y]
    BY <1>1, NoRequestFields DEF Taken
  <2>3. /\ q \in RequestRecord /\ q.kind \in {"detail", "other"} /\ q.owner = requests[x].owner
        /\ q.reply = "none" /\ ((q.owner = "page") => q.kind = "detail")
    <3>1. requests[x].owner \in {"page", "left"} /\ "detail" \in Kinds
      BY <1>1 DEF RequestRecord, Kinds
    <3>2. QED
      BY <1>1, <3>1, RequestFields DEF Kind
  <2> HIDE DEF taken, q
  <2>4. Fits(taken, 1)
    <3>1. x \in Free(taken)
      BY <2>2, NoRequestFields DEF Free
    <3>2. Cardinality(Free(taken)) # 0 /\ Cardinality(Free(taken)) \in Nat
      BY <3>1, FreeFinite, FS_EmptySet
    <3>3. QED
      BY <3>2 DEF Fits
  <2>5. /\ requests' \in [Slots -> RequestRecord]
        /\ \A y \in Slots : requests'[y] = taken[y] \/ requests'[y] = q
    BY <2>1, <2>2, <2>3, <2>4, SentOne
  <2>6. /\ Asked(requests', "run", "page") = Asked(taken, "run", "page")
        /\ Asked(requests', "run", "left") = Asked(taken, "run", "left")
    BY <2>1, <2>2, <2>3, <2>4, SentAsked
  <2>7. /\ Asked(taken, "run", "page") = Asked(requests, "run", "page")
        /\ Asked(taken, "run", "left") = Asked(requests, "run", "left")
    BY <1>2, <2>2, NoRequestFields DEF Asked
  <2>8. TypeOK'
    <3>1. /\ route \in GuardedPages \cup {"login"} /\ strays \in 0..MaxStrays
          /\ accepted \subseteq 1..Tokens /\ run \in RunRecord /\ known \in BOOLEAN
      BY TypeSplit
    <3>2. QED
      BY <1>1, <1>2, <1>4, <2>5, <3>1
         DEF TypeOK, PageRecord, RequestRecord, RunRecord, Kinds, Replies, apiVars
  <2>9. RequestsInv'
    <3> SUFFICES ASSUME NEW y \in Slots
                 PROVE  Truthful(requests[y])' /\ OfPageKind(requests[y], route)'
      BY DEF RequestsInv
    <3>1. CASE requests'[y] = requests[y]
      BY <1>2, <3>1 DEF Inv, RequestsInv, Truthful, EndedAs, OfPageKind, apiVars
    <3>2. CASE requests'[y] = NoRequest
      BY <3>2, NoRequestFields DEF Truthful, EndedAs, OfPageKind, Terminal
    <3>3. CASE requests'[y] = q
      <4>1. (q.owner = "page") => "detail" \in PageKinds(route)
        BY <1>2, <2>3, AskedByPage DEF PageKinds
      <4>2. QED
        BY <1>2, <2>3, <3>3, <4>1 DEF Truthful, EndedAs, OfPageKind, Terminal
    <3>4. QED
      BY <2>2, <2>5, <3>1, <3>2, <3>3
  <2>10. PollInv' /\ QuotaInv'
    BY <1>2, <1>4, <1>7, <2>6, <2>7, PollsKept
  <2>11. QED
    BY <1>6, <2>8, <2>9, <2>10 DEF Inv
<1>11. QED
  BY <1>9, <1>10

LEMMA ArriveKeeps ==
  ASSUME Inv, NEW x \in Slots, Arrive(x)
  PROVE  Inv'
  BY UnauthorizedKeeps, SignedInKeeps, RunArrivesKeeps, RunFailsKeeps, FindingsArriveKeeps,
     CardsArriveKeeps, DetailArrivesKeeps, LoginFailsKeeps DEF Arrive

(* A page that polls again: the timer gives way to one request.            *)
LEMMA PollKeeps ==
  ASSUME Inv, Poll
  PROVE  Inv'
<1> TypeOK
  BY DEF Inv
<1>1. /\ requests \in [Slots -> RequestRecord] /\ page \in PageRecord /\ session \in 0..Tokens
  BY TypeSplit
<1>2. /\ page.timer /\ Fits(requests, 2) /\ requests' = LoadRun(requests, "page", session)
      /\ UNCHANGED <<session, route, strays, apiVars>>
  BY DEF Poll
<1>3. /\ page' \in PageRecord /\ ~page'.timer /\ page'.run = page.run
      /\ page'.found = page.found /\ page'.card = page.card /\ page'.error = page.error
  BY <1>1 DEF Poll, PageRecord
<1>4. route = "results"
  BY <1>2 DEF Inv, PageInv, EndedAs
<1>5. ~Settled /\ InFlight("run", "page") = {}
  BY <1>2, <1>4 DEF Inv, PollInv
<1>6. /\ requests' \in [Slots -> RequestRecord]
      /\ \A x \in Slots :
           \/ requests'[x] = requests[x]
           \/ requests'[x].reply = "none" /\ requests'[x].kind \in {"run", "findings"}
      /\ \E c \in Slots \ Asked(requests, "run", "page") :
           Asked(requests', "run", "page") = Asked(requests, "run", "page") \cup {c}
      /\ Asked(requests', "run", "left") = Asked(requests, "run", "left")
  BY <1>1, <1>2, LoadRunSends
<1>7. TypeOK'
  <2>1. /\ route \in GuardedPages \cup {"login"} /\ strays \in 0..MaxStrays
        /\ accepted \subseteq 1..Tokens /\ run \in RunRecord /\ known \in BOOLEAN
    BY TypeSplit
  <2>2. QED
    BY <1>1, <1>2, <1>3, <1>6, <2>1
       DEF TypeOK, PageRecord, RequestRecord, RunRecord, Kinds, Replies, apiVars
<1>8. RequestsInv'
  <2> SUFFICES ASSUME NEW x \in Slots
               PROVE  Truthful(requests[x])' /\ OfPageKind(requests[x], route)'
    BY DEF RequestsInv
  <2>1. CASE requests'[x] = requests[x]
    BY <1>2, <2>1 DEF Inv, RequestsInv, Truthful, EndedAs, OfPageKind, apiVars
  <2>2. CASE requests'[x].reply = "none" /\ requests'[x].kind \in {"run", "findings"}
    BY <1>2, <1>4, <2>2 DEF Truthful, EndedAs, OfPageKind, PageKinds, Terminal
  <2>3. QED
    BY <1>6, <2>1, <2>2
<1>9. PageInv'
  BY <1>2, <1>3, <1>4 DEF Inv, PageInv, EndedAs, apiVars
<1>10. ~Settled'
  BY <1>3, <1>5 DEF Settled, ResultsView
<1>11. PollInv'
  <2>1. \E c \in Slots : InFlight("run", "page")' = {c}
    BY <1>5, <1>6, AskedPrimed DEF InFlight
  <2>2. QED
    BY <1>3, <1>10, <2>1 DEF PollInv
<1>12. QuotaInv'
  <2>1. LeftPolls(requests)' = LeftPolls(requests)
    BY <1>2, <1>6, AskedPrimed DEF LeftPolls
  <2>2. LeftPolls(requests) < MaxStrays /\ LeftPolls(requests) <= MaxStrays
    BY <1>4, <1>5 DEF Inv, QuotaInv
  <2>3. QED
    BY <2>1, <2>2 DEF QuotaInv
<1>13. QED
  BY <1>7, <1>8, <1>9, <1>11, <1>12 DEF Inv

(* A stray timer becomes a stray request.                                  *)
LEMMA StrayPollKeeps ==
  ASSUME Inv, StrayPoll
  PROVE  Inv'
<1> TypeOK
  BY DEF Inv
<1>1. /\ requests \in [Slots -> RequestRecord] /\ session \in 0..Tokens
      /\ strays \in Nat /\ MaxStrays \in Nat /\ strays <= MaxStrays
  BY TypeSplit, TabAssumption
<1>2. /\ strays > 0 /\ strays' = strays - 1 /\ Fits(requests, 2)
      /\ requests' = LoadRun(requests, "left", session)
      /\ UNCHANGED <<session, route, page, apiVars>>
  BY DEF StrayPoll
<1>3. /\ requests' \in [Slots -> RequestRecord]
      /\ \A x \in Slots :
           \/ requests'[x] = requests[x]
           \/ requests'[x].owner = "left" /\ requests'[x].reply = "none"
      /\ \E c \in Slots \ Asked(requests, "run", "left") :
           Asked(requests', "run", "left") = Asked(requests, "run", "left") \cup {c}
      /\ Asked(requests', "run", "page") = Asked(requests, "run", "page")
  BY <1>1, <1>2, LoadRunSends
<1>4. TypeOK'
  <2>1. /\ route \in GuardedPages \cup {"login"} /\ page \in PageRecord
        /\ accepted \subseteq 1..Tokens /\ run \in RunRecord /\ known \in BOOLEAN
    BY TypeSplit
  <2>2. strays' \in 0..MaxStrays
    BY <1>1, <1>2
  <2>3. QED
    BY <1>1, <1>2, <1>3, <2>1, <2>2
       DEF TypeOK, PageRecord, RequestRecord, RunRecord, Kinds, Replies, apiVars
<1>5. RequestsInv'
  <2> SUFFICES ASSUME NEW x \in Slots
               PROVE  Truthful(requests[x])' /\ OfPageKind(requests[x], route)'
    BY DEF RequestsInv
  <2>1. CASE requests'[x] = requests[x]
    BY <1>2, <2>1 DEF Inv, RequestsInv, Truthful, EndedAs, OfPageKind, apiVars
  <2>2. CASE requests'[x].owner = "left" /\ requests'[x].reply = "none"
    BY <2>2 DEF Truthful, EndedAs, OfPageKind, Terminal
  <2>3. QED
    BY <1>3, <2>1, <2>2
<1>6. PageInv'
  BY <1>2 DEF Inv, PageInv, EndedAs, apiVars
<1>7. Settled' <=> Settled
  BY <1>2 DEF Settled, ResultsView
<1>8. PollInv'
  <2>1. InFlight("run", "page")' = InFlight("run", "page")
    BY <1>3, AskedPrimed DEF InFlight
  <2>2. QED
    BY <1>2, <1>7, <2>1 DEF Inv, PollInv
<1>9. LeftPolls(requests)' = LeftPolls(requests)
  <2> DEFINE L == Asked(requests, "run", "left")
  <2>1. IsFiniteSet(L) /\ Cardinality(L) \in Nat
    BY AskedFinite
  <2>2. LeftPolls(requests) = strays + Cardinality(L)
    BY DEF LeftPolls
  <2>3. PICK c \in Slots \ L : Asked(requests', "run", "left") = L \cup {c}
    BY <1>3
  <2> HIDE DEF L
  <2>4. Cardinality(L \cup {c}) = Cardinality(L) + 1
    BY <2>1, <2>3, FS_AddElement
  <2>5. LeftPolls(requests)' = strays' + Cardinality(L \cup {c})
    BY <2>3, AskedPrimed
  <2>6. QED
    BY <1>1, <1>2, <2>1, <2>2, <2>4, <2>5
<1>10. QuotaInv'
  BY <1>2, <1>7, <1>9 DEF Inv, QuotaInv
<1>11. QED
  BY <1>4, <1>5, <1>6, <1>8, <1>10 DEF Inv

-----------------------------------------------------------------------------
LEMMA Initially == Init => Inv
<1> SUFFICES ASSUME Init
             PROVE  Inv
  OBVIOUS
<1>1. /\ accepted \subseteq 1..Tokens /\ run \in RunRecord /\ known \in BOOLEAN
  BY DEF Init, RunRecord, Terminal
<1>2. QED
  BY <1>1, Fresh DEF Init

LEMMA Preserved == Inv /\ [Next]_vars => Inv'
<1> SUFFICES ASSUME Inv, [Next]_vars
             PROVE  Inv'
  OBVIOUS
<1>1. CASE \E p \in GuardedPages \cup {"login"} : Navigate(p)
  BY <1>1, NavigateKeeps
<1>2. CASE SubmitLogin
  BY <1>2, SubmitLoginKeeps
<1>3. CASE Reload
  BY <1>3, ReloadKeeps
<1>4. CASE \E x \in Slots : Serve(x)
  BY <1>4, AnswerLoginKeeps, AnswerKeeps, RefuseKeeps DEF Serve
<1>5. CASE \E x \in Slots : Arrive(x)
  BY <1>5, ArriveKeeps
<1>6. CASE Poll
  BY <1>6, PollKeeps
<1>7. CASE StrayPoll
  BY <1>7, StrayPollKeeps
<1>8. CASE \E t \in 1..Tokens : EndSession(t)
  BY <1>8, EndSessionKeeps
<1>9. CASE StoreFindings
  BY <1>9, StoreFindingsKeeps
<1>10. CASE \E s \in Terminal : EndRun(s)
  BY <1>10, EndRunKeeps
<1>11. CASE Restart
  BY <1>11, RestartKeeps
<1>12. CASE UNCHANGED vars
  <2>1. UNCHANGED <<session, route, page, requests, strays, accepted, run, known>>
    BY <1>12 DEF vars, tabVars, apiVars
  <2>2. /\ requests \in [Slots -> RequestRecord] /\ accepted \subseteq 1..Tokens
        /\ run \in RunRecord /\ known \in BOOLEAN
    BY TypeSplit DEF Inv
  <2>3. PageInv' /\ \A x \in Slots : Truthful(requests[x])'
    BY <2>1 DEF Inv, PageInv, EndedAs, RequestsInv, Truthful
  <2>4. QED
    BY <2>1, <2>2, <2>3, ApiStep
<1>13. QED
  BY <1>1, <1>2, <1>3, <1>4, <1>5, <1>6, <1>7, <1>8, <1>9, <1>10, <1>11, <1>12 DEF Next

LEMMA Invariance == Spec => []Inv
<1>1. QED
  BY Initially, Preserved, PTL DEF Spec

(* Every variable of the tab and its API keeps its type.                   *)
THEOREM WellTyped == Spec => []TypeOK
<1>1. Inv => TypeOK
  BY DEF Inv
<1>2. QED
  BY <1>1, Invariance, PTL

(* A tab without a session shows the login page and nothing of a page that *)
(* needs one, for any number of sessions, requests and old polls: late     *)
(* 401s, logins that fail and reloads included.                            *)
THEOREM SignedOut == Spec => []SignedOutIsAtLogin
<1>1. Inv => SignedOutIsAtLogin
  BY DEF Inv, PageInv, EndedAs, SignedOutIsAtLogin
<1>2. QED
  BY <1>1, Invariance, PTL

(* A results page has one poll, a timer or a request, until it shows an    *)
(* outcome or an error, and then none.                                     *)
THEOREM OnePoll == Spec => []OnePollUntilSettled
<1>1. Inv => OnePollUntilSettled
  <2> SUFFICES ASSUME Inv, route = "results"
               PROVE  OwnPolls = (IF Settled THEN 0 ELSE 1)
    BY DEF OnePollUntilSettled
  <2>1. CASE InFlight("run", "page") = {}
    <3>1. Cardinality(InFlight("run", "page")) = 0
      BY <2>1, FS_EmptySet
    <3>2. Settled <=> ~page.timer
      BY <2>1 DEF Inv, PollInv
    <3>3. QED
      BY <3>1, <3>2 DEF OwnPolls
  <2>2. CASE InFlight("run", "page") # {}
    <3>1. ~Settled /\ ~page.timer /\ \E x \in Slots : InFlight("run", "page") = {x}
      BY <2>2 DEF Inv, PollInv
    <3>2. Cardinality(InFlight("run", "page")) = 1
      BY <3>1, FS_Singleton
    <3>3. QED
      BY <3>1, <3>2 DEF OwnPolls
  <2>3. QED
    BY <2>1, <2>2
<1>2. QED
  BY <1>1, Invariance, PTL

(* The outcome a results or student page shows is the outcome of the run,  *)
(* unless the run was cancelled.                                           *)
THEOREM TrueOutcome == Spec => []OutcomeIsTrue
<1>1. Inv => OutcomeIsTrue
  <2> SUFFICES ASSUME Inv
               PROVE  OutcomeIsTrue
    OBVIOUS
  <2>1. page \in PageRecord /\ run \in RunRecord
    BY TypeSplit DEF Inv
  <2>2. /\ (page.run \in Terminal) => run.status = page.run
        /\ (page.card \in Terminal) => EndedAs(page.card)
        /\ (page.found = "some") => run.found
    BY DEF Inv, PageInv, EndedAs
  <2>3. (ResultsView = "failed") => run.status = "failed"
    BY <2>2 DEF ResultsView, Terminal
  <2>4. (ResultsView \in {"findings", "no_findings"})
          => run.status \in {"completed", "cancelled"}
    BY <2>1, <2>2 DEF ResultsView, Terminal, PageRecord
  <2>5. (ResultsView = "findings") => run.found
    BY <2>1, <2>2 DEF ResultsView, RunRecord
  <2>6. ASSUME route = "student", StudentStatus \in Terminal
        PROVE  EndedAs(StudentStatus)
    <3>1. page.run \notin Terminal
      BY <2>6 DEF Inv, PageInv, EndedAs
    <3>2. StudentStatus = page.card
      BY <2>6, <3>1 DEF StudentStatus
    <3> QED
      BY <2>2, <2>6, <3>2
  <2>7. QED
    BY <2>3, <2>4, <2>5, <2>6 DEF OutcomeIsTrue, EndedAs
<1>2. QED
  BY <1>1, Invariance, PTL

(* What a results page shows once it is settled stays, until the page is   *)
(* left or shown anew; only a late list of findings may still replace an   *)
(* older one.                                                              *)
OutcomeIsKept ==
  (route = "results" /\ Settled) =>
    \/ page' = Blank
    \/ /\ route' = "results" /\ Settled'
       /\ \/ ResultsView' = ResultsView
          \/ {ResultsView, ResultsView'} = {"findings", "no_findings"}

LEMMA SameOutcome ==
  ASSUME route = "results", Settled, route' = route, page' \in PageRecord,
         page'.run = page.run, page'.error = page.error
  PROVE  OutcomeIsKept
  BY DEF OutcomeIsKept, Settled, ResultsView

(* No request of a settled page can change what it shows: its polls have   *)
(* ended, so an answer for it is one to a request for findings.            *)
THEOREM OutcomeStays == Spec => [][OutcomeIsKept]_vars
<1>1. Inv /\ [Next]_vars => [OutcomeIsKept]_vars
  <2> SUFFICES ASSUME Inv, Next, route = "results", Settled
               PROVE  OutcomeIsKept
    BY DEF OutcomeIsKept
  <2>1. page \in PageRecord
    BY TypeSplit DEF Inv
  <2>2. ~page.timer /\ \A x \in Slots : ~(requests[x].kind = "run" /\ OfPage(x))
    BY DEF Inv, PollInv, InFlight, Asked, OfPage
  <2>3. CASE \E p \in GuardedPages \cup {"login"} : Navigate(p)
    BY <2>3 DEF Navigate, Show, OutcomeIsKept
  <2>4. CASE SubmitLogin \/ Reload \/ Poll \/ StrayPoll
    <3>1. page' = Blank \/ (route' = route /\ page' = page)
      BY <2>2, <2>4 DEF SubmitLogin, Reload, Poll, StrayPoll
    <3>2. QED
      BY <2>1, <3>1, SameOutcome DEF OutcomeIsKept
  <2>5. CASE \E x \in Slots : Serve(x)
    <3>1. route' = route /\ page' = page
      BY <2>5 DEF Serve, AnswerLogin, Answer, Refuse
    <3>2. QED
      BY <2>1, <3>1, SameOutcome
  <2>6. ASSUME NEW x \in Slots, Arrive(x)
        PROVE  OutcomeIsKept
    <3>1. CASE Unauthorized(x) \/ SignedIn(x)
      <4>1. page' = Blank
        BY <3>1 DEF Unauthorized, SignedIn, Show
      <4>2. QED
        BY <4>1 DEF OutcomeIsKept
    <3>2. CASE RunArrives(x) \/ RunFails(x) \/ LoginFails(x)
      <4>1. route' = route /\ page' = page
        BY <2>2, <3>2 DEF RunArrives, RunFails, LoginFails, Has
      <4>2. QED
        BY <2>1, <4>1, SameOutcome
    <3>3. CASE FindingsArrive(x)
      <4>1. /\ route' = route /\ page' \in PageRecord
            /\ page'.run = page.run /\ page'.error = page.error
        BY <2>1, <3>3 DEF FindingsArrive, Has, PageRecord
      <4>2. QED
        BY <4>1, SameOutcome
    <3>4. CASE CardsArrive(x) \/ DetailArrives(x)
      <4>1. ~OfPage(x)
        BY <3>4, AskedByPage DEF CardsArrive, DetailArrives, Has, OfPage
      <4>2. route' = route /\ page' = page
        BY <3>4, <4>1 DEF CardsArrive, DetailArrives
      <4>3. QED
        BY <2>1, <4>2, SameOutcome
    <3>5. QED
      BY <2>6, <3>1, <3>2, <3>3, <3>4 DEF Arrive
  <2>7. CASE \/ \E t \in 1..Tokens : EndSession(t)
             \/ StoreFindings
             \/ \E s \in Terminal : EndRun(s)
             \/ Restart
    <3>1. route' = route /\ page' = page
      BY <2>7 DEF EndSession, StoreFindings, EndRun, Restart, tabVars
    <3>2. QED
      BY <2>1, <3>1, SameOutcome
  <2>8. QED
    BY <2>3, <2>4, <2>5, <2>6, <2>7 DEF Next
<1>2. QED
  BY <1>1, Invariance, PTL DEF Spec
=============================================================================
