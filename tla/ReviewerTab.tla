---------------------------- MODULE ReviewerTab ----------------------------
(***************************************************************************)
(* One browser tab of the web client: the session store, the interceptor   *)
(* and the route guard, the login page, the results page that polls a      *)
(* review run, the student page, and the requests they have in flight.     *)
(* The API behind them is reduced to the sessions it accepts and to one    *)
(* review run that the processor finishes or that is cancelled.            *)
(*                                                                         *)
(* The tab is one thread.  A request is sent, answered by the API and      *)
(* handled by the tab in three steps, and answers arrive in any order.     *)
(* Nothing unsubscribes when a page is left: its answers still arrive.     *)
(***************************************************************************)
EXTENDS Naturals, FiniteSets

CONSTANTS
  Slots,        \* bound on the requests in flight: each has one of these
  Tokens,       \* bound on the sessions in use at a time; their tokens are 1..Tokens
  MaxStrays,    \* bound on the polls that go on after their page was left
  Errors,       \* whether requests fail for other reasons than the session
  CancelEnabled \* whether cancelReviewRun is ever called; no route does so yet

ASSUME TabAssumption ==
  /\ IsFiniteSet(Slots) /\ Cardinality(Slots) >= 2
  /\ {Tokens, MaxStrays} \subseteq Nat
  /\ {Errors, CancelEnabled} \subseteq BOOLEAN

VARIABLES
  \* the tab
  session,    \* token of the session store, 0 if there is none
  route,      \* the page that is shown
  page,       \* its signals and its poll timer
  requests,   \* HttpClient requests in flight
  strays,     \* poll timers of pages that were left
  \* the API
  accepted,   \* tokens of sessions neither expired nor revoked
  run,        \* the review run: status in memory, and its stored findings
  known       \* whether the process that worked on the run still runs

tabVars == <<session, route, page, requests, strays>>
apiVars == <<accepted, run, known>>
vars == <<tabVars, apiVars>>

(* app.routes.ts: every page but the login page is guarded.  "other" is the*)
(* board page, which fetches its cards past the interceptor, so without a  *)
(* token, and keeps its demo cards, and the upload and the admin page.     *)
GuardedPages == {"results", "student", "other"}

Terminal == {"completed", "failed", "cancelled"}

Blank == [run |-> "none", found |-> "none", card |-> "none", error |-> FALSE,
          timer |-> FALSE]

NoRequest == [kind |-> "none", owner |-> "left", token |-> 0, reply |-> "none"]

Init ==
  /\ session = 0
  /\ route = "login"
  /\ page = Blank
  /\ requests = [x \in Slots |-> NoRequest]
  /\ strays = 0
  /\ accepted = {}
  /\ run = [status |-> "active", found |-> FALSE]
  /\ known = TRUE

-----------------------------------------------------------------------------
(* Requests.                                                               *)

(* The answers to two kinds of requests tell a page that was left nothing, *)
(* unless they are a 401.                                                  *)
Kind(kind, owner) ==
  IF owner = "left" /\ kind \in {"findings", "detail"} THEN "other" ELSE kind

(* shouldAttachToken: every request but the login carries the token the    *)
(* store holds when it is sent.                                            *)
Request(kind, owner, s) ==
  [kind |-> Kind(kind, owner), owner |-> owner, token |-> IF kind = "login" THEN 0 ELSE s,
   reply |-> "none"]

Free(reqs) == { x \in Slots : reqs[x].kind = "none" }

(* The requests with one more.                                             *)
Sent(reqs, q) == [reqs EXCEPT ![CHOOSE x \in Free(reqs) : TRUE] = q]

(* There is room for n more.                                               *)
Fits(reqs, n) == Cardinality(Free(reqs)) >= n

Asked(reqs, kind, owner) ==
  { x \in Slots : reqs[x].kind = kind /\ reqs[x].owner = owner }

InFlight(kind, owner) == Asked(requests, kind, owner)

(* loadRun asks for the run and its findings.                              *)
LoadRun(reqs, owner, s) ==
  Sent(Sent(reqs, Request("run", owner, s)), Request("findings", owner, s))

(* What a page asks for when it is created.                                *)
FirstRequests(p, reqs, s) ==
  CASE p = "results" -> LoadRun(reqs, "page", s)
    [] p = "student" -> Sent(reqs, Request("cards", "page", s))
    [] OTHER -> reqs

Needs(p) == IF p = "results" THEN 2 ELSE IF p = "student" THEN 1 ELSE 0

(* The requests of a page that is left keep their subscriptions.  Its      *)
(* signals are gone, so what still counts is a 401, a run to be polled on, *)
(* the cards that lead to a further request, and a login.                  *)
Matters(q) ==
  \/ q.owner = "page"
  \/ q.reply \in {"none", "401", "session"}
  \/ q.kind = "run" /\ q.reply = "active"
  \/ q.kind = "cards" /\ q.reply # "error"

Kept(q) == IF Matters(q) THEN q ELSE NoRequest

Left(reqs) ==
  [x \in Slots |-> Kept([reqs[x] EXCEPT !.owner = "left", !.kind = Kind(@, "left")])]

LeftPolls(reqs) == strays + Cardinality(Asked(reqs, "run", "left"))

(* The router shows page p to session s; onDestroy of the page that is     *)
(* left clears the timer it has then, and only that.                       *)
Show(p, s, reqs) ==
  LET old == Left(reqs)
  IN  /\ p = "results" => LeftPolls(old) < MaxStrays
      /\ Fits(old, Needs(p))
      /\ session' = s
      /\ route' = p
      /\ page' = Blank
      /\ requests' = FirstRequests(p, old, s)

-----------------------------------------------------------------------------
(* The reviewer.                                                           *)

(* Variant: the routes have no guard.                                      *)
RequireSessionNot(p) == p

(* requireSession                                                          *)
RequireSession(p) == IF p \in GuardedPages /\ session = 0 THEN "login" ELSE p

(* A link or the history of the tab leads to another page.                 *)
Navigate(p) ==
  /\ RequireSession(p) # route
  /\ Show(RequireSession(p), session, requests)
  /\ UNCHANGED <<strays, apiVars>>

(* The form is submitted; its button is disabled until the answer.         *)
SubmitLogin ==
  /\ route = "login"
  /\ InFlight("login", "page") = {}
  /\ Fits(requests, 1)
  /\ requests' = Sent(requests, Request("login", "page", session))
  /\ UNCHANGED <<session, route, page, strays, apiVars>>

(* The tab is reloaded: the store is memory only, and the guard of the     *)
(* page that was shown leads to the login page.                            *)
Reload ==
  /\ session' = 0
  /\ route' = "login"
  /\ page' = Blank
  /\ requests' = [x \in Slots |-> NoRequest]
  /\ strays' = 0
  /\ UNCHANGED apiVars

-----------------------------------------------------------------------------
(* The API.                                                                *)

(* Variant: the in-memory lifecycle of unknown documents answers.          *)
RunViewStub == "active"

(* A run this process does not know is made up as a queued one without     *)
(* findings; a review_run_<n> id, which the board uses, is never known.    *)
RunView == IF known THEN run.status ELSE "active"
FindingsView == IF known /\ run.found THEN "some" ELSE "empty"

(* The cards are read from the row.  A cancellation is not written to it:  *)
(* it may have been completed just before, and it fails when the processor *)
(* finds out.                                                              *)
CardViews ==
  IF run.status = "cancelled" THEN {"active", "completed", "failed"} ELSE {run.status}

Views(kind) ==
  CASE kind = "run" -> {RunView}
    [] kind = "findings" -> {FindingsView}
    [] kind = "cards" -> CardViews
    [] kind \in {"detail", "other"} -> {"active"}

Reply(x, r, t) ==
  LET q == [requests[x] EXCEPT !.reply = r, !.token = t]
  IN  requests' = [requests EXCEPT ![x] = Kept(q)]

Waiting(x) == requests[x].kind # "none" /\ requests[x].reply = "none"

(* A token that no session and no request has can stand for a new one.     *)
FreshTokens ==
  1..Tokens \ (accepted \cup {session} \cup { requests[x].token : x \in Slots })

AnswerLogin(x) ==
  /\ Waiting(x) /\ requests[x].kind = "login"
  /\ \/ \E t \in FreshTokens :
          accepted' = accepted \cup {t} /\ Reply(x, "session", t)
     \/ Reply(x, "401", 0) /\ UNCHANGED accepted
  /\ UNCHANGED <<session, route, page, strays, run, known>>

Answer(x) ==
  /\ Waiting(x) /\ requests[x].kind # "login"
  /\ IF requests[x].token \in accepted
     THEN \E view \in Views(requests[x].kind) : Reply(x, view, 0)
     ELSE Reply(x, "401", 0)
  /\ UNCHANGED <<session, route, page, strays, apiVars>>

(* A 503, a throttled login, or no connection.                             *)
Refuse(x) ==
  /\ Errors /\ Waiting(x)
  /\ Reply(x, "error", 0)
  /\ UNCHANGED <<session, route, page, strays, apiVars>>

(* A session expires or is revoked: requests that carry its token are as   *)
(* good as requests without one.                                           *)
EndSession(t) ==
  /\ t \in accepted
  /\ accepted' = accepted \ {t}
  /\ requests' = [x \in Slots |->
       IF requests[x].token = t /\ Waiting(x)
       THEN [requests[x] EXCEPT !.token = 0] ELSE requests[x]]
  /\ UNCHANGED <<session, route, page, strays, run, known>>

(* The processor stores findings and then ends the run.  Nobody tells it   *)
(* that the run was cancelled, so it may still store them then.            *)
StoreFindings ==
  /\ known /\ run.status \in {"active", "cancelled"} /\ ~run.found
  /\ run' = [run EXCEPT !.found = TRUE]
  /\ UNCHANGED <<tabVars, accepted, known>>

EndRun(s) ==
  /\ known /\ run.status = "active"
  /\ s = "cancelled" => CancelEnabled
  /\ run' = [run EXCEPT !.status = s]
  /\ UNCHANGED <<tabVars, accepted, known>>

Restart ==
  /\ known
  /\ known' = FALSE
  /\ UNCHANGED <<tabVars, accepted, run>>

-----------------------------------------------------------------------------
(* Answers reach the tab.                                                  *)

Taken(x) == [requests EXCEPT ![x] = NoRequest]

Has(x, kind, replies) ==
  requests[x].kind = kind /\ requests[x].reply \in replies

OfPage(x) == requests[x].owner = "page"

(* sessionInterceptor: a 401 of any request, whichever session sent it,    *)
(* clears the store and leads to the login page.                           *)
Unauthorized(x) ==
  /\ requests[x].reply = "401"
  /\ IF route = "login"
     THEN session' = 0 /\ requests' = Taken(x) /\ UNCHANGED <<route, page>>
     ELSE Show("login", 0, Taken(x))
  /\ UNCHANGED <<strays, apiVars>>

(* The session is stored and the tab goes where the reviewer meant to go.  *)
SignedIn(x) ==
  /\ Has(x, "login", {"session"})
  /\ \E p \in GuardedPages : Show(p, requests[x].token, Taken(x))
  /\ UNCHANGED <<strays, apiVars>>

(* Variant: a failed run is polled on.                                     *)
ScheduleNextPollEndlessly(status) == status # "completed"

(* scheduleNextPollIfNeeded                                                *)
ScheduleNextPoll(status) == status \notin Terminal

RunArrives(x) ==
  LET status == requests[x].reply
  IN  /\ Has(x, "run", {"active"} \cup Terminal)
      /\ requests' = Taken(x)
      /\ IF OfPage(x)
         THEN /\ page' = [page EXCEPT !.run = status, !.error = FALSE,
                                      !.timer = ScheduleNextPoll(status)]
              /\ UNCHANGED strays
         ELSE /\ strays' = IF ScheduleNextPoll(status) THEN strays + 1 ELSE strays
              /\ UNCHANGED page
      /\ UNCHANGED <<session, route, apiVars>>

RunFails(x) ==
  /\ Has(x, "run", {"error"})
  /\ requests' = Taken(x)
  /\ page' = IF OfPage(x) THEN [page EXCEPT !.error = TRUE] ELSE page
  /\ UNCHANGED <<session, route, strays, apiVars>>

(* Variant: a failed answer is kept like a list.                           *)
FindingsArriveRaw(x) ==
  /\ Has(x, "findings", {"some", "empty", "error"})
  /\ requests' = Taken(x)
  /\ page' = IF OfPage(x) THEN [page EXCEPT !.found = requests[x].reply] ELSE page
  /\ UNCHANGED <<session, route, strays, apiVars>>

FindingsArrive(x) ==
  /\ Has(x, "findings", {"some", "empty", "error"})
  /\ requests' = Taken(x)
  /\ page' = IF OfPage(x)
             THEN [page EXCEPT !.found =
                     IF requests[x].reply = "error" THEN "none" ELSE requests[x].reply]
             ELSE page
  /\ UNCHANGED <<session, route, strays, apiVars>>

(* loadStudentReview and loadReviewRunDetail: the cards name the run, and  *)
(* then the run and its report are asked for together; forkJoin makes one  *)
(* answer of the two.                                                      *)
CardsArrive(x) ==
  /\ Has(x, "cards", {"active", "error"} \cup Terminal)
  /\ IF requests[x].reply = "error"
     THEN requests' = Taken(x)
     ELSE requests' = Sent(Taken(x), Request("detail", requests[x].owner, session))
  /\ page' = IF ~OfPage(x) THEN page
             ELSE IF requests[x].reply = "error" THEN [page EXCEPT !.error = TRUE]
             ELSE [page EXCEPT !.card = requests[x].reply]
  /\ UNCHANGED <<session, route, strays, apiVars>>

DetailArrives(x) ==
  /\ Has(x, "detail", {"active", "error"})
  /\ requests' = Taken(x)
  /\ page' = IF OfPage(x) /\ requests[x].reply = "active"
             THEN [page EXCEPT !.run = "active"] ELSE page
  /\ UNCHANGED <<session, route, strays, apiVars>>

(* A login that fails otherwise only shows its message.                    *)
LoginFails(x) ==
  /\ Has(x, "login", {"error"})
  /\ requests' = Taken(x)
  /\ UNCHANGED <<session, route, page, strays, apiVars>>

Arrive(x) ==
  \/ Unauthorized(x)
  \/ SignedIn(x)
  \/ RunArrives(x)
  \/ RunFails(x)
  \/ FindingsArrive(x)
  \/ CardsArrive(x)
  \/ DetailArrives(x)
  \/ LoginFails(x)

(* The timer of the results page fires: loadRun asks for both again.       *)
Poll ==
  /\ page.timer
  /\ Fits(requests, 2)
  /\ page' = [page EXCEPT !.timer = FALSE]
  /\ requests' = LoadRun(requests, "page", session)
  /\ UNCHANGED <<session, route, strays, apiVars>>

(* So does the timer that an answer set after its page was left.           *)
StrayPoll ==
  /\ strays > 0
  /\ Fits(requests, 2)
  /\ strays' = strays - 1
  /\ requests' = LoadRun(requests, "left", session)
  /\ UNCHANGED <<session, route, page, apiVars>>

-----------------------------------------------------------------------------

Serve(x) == AnswerLogin(x) \/ Answer(x) \/ Refuse(x)

Next ==
  \/ \E p \in GuardedPages \cup {"login"} : Navigate(p)
  \/ SubmitLogin
  \/ Reload
  \/ \E x \in Slots : Serve(x) \/ Arrive(x)
  \/ Poll
  \/ StrayPoll
  \/ \E t \in 1..Tokens : EndSession(t)
  \/ StoreFindings
  \/ \E s \in Terminal : EndRun(s)
  \/ Restart

(* Requests are answered or fail, the event loop runs their handlers and   *)
(* the timers fire; the strong fairness of the poll only says that the     *)
(* bound on the requests in flight, which the browser does not have, does  *)
(* not hold it back for ever.  Nobody has to sign in, navigate or reload,  *)
(* no session has to end, and the run need not progress.                   *)
Spec ==
  /\ Init /\ [][Next]_vars
  /\ \A x \in Slots : WF_vars(Serve(x) \/ Arrive(x))
  /\ SF_vars(Poll)

-----------------------------------------------------------------------------
(* Properties.                                                             *)

(* Every variable has its type.                                            *)
TypeOK ==
  /\ session \in 0..Tokens
  /\ route \in GuardedPages \cup {"login"}
  /\ page \in [run : {"none", "active"} \cup Terminal, error : BOOLEAN, timer : BOOLEAN,
               found : {"none", "some", "empty"},
               card : {"none", "active"} \cup Terminal]
  /\ requests \in [Slots ->
       [kind : {"none", "login", "run", "findings", "cards", "detail", "other"},
        owner : {"page", "left"}, token : 0..Tokens,
        reply : {"none", "session", "401", "error", "active", "some", "empty"} \cup Terminal]]
  /\ strays \in 0..MaxStrays
  /\ accepted \subseteq 1..Tokens
  /\ run \in [status : {"active"} \cup Terminal, found : BOOLEAN]
  /\ known \in BOOLEAN

(* A tab without a session shows the login page and no data of a page that *)
(* needs one, however the session went: a late 401 of an older session or  *)
(* of a poll whose page was left, a failed login, a reload.                *)
SignedOutIsAtLogin == session = 0 => route = "login" /\ page = Blank

(* Variant: a failed run is shown like a completed one.                    *)
ResultsViewUnfailed ==
  IF page.error THEN "error"
  ELSE IF page.run = "none" THEN "loading"
  ELSE IF page.run = "active" THEN "in_progress"
  ELSE IF page.found = "some" THEN "findings" ELSE "no_findings"

(* buildResultsViewModel                                                   *)
ResultsView ==
  IF page.error THEN "error"
  ELSE IF page.run = "none" THEN "loading"
  ELSE IF page.run = "active" THEN "in_progress"
  ELSE IF page.run = "failed" THEN "failed"
  ELSE IF page.found = "some" THEN "findings" ELSE "no_findings"

Settled == ResultsView \in {"error", "failed", "findings", "no_findings"}

OwnPolls ==
  (IF page.timer THEN 1 ELSE 0)
    + Cardinality(InFlight("run", "page"))

(* A results page has exactly one poll, a timer or a request, until it     *)
(* shows an outcome or an error, and then none: it neither stalls nor      *)
(* multiplies its polls, whatever order the answers come in.               *)
OnePollUntilSettled ==
  route = "results" => OwnPolls = (IF Settled THEN 0 ELSE 1)

(* buildStudentReviewViewModel: the status the student page shows.         *)
StudentStatus == IF page.run # "none" THEN page.run ELSE page.card

(* An outcome that a page shows is the outcome of the run, whatever order  *)
(* the answers come in: a failure is shown of a failed run only, findings  *)
(* only of a run that has some.  The one exception is a cancelled run: the *)
(* results page has no view of it and prints "Status: completed" with the  *)
(* findings there are, and on the student page, which shows the status of  *)
(* the row, it ends as completed or failed.                                *)
OutcomeIsTrue ==
  /\ route = "results" =>
       /\ ResultsView = "failed" => run.status = "failed"
       /\ ResultsView \in {"findings", "no_findings"}
            => run.status \in {"completed", "cancelled"}
       /\ ResultsView = "findings" => run.found
  /\ (route = "student" /\ StudentStatus \in Terminal) =>
       /\ StudentStatus # "cancelled"
       /\ run.status \in {StudentStatus, "cancelled"}

(* The results page of a run that has ended shows an outcome or an error   *)
(* in the end, unless it is left or the process that knew the run is gone. *)
ResultsSettle ==
  (route = "results" /\ run.status \in Terminal)
    ~> (route # "results" \/ Settled \/ ~known)

(* The results page shows the real findings of a run once it is terminal:  *)
(* with every answer handled, it does not say that a run with stored       *)
(* findings has none.                                                      *)
ShowsRealFindings ==
  (/\ route = "results" /\ ResultsView = "no_findings" /\ known
   /\ InFlight("findings", "page") = {})
    => ~run.found
=============================================================================
