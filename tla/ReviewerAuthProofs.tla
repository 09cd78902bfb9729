------------------------- MODULE ReviewerAuthProofs -------------------------
(***************************************************************************)
(* Proofs about ReviewerAuth, for every value of its constants: who gets a *)
(* session, that a revoked session or a deactivated reviewer stays shut    *)
(* out, and what the counters of failed logins say.                        *)
(*                                                                         *)
(* Each request carries what it read, and the argument for the sessions is *)
(* that nothing it still relies on is undone meanwhile: an account never   *)
(* disappears, a deactivated one is never active again, a session is       *)
(* written by its own login before its token is handed out and only        *)
(* revoked after that.  What a login has read of a counter may be undone:  *)
(* there the argument is that the failures of the address account for it   *)
(* all the same (Backed), and that it is still what is stored unless a     *)
(* second writer of that counter was on its way (Reading).                 *)
(***************************************************************************)
EXTENDS ReviewerAuth, FiniteSetTheorems, SequenceTheorems, TLAPS

LoginStates == {"idle", "find", "verify", "session", "audit", "done"}
Answers == {"none", "201", "401", "429", "error", "lost"}

(* The locals of a login; what it has read is typed where it is used.      *)
IsLogin(r) ==
  r \in [pc : LoginStates, email : Emails \cup {None}, given : Passwords,
         began : 0 .. MaxTime, seen : {r.seen}, known : BOOLEAN,
         answer : Answers, failed : BOOLEAN, good : BOOLEAN]

Shapes ==
  /\ now \in 0 .. MaxTime
  /\ account \in [Emails -> AccountRow \cup {None}]
  /\ session \in [Attempts -> SessionRow \cup {None}]
  /\ login = [a \in Attempts |-> login[a]]
  /\ logout \in [Logouts -> [pc : {"idle", "find", "revoke", "204", "error", "lost"},
                             token : Attempts \cup {None}]]
  /\ check \in [Checks -> [pc : {"idle", "find", "passed", "401", "503", "lost"},
                           token : Attempts \cup {None}, at : Nat, doomed : BOOLEAN]]
  /\ command \in [Commands -> [pc : {"idle", "write", "done", "failed"},
                               mode : {"create", "reset", "deactivate"},
                               email : Emails \cup {None}, password : Passwords]]

(* A login in flight is about an address; what it read of an account is a  *)
(* row of it, and if its password and the account agree, or agreed when it *)
(* read the row, it is a good one.  Its session is not there before it is  *)
(* created, belongs to its address, and is what it hands out.              *)
LoginInv(a) ==
  /\ IsLogin(login[a])
  /\ InFlight(a) => login[a].email \in Emails
  /\ (InFlight(a) /\ Matches(login[a].email, login[a].given)) => login[a].good
  /\ (login[a].pc \in {"verify", "session"} /\ login[a].known) =>
       /\ login[a].seen \in AccountRow
       /\ HasAccount(login[a].email)
       /\ Succeeded(a) => login[a].good
  /\ (login[a].pc = "session") => (login[a].known /\ login[a].good)
  /\ (login[a].pc \in {"idle", "find", "verify", "session"}) => session[a] = None
  /\ (session[a] # None) => (login[a].good /\ HasAccount(session[a].email))
  /\ (login[a].answer = "201") => session[a] # None
  /\ (login[a].pc \in {"idle", "find", "verify", "session"}) => login[a].answer = "none"

LogoutInv(l) ==
  /\ (logout[l].pc # "idle") =>
       /\ logout[l].token \in Attempts
       /\ HandedOut(logout[l].token)
  /\ (logout[l].pc = "204") => session[logout[l].token].revoked

CheckInv(c) ==
  /\ (check[c].pc # "idle") =>
       /\ check[c].token \in Attempts
       /\ HandedOut(check[c].token)
  /\ (check[c].pc = "find" /\ check[c].doomed) => ~Usable(check[c].token, check[c].at)
  /\ (check[c].pc = "passed") => ~check[c].doomed

CommandInv(o) ==
  /\ (command[o].pc = "write") => command[o].email \in Emails
  /\ (command[o].pc = "write" /\ command[o].mode # "create") =>
       HasAccount(command[o].email)

AuthInv ==
  /\ Shapes
  /\ \A a \in Attempts : LoginInv(a)
  /\ \A l \in Logouts : LogoutInv(l)
  /\ \A c \in Checks : CheckInv(c)
  /\ \A o \in Commands : CommandInv(o)

-----------------------------------------------------------------------------
(* What a step leaves as it was.                                           *)

(* Of the accounts, all that a login compares.                             *)
AccountsKept ==
  \A e \in Emails :
    /\ HasAccount(e)' <=> HasAccount(e)
    /\ HasAccount(e) =>
         /\ account'[e].active = account[e].active
         /\ account'[e].password = account[e].password

(* An account stays, and is not active again.                              *)
AccountsGrow ==
  \A e \in Emails :
    HasAccount(e) => (HasAccount(e)' /\ (account'[e].active => account[e].active))

(* A session whose token was handed out is at most revoked.                *)
SessionsKept ==
  \A t \in Attempts :
    HandedOut(t) =>
      /\ HandedOut(t)'
      /\ session'[t] # None
      /\ session'[t].email = session[t].email
      /\ session'[t].expires = session[t].expires
      /\ session[t].revoked => session'[t].revoked

LEMMA Unchanged ==
  ASSUME AuthInv
  PROVE  /\ account' = account => (AccountsKept /\ AccountsGrow)
         /\ (session' = session /\ login' = login) => SessionsKept
  BY DEF AuthInv, LoginInv, AccountsKept, AccountsGrow, SessionsKept, HandedOut, HasAccount

LEMMA LoginKept ==
  ASSUME AuthInv, AccountsKept, NEW a \in Attempts, login'[a] = login[a],
         session'[a] = session[a]
  PROVE  LoginInv(a)'
<1>1. LoginInv(a) /\ ((session[a] # None) => session[a].email \in Emails)
  BY DEF AuthInv, Shapes, SessionRow
<1>2. QED
  BY <1>1 DEF LoginInv, AccountsKept, InFlight, Matches, HasAccount, Succeeded, IsLogin

LEMMA LogoutKept ==
  ASSUME AuthInv, SessionsKept, NEW l \in Logouts, logout'[l] = logout[l]
  PROVE  LogoutInv(l)'
  BY DEF AuthInv, LogoutInv, SessionsKept, HandedOut

LEMMA UselessKept ==
  ASSUME AuthInv, SessionsKept, AccountsGrow, NEW t \in Attempts, HandedOut(t), NEW n,
         ~Usable(t, n)
  PROVE  ~Usable(t, n)'
<1>1. session[t] # None /\ session[t].email \in Emails /\ HasAccount(session[t].email)
  BY DEF AuthInv, Shapes, SessionRow, LoginInv, HandedOut
<1>2. QED
  BY <1>1 DEF Usable, SessionsKept, AccountsGrow

LEMMA CheckKept ==
  ASSUME AuthInv, SessionsKept, AccountsGrow, NEW c \in Checks, check'[c] = check[c]
  PROVE  CheckInv(c)'
<1>1. CheckInv(c)
  BY DEF AuthInv
<1>2. ASSUME check[c].pc = "find", check[c].doomed
      PROVE  ~Usable(check[c].token, check[c].at)'
  BY <1>1, <1>2, UselessKept DEF CheckInv
<1>3. QED
  BY <1>1, <1>2 DEF CheckInv, SessionsKept, HandedOut, Usable, HasAccount

LEMMA CommandKept ==
  ASSUME AuthInv, AccountsGrow, NEW o \in Commands, command'[o] = command[o]
  PROVE  CommandInv(o)'
  BY DEF AuthInv, CommandInv, AccountsGrow, HasAccount

(* A step of one login.                                                    *)
LEMMA LoginStep ==
  ASSUME AuthInv, AccountsKept, AccountsGrow, NEW a \in Attempts, NEW x,
         login' = [login EXCEPT ![a] = x], login[a].pc # "done",
         \A b \in Attempts : (b # a) => session'[b] = session[b],
         UNCHANGED <<now, logout, check, command>>,
         account' \in [Emails -> AccountRow \cup {None}],
         session' \in [Attempts -> SessionRow \cup {None}],
         LoginInv(a)'
  PROVE  AuthInv'
<1>1. /\ login'[a] = x
      /\ \A b \in Attempts : (b # a) => login'[b] = login[b]
      /\ login' = [b \in Attempts |-> login'[b]]
  BY DEF AuthInv, Shapes
<1>2. Shapes'
  BY <1>1 DEF AuthInv, Shapes
<1>3. SessionsKept
  BY <1>1 DEF AuthInv, LoginInv, SessionsKept, HandedOut
<1>4. \A b \in Attempts : LoginInv(b)'
  BY <1>1, LoginKept
<1>5. QED
  BY <1>2, <1>3, <1>4, LogoutKept, CheckKept, CommandKept DEF AuthInv

-----------------------------------------------------------------------------
(* The login.                                                              *)

LEMMA SubmitSafe ==
  ASSUME AuthInv, NEW a \in Attempts, Submit(a)
  PROVE  AuthInv'
<1>1. PICK e \in Emails, p \in Passwords :
        login' = [login EXCEPT ![a] =
          [NoLogin EXCEPT !.pc = "find", !.email = e, !.given = p,
                          !.began = now, !.good = Matches(e, p)]]
  BY DEF Submit
<1> DEFINE x == [NoLogin EXCEPT !.pc = "find", !.email = e, !.given = p,
                                !.began = now, !.good = Matches(e, p)]
<1>2. /\ UNCHANGED <<now, account, session, logout, check, command>>
      /\ login[a].pc = "idle" /\ login'[a] = x /\ session[a] = None
  BY <1>1 DEF Submit, AuthInv, Shapes, LoginInv
<1>3. now \in 0 .. MaxTime /\ (account[e] \in AccountRow \cup {None}) 
  BY DEF AuthInv, Shapes
<1>4. Matches(e, p) \in BOOLEAN
  BY <1>3 DEF Matches, HasAccount, AccountRow
<1>5. /\ IsLogin(x) /\ x.pc = "find" /\ x.email = e /\ x.given = p
      /\ x.good = Matches(e, p) /\ x.answer = "none"
  BY <1>3, <1>4 DEF IsLogin, NoLogin, LoginStates, Answers
<1>6. LoginInv(a)'
  BY <1>2, <1>5 DEF LoginInv, InFlight, Matches, HasAccount
<1>7. QED
  BY <1>1, <1>2, <1>6, Unchanged, LoginStep DEF AuthInv, Shapes

(* The request is answered or refused.                                     *)
LEMMA OverFields ==
  ASSUME NEW r, IsLogin(r), NEW s \in Answers
  PROVE  /\ IsLogin(Over(r, s))
         /\ Over(r, s).pc = "done" /\ Over(r, s).answer = s /\ Over(r, s).good = r.good
<1>1. 0 \in 0 .. MaxTime /\ First \in Passwords
  BY AuthAssumption
<1>2. r.email \in Emails \cup {None} /\ r.failed \in BOOLEAN /\ r.good \in BOOLEAN
  BY DEF IsLogin
<1>3. PICK e \in Emails \cup {None}, f \in BOOLEAN, g \in BOOLEAN :
        e = r.email /\ f = r.failed /\ g = r.good
  BY <1>2
<1> DEFINE x == [NoLogin EXCEPT !.pc = "done", !.answer = s, !.email = e, !.failed = f,
                                !.good = g]
<1>4. IsLogin(x) /\ x.pc = "done" /\ x.answer = s /\ x.good = g
  BY <1>1 DEF NoLogin, IsLogin, LoginStates
<1>5. QED
  BY <1>3, <1>4 DEF Over

LEMMA OverSafe ==
  ASSUME AuthInv, AccountsKept, AccountsGrow, NEW a \in Attempts, InFlight(a),
         NEW r, IsLogin(r), r.good = login[a].good, NEW s \in Answers,
         login' = [login EXCEPT ![a] = Over(r, s)],
         session' = session, s # "201",
         UNCHANGED <<now, logout, check, command>>,
         account' \in [Emails -> AccountRow \cup {None}]
  PROVE  AuthInv'
<1>1. /\ login'[a] = Over(r, s) /\ login[a].pc # "done"
      /\ session[a] # None => (login[a].good /\ HasAccount(session[a].email))
      /\ session[a] # None => session[a].email \in Emails
  BY DEF AuthInv, Shapes, InFlight, LoginInv, SessionRow
<1>2. LoginInv(a)'
  BY <1>1, OverFields DEF LoginInv, InFlight, HasAccount, AccountsGrow
<1>3. QED
  BY <1>1, <1>2, LoginStep DEF AuthInv, Shapes

LEMMA FindByEmailSafe ==
  ASSUME AuthInv, NEW a \in Attempts, FindByEmail(a)
  PROVE  AuthInv'
<1>1. /\ UNCHANGED <<now, account, session, logout, check, command>>
      /\ login[a].pc = "find" /\ LoginInv(a) /\ login[a].email \in Emails
      /\ session[a] = None /\ InFlight(a)
      /\ account \in [Emails -> AccountRow \cup {None}]
      /\ session \in [Attempts -> SessionRow \cup {None}]
  BY DEF FindByEmail, AuthInv, LoginInv, InFlight, Shapes
<1>2. AccountsKept /\ AccountsGrow
  BY <1>1, Unchanged
<1>3. PICK seen :
        \/ login' = Answered(a, "error")
        \/ login' = Refused(a, "429")
        \/ login' = [login EXCEPT ![a].pc = "verify",
                       ![a].known = HasAccount(login[a].email),
                       ![a].seen = IF HasAccount(login[a].email) THEN account[login[a].email]
                                   ELSE [throttle |-> seen]]
  BY DEF FindByEmail
<1>4. CASE login' = Answered(a, "error")
  <2>1. login' = [login EXCEPT ![a] = Over(login[a], "error")]
    BY <1>4 DEF Answered
  <2>2. QED
    BY <1>1, <1>2, <2>1, OverSafe DEF LoginInv, Answers
<1>5. CASE login' = Refused(a, "429")
  <2> DEFINE x == [[login[a] EXCEPT !.pc = "audit"] EXCEPT !.answer = "429"]
  <2>1. login' = [login EXCEPT ![a] = x]
    BY <1>5 DEF Refused, AuthInv, Shapes
  <2>2. /\ IsLogin(x) /\ x.pc = "audit" /\ x.answer = "429"
        /\ x.good = login[a].good /\ x.email = login[a].email /\ x.given = login[a].given
    BY <1>1 DEF LoginInv, IsLogin, LoginStates, Answers
  <2>3. login'[a] = x
    BY <2>1 DEF AuthInv, Shapes
  <2>4. LoginInv(a)'
    BY <1>1, <2>2, <2>3 DEF LoginInv, InFlight, Matches, HasAccount
  <2>5. QED
    BY <1>1, <1>2, <2>1, <2>4, LoginStep
<1>6. CASE login' = [login EXCEPT ![a].pc = "verify",
                       ![a].known = HasAccount(login[a].email),
                       ![a].seen = IF HasAccount(login[a].email) THEN account[login[a].email]
                                   ELSE [throttle |-> seen]]
  <2> DEFINE known == HasAccount(login[a].email)
             read == IF known THEN account[login[a].email] ELSE [throttle |-> seen]
             x == [[[login[a] EXCEPT !.pc = "verify"] EXCEPT !.known = known]
                      EXCEPT !.seen = read]
  <2>1. login' = [login EXCEPT ![a] = x]
    BY <1>6 DEF AuthInv, Shapes
  <2>2. known \in BOOLEAN
    BY DEF HasAccount
  <2> HIDE DEF read, known
  <2>3. /\ IsLogin(x) /\ x.pc = "verify" /\ x.answer = "none"
        /\ x.known = known /\ x.seen = read
        /\ x.good = login[a].good /\ x.email = login[a].email /\ x.given = login[a].given
    BY <1>1, <2>2 DEF LoginInv, IsLogin, LoginStates
  <2> HIDE DEF x
  <2>4. login'[a] = x
    BY <2>1 DEF AuthInv, Shapes
  <2>5. known => /\ read \in AccountRow /\ HasAccount(login[a].email)
                 /\ (read.active /\ login[a].given = read.password) => login[a].good
    BY <1>1 DEF known, read, HasAccount, LoginInv, Matches
  <2>6. LoginInv(a)'
    BY <1>1, <2>3, <2>4, <2>5 DEF LoginInv, InFlight, Matches, HasAccount, Succeeded
  <2>7. QED
    BY <1>1, <1>2, <2>1, <2>6, LoginStep
<1>7. QED
  BY <1>3, <1>4, <1>5, <1>6

(* The counter that is written is within its bounds.                       *)
LEMMA NextStateTyped ==
  ASSUME NEW s \in LoginState, NEW t \in 0 .. MaxTime, NEW ok \in BOOLEAN
  PROVE  NextLoginState(s, t, ok) \in LoginState
<1>1. s.count \in 0 .. Threshold - 1 /\ s.until \in 0 .. MaxTime + Window
      /\ s = [count |-> s.count, until |-> s.until]
  BY DEF LoginState
<1>2. Threshold \in Nat \ {0} /\ Window \in Nat /\ MaxTime \in Nat
  BY AuthAssumption
<1>3. CASE ok
  BY <1>2, <1>3 DEF NextLoginState, Fresh, LoginState
<1>4. CASE ~ok /\ s.count + 1 >= Threshold
  BY <1>2, <1>4 DEF NextLoginState, LoginState
<1>5. CASE ~ok /\ ~(s.count + 1 >= Threshold)
  BY <1>1, <1>2, <1>5 DEF NextLoginState, LoginState
<1>6. QED
  BY <1>3, <1>4, <1>5

(* Only the counter of the row changes, so no login notices.               *)
LEMMA UpdateLoginStateSafe ==
  ASSUME AuthInv, NEW a \in Attempts, UpdateLoginState(a)
  PROVE  AuthInv'
<1> DEFINE e == login[a].email
           next == NextLoginState(login[a].seen.throttle, login[a].began, Succeeded(a))
<1>1. /\ UNCHANGED <<now, session, logout, check, command>>
      /\ login[a].pc = "verify" /\ login[a].known /\ LoginInv(a) /\ e \in Emails
      /\ session[a] = None /\ InFlight(a) /\ login[a].seen \in AccountRow
      /\ account[e] \in AccountRow /\ login[a].began \in 0 .. MaxTime
      /\ account \in [Emails -> AccountRow \cup {None}]
      /\ session \in [Attempts -> SessionRow \cup {None}]
  BY DEF UpdateLoginState, AuthInv, LoginInv, IsLogin, InFlight, Shapes, HasAccount
<1>2. Succeeded(a) \in BOOLEAN
  BY <1>1 DEF Succeeded, AccountRow
<1>3. next \in LoginState
  BY <1>1, <1>2, NextStateTyped DEF AccountRow
<1> HIDE DEF next
<1>4. account' = account \/ account' = [account EXCEPT ![e].throttle = next]
  BY DEF UpdateLoginState, next
<1>5. /\ account' \in [Emails -> AccountRow \cup {None}]
      /\ AccountsKept /\ AccountsGrow
  <2>1. CASE account' = account
    BY <1>1, <2>1, Unchanged
  <2>2. CASE account' = [account EXCEPT ![e].throttle = next]
    <3> DEFINE y == [account[e] EXCEPT !.throttle = next]
    <3>1. y \in AccountRow /\ y.active = account[e].active
          /\ y.password = account[e].password
      BY <1>1, <1>3 DEF AccountRow
    <3>2. account' = [account EXCEPT ![e] = y]
      BY <1>1, <2>2
    <3>3. account[e] # None /\ y # None
      BY <1>1, <3>1, NoneAssumption
    <3> HIDE DEF y
    <3>4. account' \in [Emails -> AccountRow \cup {None}]
      BY <1>1, <3>1, <3>2
    <3>5. account'[e] = y /\ \A f \in Emails : (f # e) => account'[f] = account[f]
      BY <1>1, <3>2
    <3>6. QED
      BY <3>1, <3>3, <3>4, <3>5 DEF AccountsKept, AccountsGrow, HasAccount
  <2>3. QED
    BY <1>4, <2>1, <2>2
<1>6. PICK f \in BOOLEAN, o \in DbOutcomes :
        login' = [login EXCEPT ![a] =
          IF o # "ok" THEN Over([login[a] EXCEPT !.failed = f], "error")
          ELSE IF Succeeded(a) THEN [[login[a] EXCEPT !.failed = f] EXCEPT !.pc = "session"]
          ELSE [[login[a] EXCEPT !.failed = f] EXCEPT !.pc = "audit", !.answer = "401"]]
  <2>1. PICK o \in DbOutcomes :
          LET written == [login[a] EXCEPT !.failed = o # "error" /\ ~Succeeded(a)]
          IN  login' = [login EXCEPT ![a] =
                IF o # "ok" THEN Over(written, "error")
                ELSE IF Succeeded(a) THEN [written EXCEPT !.pc = "session"]
                ELSE [written EXCEPT !.pc = "audit", !.answer = "401"]]
    BY DEF UpdateLoginState
  <2>2. (o # "error" /\ ~Succeeded(a)) \in BOOLEAN
    OBVIOUS
  <2>3. QED
    BY <2>1, <2>2
<1> DEFINE w == [login[a] EXCEPT !.failed = f]
<1>7. IsLogin(w) /\ w.good = login[a].good /\ w.pc = "verify" /\ w.answer = "none"
      /\ w.email = e /\ w.given = login[a].given /\ w.known /\ w.seen = login[a].seen
  BY <1>1, <1>6 DEF LoginInv, IsLogin
<1>8. CASE o # "ok"
  <2>1. login' = [login EXCEPT ![a] = Over(w, "error")]
    BY <1>6, <1>8
  <2>2. QED
    BY <1>1, <1>5, <1>7, <2>1, OverSafe DEF Answers
<1>9. CASE o = "ok" /\ Succeeded(a)
  <2> DEFINE x == [w EXCEPT !.pc = "session"]
  <2>1. login' = [login EXCEPT ![a] = x]
    BY <1>6, <1>9
  <2>2. /\ IsLogin(x) /\ x.pc = "session" /\ x.answer = "none" /\ x.known
        /\ x.good = login[a].good /\ x.email = e /\ x.seen = login[a].seen
    BY <1>7 DEF IsLogin, LoginStates
  <2> HIDE DEF x
  <2>3. login'[a] = x /\ login[a].good
    BY <1>1, <1>9, <2>1 DEF AuthInv, Shapes, LoginInv
  <2>4. account'[e] # None
    BY <1>1, <1>5 DEF LoginInv, AccountsGrow, HasAccount
  <2>5. LoginInv(a)'
    BY <1>1, <2>2, <2>3, <2>4 DEF LoginInv, InFlight, HasAccount
  <2>6. QED
    BY <1>1, <1>5, <2>1, <2>5, LoginStep
<1>10. CASE o = "ok" /\ ~Succeeded(a)
  <2> DEFINE x == [[w EXCEPT !.pc = "audit"] EXCEPT !.answer = "401"]
  <2>1. login' = [login EXCEPT ![a] = x]
    BY <1>6, <1>10
  <2>2. /\ IsLogin(x) /\ x.pc = "audit" /\ x.answer = "401"
        /\ x.good = login[a].good /\ x.email = e /\ x.given = login[a].given
    BY <1>7 DEF IsLogin, LoginStates, Answers
  <2> HIDE DEF x
  <2>3. login'[a] = x
    BY <2>1 DEF AuthInv, Shapes
  <2>4. (/\ account'[e] # None /\ account'[e].active
         /\ account'[e].password = login[a].given) => login[a].good
    BY <1>1, <1>5 DEF LoginInv, AccountsKept, Matches, HasAccount
  <2>5. LoginInv(a)'
    BY <1>1, <2>2, <2>3, <2>4 DEF LoginInv, InFlight, Matches, HasAccount
  <2>6. QED
    BY <1>1, <1>5, <2>1, <2>5, LoginStep
<1>11. QED
  BY <1>8, <1>9, <1>10

(* An unknown address changes only the map.                                *)
LEMMA RefusalSafe ==
  ASSUME AuthInv, NEW a \in Attempts,
         RememberUnknown(a) \/ Respond(a)
  PROVE  AuthInv'
<1>1. /\ UNCHANGED <<now, account, session, logout, check, command>>
      /\ InFlight(a) /\ LoginInv(a) /\ login[a].pc # "done"
      /\ account \in [Emails -> AccountRow \cup {None}]
      /\ session \in [Attempts -> SessionRow \cup {None}]
  BY DEF RememberUnknown, Respond, AuthInv, InFlight, Shapes
<1>2. AccountsKept /\ AccountsGrow
  BY <1>1, Unchanged
<1>3. CASE RememberUnknown(a)
  <2> DEFINE x == [[[login[a] EXCEPT !.pc = "audit"] EXCEPT !.answer = "401"]
                      EXCEPT !.failed = TRUE]
  <2>1. login' = [login EXCEPT ![a] = x]
    BY <1>3 DEF RememberUnknown, Refused, AuthInv, Shapes
  <2>2. /\ IsLogin(x) /\ x.pc = "audit" /\ x.answer = "401" /\ x.good = login[a].good
        /\ x.email = login[a].email /\ x.given = login[a].given
    BY <1>1 DEF LoginInv, IsLogin, LoginStates, Answers
  <2> HIDE DEF x
  <2>3. login'[a] = x /\ session[a] = None
    BY <1>1, <1>3, <2>1 DEF AuthInv, Shapes, LoginInv, RememberUnknown
  <2>4. LoginInv(a)'
    BY <1>1, <2>2, <2>3 DEF LoginInv, InFlight, Matches, HasAccount
  <2>5. QED
    BY <1>1, <1>2, <2>1, <2>4, LoginStep
<1>4. CASE Respond(a)
  <2>1. PICK s \in Answers :
          /\ login' = [login EXCEPT ![a] = Over(login[a], s)]
          /\ s = "201" => login[a].answer = "201"
    BY <1>1, <1>4 DEF Respond, Answered, LoginInv, IsLogin, Answers
  <2>2. login'[a] = Over(login[a], s)
    BY <2>1 DEF AuthInv, Shapes
  <2>3. /\ login'[a].pc = "done" /\ login'[a].answer = s
        /\ login'[a].good = login[a].good /\ IsLogin(login'[a])
    BY <1>1, <2>2, OverFields DEF LoginInv
  <2>4. (session[a] # None) => session[a].email \in Emails
    BY <1>1 DEF SessionRow
  <2>5. LoginInv(a)'
    BY <1>1, <2>1, <2>3, <2>4 DEF LoginInv, InFlight, HasAccount
  <2>6. QED
    BY <1>1, <1>2, <2>1, <2>5, LoginStep
<1>5. QED
  BY <1>3, <1>4

(* The session is written by its login, which is a good one.               *)
LEMMA CreateSessionSafe ==
  ASSUME AuthInv, NEW a \in Attempts, CreateSession(a)
  PROVE  AuthInv'
<1> DEFINE n == [email |-> login[a].email, expires |-> login[a].began + Ttl,
                 revoked |-> FALSE]
<1>1. /\ UNCHANGED <<now, account, logout, check, command>>
      /\ login[a].pc = "session" /\ InFlight(a) /\ LoginInv(a)
      /\ login[a].good /\ login[a].email \in Emails /\ HasAccount(login[a].email)
      /\ account \in [Emails -> AccountRow \cup {None}]
      /\ session \in [Attempts -> SessionRow \cup {None}]
      /\ session[a] = None /\ IsLogin(login[a])
  BY DEF CreateSession, AuthInv, InFlight, Shapes, LoginInv
<1>2. AccountsKept /\ AccountsGrow
  BY <1>1, Unchanged
<1>3. n \in SessionRow /\ n.email = login[a].email /\ n # None
  <2>1. login[a].began + Ttl \in Nat
    BY <1>1, AuthAssumption DEF IsLogin
  <2>2. n \in SessionRow /\ n.email = login[a].email
    BY <1>1, <2>1 DEF SessionRow
  <2>3. QED
    BY <2>2, NoneAssumption
<1> HIDE DEF n
<1>4. PICK o \in DbOutcomes :
        /\ session' = IF o = "error" THEN session ELSE [session EXCEPT ![a] = n]
        /\ login' = IF o = "ok" THEN Refused(a, "201") ELSE Answered(a, "error")
  BY DEF CreateSession, n
<1>5. /\ session' \in [Attempts -> SessionRow \cup {None}]
      /\ \A b \in Attempts : (b # a) => session'[b] = session[b]
      /\ session'[a] = IF o = "error" THEN None ELSE n
  BY <1>1, <1>3, <1>4
<1>6. CASE o = "ok"
  <2> DEFINE x == [[login[a] EXCEPT !.pc = "audit"] EXCEPT !.answer = "201"]
  <2>1. login' = [login EXCEPT ![a] = x]
    BY <1>4, <1>6 DEF Refused, AuthInv, Shapes
  <2>2. /\ IsLogin(x) /\ x.pc = "audit" /\ x.answer = "201" /\ x.good = login[a].good
        /\ x.email = login[a].email
    BY <1>1 DEF IsLogin, LoginStates, Answers
  <2> HIDE DEF x
  <2>3. login'[a] = x
    BY <2>1 DEF AuthInv, Shapes
  <2>4. LoginInv(a)'
    BY <1>1, <1>3, <1>5, <1>6, <2>2, <2>3 DEF LoginInv, InFlight, HasAccount
  <2>5. QED
    BY <1>1, <1>2, <1>5, <2>1, <2>4, LoginStep
<1>7. CASE o # "ok"
  <2>1. login' = [login EXCEPT ![a] = Over(login[a], "error")]
    BY <1>4, <1>7 DEF Answered
  <2>2. login'[a] = Over(login[a], "error")
    BY <2>1 DEF AuthInv, Shapes
  <2>3. /\ login'[a].pc = "done" /\ login'[a].answer = "error"
        /\ login'[a].good = login[a].good /\ IsLogin(login'[a])
    <3>1. PICK s \in Answers : s = "error"
      BY DEF Answers
    <3>2. PICK r : r = login[a] /\ IsLogin(r)
      BY <1>1
    <3>3. /\ IsLogin(Over(r, s)) /\ Over(r, s).pc = "done"
          /\ Over(r, s).answer = s /\ Over(r, s).good = r.good
      BY <3>2, OverFields
    <3>4. QED
      BY <2>2, <3>1, <3>2, <3>3
  <2>4. LoginInv(a)'
    BY <1>1, <1>3, <1>5, <2>3 DEF LoginInv, InFlight, HasAccount
  <2>5. QED
    BY <1>1, <1>2, <1>5, <2>1, <2>4, LoginStep
<1>8. QED
  BY <1>6, <1>7

-----------------------------------------------------------------------------
(* The logout and the gate.                                                *)

(* A step that leaves accounts and logins alone, and sessions at most      *)
(* revoked.                                                                *)
LEMMA GateStep ==
  ASSUME AuthInv, UNCHANGED <<now, account, login, command>>,
         session' \in [Attempts -> SessionRow \cup {None}],
         \A t \in Attempts :
           /\ (session'[t] # None) <=> (session[t] # None)
           /\ (session[t] # None) => session'[t].email = session[t].email,
         Shapes',
         \A l \in Logouts : LogoutInv(l)',
         \A c \in Checks : CheckInv(c)'
  PROVE  AuthInv'
<1>1. ASSUME NEW a \in Attempts PROVE LoginInv(a)'
  BY DEF AuthInv, LoginInv, InFlight, Matches, HasAccount, Succeeded
<1>2. \A o \in Commands : CommandInv(o)'
  BY Unchanged, CommandKept
<1>3. QED
  BY <1>1, <1>2 DEF AuthInv

LEMMA LogoutSafe ==
  ASSUME AuthInv, NEW l \in Logouts, Logout(l) \/ FindRevocable(l)
  PROVE  AuthInv'
<1>1. UNCHANGED <<now, account, login, command, session, check>>
  BY DEF Logout, FindRevocable
<1>2. SessionsKept /\ AccountsGrow
  BY <1>1, Unchanged
<1>3. PICK x : logout' = [logout EXCEPT ![l] = x]
  BY DEF Logout, FindRevocable, LogoutEnds
<1>4. /\ logout[l] \in [pc : {"idle", "find", "revoke", "204", "error", "lost"},
                        token : Attempts \cup {None}]
      /\ logout'[l] = x /\ \A k \in Logouts : (k # l) => logout'[k] = logout[k]
      /\ LogoutInv(l)
  BY <1>3 DEF AuthInv, Shapes
<1>5. /\ x \in [pc : {"idle", "find", "revoke", "204", "error", "lost"},
                token : Attempts \cup {None}]
      /\ x.token \in Attempts /\ HandedOut(x.token)
      /\ x.pc = "204" => session[x.token].revoked
  <2>1. CASE Logout(l)
    <3>1. PICK t \in Attempts :
            HandedOut(t) /\ logout' = [logout EXCEPT ![l] = [pc |-> "find", token |-> t]]
      BY <2>1 DEF Logout
    <3>2. x = [pc |-> "find", token |-> t]
      BY <1>4, <3>1 DEF AuthInv, Shapes
    <3>3. QED
      BY <3>1, <3>2
  <2>2. CASE FindRevocable(l)
    <3>1. PICK s \in {"error", "204", "revoke"} :
            /\ logout' = [logout EXCEPT ![l].pc = s]
            /\ s = "204" => session[logout[l].token].revoked
      BY <2>2 DEF FindRevocable, LogoutEnds
    <3>2. x = [logout[l] EXCEPT !.pc = s]
      BY <1>4, <3>1 DEF AuthInv, Shapes
    <3>3. x.pc = s /\ x.token = logout[l].token
      BY <1>4, <3>2
    <3>4. logout[l].token \in Attempts /\ HandedOut(logout[l].token)
      BY <1>4, <2>2 DEF FindRevocable, LogoutInv
    <3>5. QED
      BY <1>4, <3>1, <3>2, <3>3, <3>4
  <2>3. QED
    BY <2>1, <2>2
<1>6. LogoutInv(l)'
  BY <1>1, <1>4, <1>5 DEF LogoutInv, HandedOut
<1>7. Shapes'
  BY <1>1, <1>3, <1>5 DEF AuthInv, Shapes
<1>8. session' \in [Attempts -> SessionRow \cup {None}]
  BY <1>1 DEF AuthInv, Shapes
<1>9. QED
  BY <1>1, <1>2, <1>4, <1>6, <1>7, <1>8, LogoutKept, CheckKept, GateStep

LEMMA RevokeSessionSafe ==
  ASSUME AuthInv, NEW l \in Logouts, RevokeSession(l)
  PROVE  AuthInv'
<1> DEFINE t == logout[l].token
           n == [session[t] EXCEPT !.revoked = TRUE]
<1>1. /\ UNCHANGED <<now, account, login, command, check>>
      /\ logout[l].pc = "revoke" /\ LogoutInv(l) /\ t \in Attempts /\ HandedOut(t)
      /\ logout[l] \in [pc : {"idle", "find", "revoke", "204", "error", "lost"},
                        token : Attempts \cup {None}]
      /\ session \in [Attempts -> SessionRow \cup {None}]
  BY DEF RevokeSession, AuthInv, Shapes, LogoutInv
<1>2. session[t] \in SessionRow
  BY <1>1 DEF AuthInv, Shapes, LoginInv, HandedOut
<1>3. /\ n \in SessionRow /\ n.email = session[t].email /\ n.expires = session[t].expires
      /\ n.revoked /\ n # None /\ session[t] # None
  BY <1>2, NoneAssumption DEF SessionRow
<1>4. PICK o \in DbOutcomes, s \in {"204", "error"} :
        /\ session' = IF o = "error" THEN session ELSE [session EXCEPT ![t].revoked = TRUE]
        /\ logout' = [logout EXCEPT ![l].pc = s]
        /\ s = "204" => o = "ok"
  BY DEF RevokeSession, LogoutEnds
<1>5. session' = session \/ session' = [session EXCEPT ![t] = n]
  BY <1>1, <1>4
<1> HIDE DEF n
<1>6. /\ session' \in [Attempts -> SessionRow \cup {None}]
      /\ \A u \in Attempts :
           /\ (session'[u] # None) <=> (session[u] # None)
           /\ (session[u] # None) =>
                /\ session'[u].email = session[u].email
                /\ session'[u].expires = session[u].expires
                /\ session[u].revoked => session'[u].revoked
  BY <1>1, <1>3, <1>5
<1>7. SessionsKept /\ AccountsGrow
  <2>1. \A u \in Attempts : HandedOut(u) => session[u] # None
    BY DEF AuthInv, LoginInv, HandedOut
  <2>2. QED
    BY <1>1, <1>6, <2>1, Unchanged DEF SessionsKept, HandedOut
<1> DEFINE x == [logout[l] EXCEPT !.pc = s]
<1>8. /\ x \in [pc : {"idle", "find", "revoke", "204", "error", "lost"},
                token : Attempts \cup {None}]
      /\ x.pc = s /\ x.token = t
  BY <1>1
<1>9. /\ logout' = [logout EXCEPT ![l] = x]
      /\ logout'[l] = x /\ \A k \in Logouts : (k # l) => logout'[k] = logout[k]
  BY <1>1, <1>4 DEF AuthInv, Shapes
<1> HIDE DEF x
<1>10. (s = "204") => session'[t].revoked
  <2>1. SUFFICES ASSUME o = "ok" PROVE session'[t].revoked
    BY <1>4
  <2>2. session'[t] = [session[t] EXCEPT !.revoked = TRUE]
    BY <1>1, <1>4, <2>1
  <2>3. QED
    BY <1>2, <2>2 DEF SessionRow
<1>11. LogoutInv(l)'
  BY <1>1, <1>8, <1>9, <1>10 DEF LogoutInv, HandedOut
<1>12. Shapes'
  BY <1>1, <1>6, <1>8, <1>9 DEF AuthInv, Shapes
<1>13. QED
  BY <1>1, <1>6, <1>7, <1>9, <1>11, <1>12, LogoutKept, CheckKept, GateStep

CheckRow ==
  [pc : {"idle", "find", "passed", "401", "503", "lost"},
   token : Attempts \cup {None}, at : Nat, doomed : BOOLEAN]

(* The gate looks at the session after the time was taken, so it can only  *)
(* have become less usable.                                                *)
LEMMA CheckSafe ==
  ASSUME AuthInv, NEW c \in Checks, Request(c) \/ CheckSession(c)
  PROVE  AuthInv'
<1>1. UNCHANGED <<now, account, login, command, session, logout>>
  BY DEF Request, CheckSession
<1>2. /\ SessionsKept /\ AccountsGrow /\ now \in Nat
      /\ session' \in [Attempts -> SessionRow \cup {None}]
  BY <1>1, Unchanged, AuthAssumption DEF AuthInv, Shapes
<1>3. check[c] \in CheckRow /\ CheckInv(c) /\ check \in [Checks -> CheckRow]
  BY DEF AuthInv, Shapes, CheckRow
<1>4. PICK x \in CheckRow :
        /\ check' = [check EXCEPT ![c] = x]
        /\ x.token \in Attempts /\ HandedOut(x.token)
        /\ (x.pc = "find" /\ x.doomed) => ~Usable(x.token, x.at)
        /\ (x.pc = "passed") => ~x.doomed
  <2>1. CASE Request(c)
    <3>1. PICK t \in Attempts :
            /\ HandedOut(t)
            /\ check' = [check EXCEPT ![c] =
                 [pc |-> "find", token |-> t, at |-> now, doomed |-> ~Usable(t, now)]]
      BY <2>1 DEF Request
    <3> DEFINE x == [pc |-> "find", token |-> t, at |-> now, doomed |-> ~Usable(t, now)]
    <3>2. x \in CheckRow
      BY <1>2 DEF CheckRow
    <3>3. QED
      BY <3>1, <3>2
  <2>2. CASE CheckSession(c)
    <3>1. PICK s \in {"503", "passed", "401"} :
            /\ check' = [check EXCEPT ![c].pc = s]
            /\ s = "passed" => Usable(check[c].token, check[c].at)
      BY <2>2 DEF CheckSession
    <3> DEFINE x == [check[c] EXCEPT !.pc = s]
    <3>2. /\ x \in CheckRow /\ x.pc = s /\ x.token = check[c].token
          /\ x.doomed = check[c].doomed
      BY <1>3 DEF CheckRow
    <3>3. check' = [check EXCEPT ![c] = x]
      BY <1>3, <3>1
    <3>4. check[c].pc = "find"
      BY <2>2 DEF CheckSession
    <3> HIDE DEF x
    <3>5. QED
      BY <1>3, <3>1, <3>2, <3>3, <3>4 DEF CheckInv
  <2>3. QED
    BY <2>1, <2>2
<1>5. /\ check'[c] = x /\ check' \in [Checks -> CheckRow]
      /\ \A d \in Checks : (d # c) => check'[d] = check[d]
  BY <1>3, <1>4
<1>6. CheckInv(c)'
  BY <1>1, <1>4, <1>5 DEF CheckInv, HandedOut, Usable
<1>7. Shapes'
  BY <1>1, <1>5 DEF AuthInv, Shapes, CheckRow
<1>8. QED
  BY <1>1, <1>2, <1>5, <1>6, <1>7, LogoutKept, CheckKept, GateStep

-----------------------------------------------------------------------------
(* The operator's command.                                                 *)

CommandRow ==
  [pc : {"idle", "write", "done", "failed"},
   mode : {"create", "reset", "deactivate"},
   email : Emails \cup {None}, password : Passwords]

LEMMA CommandSafe ==
  ASSUME AuthInv, NEW o \in Commands, FindExisting(o)
  PROVE  AuthInv'
<1>1. UNCHANGED <<now, account, bucket, session, login, logout, check>>
  BY DEF FindExisting
<1>2. AccountsKept /\ AccountsGrow /\ SessionsKept
  BY <1>1, Unchanged
<1>3. command \in [Commands -> CommandRow]
  BY DEF AuthInv, Shapes, CommandRow
<1>4. PICK x \in CommandRow :
        /\ command' = [command EXCEPT ![o] = x]
        /\ (x.pc = "write") => x.email \in Emails
        /\ (x.pc = "write" /\ x.mode # "create") => HasAccount(x.email)
  <2>1. PICK m \in Modes, e \in Emails, p \in Passwords \ {First} :
          command' = [command EXCEPT ![o] =
            IF HasAccount(e) <=> (m # "create")
            THEN [pc |-> "write", mode |-> m, email |-> e, password |-> p]
            ELSE [NoCommand EXCEPT !.pc = "failed"]]
    BY DEF FindExisting
  <2>2. [pc |-> "write", mode |-> m, email |-> e, password |-> p] \in CommandRow
    BY AuthAssumption DEF CommandRow
  <2>3. /\ [NoCommand EXCEPT !.pc = "failed"] \in CommandRow
        /\ [NoCommand EXCEPT !.pc = "failed"].pc = "failed"
    BY AuthAssumption DEF NoCommand, CommandRow
  <2>4. CASE HasAccount(e) <=> (m # "create")
    BY <2>1, <2>2, <2>4
  <2>5. CASE ~(HasAccount(e) <=> (m # "create"))
    BY <2>1, <2>3, <2>5
  <2>6. QED
    BY <2>4, <2>5
<1>5. /\ command'[o] = x /\ command' \in [Commands -> CommandRow]
      /\ \A p \in Commands : (p # o) => command'[p] = command[p]
  BY <1>3, <1>4
<1>6. CommandInv(o)'
  BY <1>1, <1>4, <1>5 DEF CommandInv, HasAccount
<1>7. Shapes'
  BY <1>1, <1>5 DEF AuthInv, Shapes, CommandRow
<1>8. QED
  BY <1>1, <1>2, <1>5, <1>6, <1>7, LoginKept, LogoutKept, CheckKept, CommandKept
  DEF AuthInv

(* A write of the operator makes the logins in flight good that it lets in,*)
(* and it activates nobody who had an account.                             *)
LEMMA ProvisionSafe ==
  ASSUME AuthInv, NEW o \in Commands, Provision(o)
  PROVE  AuthInv'
<1> DEFINE m == command[o].mode
           e == command[o].email
           y == RowAfter(account[e], m, command[o].password)
<1>1. /\ UNCHANGED <<now, session, logout, check>>
      /\ command[o] \in CommandRow /\ e \in Emails
      /\ command \in [Commands -> CommandRow]
      /\ (m # "create") => HasAccount(e)
      /\ account \in [Emails -> AccountRow \cup {None}]
  BY DEF Provision, AuthInv, Shapes, CommandInv, CommandRow
<1>2. PICK s \in {"failed", "done"} :
        command' = [command EXCEPT ![o] = [NoCommand EXCEPT !.pc = s]]
  BY DEF Provision
<1>3. [NoCommand EXCEPT !.pc = s] \in CommandRow /\ [NoCommand EXCEPT !.pc = s].pc = s
  BY AuthAssumption DEF NoCommand, CommandRow
<1>4. /\ command' \in [Commands -> CommandRow] /\ command'[o].pc = s
      /\ \A p \in Commands : (p # o) => command'[p] = command[p]
  BY <1>1, <1>2, <1>3
<1>5. CommandInv(o)'
  BY <1>4 DEF CommandInv
<1>6. CASE m = "create" /\ HasAccount(e)
  <2>1. UNCHANGED <<account, login>>
    BY <1>6 DEF Provision
  <2>2. AccountsKept /\ AccountsGrow /\ SessionsKept
    BY <1>1, <2>1, Unchanged
  <2>3. Shapes'
    BY <1>1, <1>4, <2>1 DEF AuthInv, Shapes, CommandRow
  <2>4. QED
    BY <1>1, <1>4, <1>5, <2>1, <2>2, <2>3, LoginKept, LogoutKept, CheckKept, CommandKept
    DEF AuthInv
<1>7. CASE ~(m = "create" /\ HasAccount(e))
  <2>1. /\ account' = [account EXCEPT ![e] = y]
        /\ login' = [a \in Attempts |->
             [login[a] EXCEPT !.good =
                @ \/ (/\ InFlight(a)
                      /\ login[a].email = e
                      /\ account'[e].active
                      /\ account'[e].password = login[a].given)]]
    BY <1>1, <1>7 DEF Provision
  <2>2. y \in AccountRow /\ (HasAccount(e) => (y.active => account[e].active))
    <3>1. CASE m = "create"
      <4>1. Fresh \in LoginState
        BY AuthAssumption DEF Fresh, LoginState
      <4>2. y = NewAccount(command[o].password)
        BY <3>1 DEF RowAfter
      <4>3. command[o].password \in Passwords
        BY <1>1 DEF CommandRow
      <4>4. y \in AccountRow
        BY <4>1, <4>2, <4>3 DEF NewAccount, AccountRow
      <4>5. QED
        BY <1>7, <3>1, <4>4
    <3>2. CASE m = "deactivate"
      <4>1. y = [account[e] EXCEPT !.active = FALSE]
        BY <3>2 DEF RowAfter
      <4>2. account[e] \in AccountRow
        BY <1>1, <3>2 DEF HasAccount
      <4>3. QED
        BY <4>1, <4>2 DEF AccountRow
    <3>3. CASE m = "reset"
      <4>1. y = [account[e] EXCEPT !.password = command[o].password, !.throttle = Fresh]
        BY <3>3 DEF RowAfter
      <4>2. account[e] \in AccountRow /\ Fresh \in LoginState
        BY <1>1, <3>3, AuthAssumption DEF HasAccount, Fresh, LoginState
      <4>3. QED
        BY <1>1, <4>1, <4>2 DEF AccountRow, CommandRow
    <3>4. QED
      BY <1>1, <3>1, <3>2, <3>3 DEF CommandRow
  <2> HIDE DEF y
  <2>3. /\ account' \in [Emails -> AccountRow \cup {None}] /\ account'[e] = y /\ y # None
        /\ \A f \in Emails : (f # e) => account'[f] = account[f]
    BY <1>1, <2>1, <2>2, NoneAssumption
  <2>4. AccountsGrow
    BY <2>2, <2>3 DEF AccountsGrow, HasAccount
  <2>5. ASSUME NEW a \in Attempts
        PROVE  /\ IsLogin(login'[a])
               /\ login'[a].pc = login[a].pc /\ login'[a].email = login[a].email
               /\ login'[a].given = login[a].given /\ login'[a].known = login[a].known
               /\ login'[a].seen = login[a].seen /\ login'[a].answer = login[a].answer
               /\ login'[a].good = (\/ login[a].good
                                    \/ /\ InFlight(a)
                                       /\ login[a].email = e
                                       /\ y.active
                                       /\ y.password = login[a].given)
    <3>1. PICK g \in BOOLEAN :
            g = (\/ login[a].good
                 \/ /\ InFlight(a)
                    /\ login[a].email = e
                    /\ y.active
                    /\ y.password = login[a].given)
      OBVIOUS
    <3>2. login'[a] = [login[a] EXCEPT !.good = g]
      BY <2>1, <2>3, <3>1
    <3>3. IsLogin(login[a])
      BY DEF AuthInv, LoginInv
    <3>4. QED
      BY <3>1, <3>2, <3>3 DEF IsLogin
  <2>6. ASSUME NEW a \in Attempts PROVE LoginInv(a)'
    <3>1. LoginInv(a) /\ ((session[a] # None) => session[a].email \in Emails)
      BY DEF AuthInv, Shapes, SessionRow
    <3>2. login[a].good => login'[a].good
      BY <2>5
    <3>3. (InFlight(a) /\ Matches(login[a].email, login[a].given)') => login'[a].good
      <4>1. CASE login[a].email = e
        BY <2>3, <2>5, <4>1 DEF Matches
      <4>2. CASE login[a].email # e
        BY <2>3, <2>5, <3>1, <3>2, <4>2 DEF LoginInv, InFlight, Matches, HasAccount
      <4>3. QED
        BY <4>1, <4>2
    <3>4. QED
      BY <1>1, <2>4, <2>5, <3>1, <3>2, <3>3
      DEF LoginInv, InFlight, Matches, HasAccount, Succeeded, AccountsGrow
  <2>7. SessionsKept
    BY <1>1, <2>5 DEF AuthInv, LoginInv, SessionsKept, HandedOut
  <2>8. Shapes'
    <3>1. login' = [a \in Attempts |-> login'[a]]
      BY <2>1
    <3>2. QED
      BY <1>1, <1>4, <2>3, <3>1 DEF AuthInv, Shapes, CommandRow
  <2>9. QED
    BY <1>1, <1>4, <1>5, <2>4, <2>6, <2>7, <2>8, LogoutKept, CheckKept, CommandKept
    DEF AuthInv
<1>8. QED
  BY <1>6, <1>7

-----------------------------------------------------------------------------
(* The clock and the restart.                                              *)

LEMMA TickSafe ==
  ASSUME AuthInv, Tick
  PROVE  AuthInv'
<1>1. /\ UNCHANGED <<account, session, login, logout, check, command>>
      /\ now' \in 0 .. MaxTime
  BY AuthAssumption DEF Tick, requestVars, AuthInv, Shapes
<1>2. AccountsKept /\ AccountsGrow /\ SessionsKept
  BY <1>1, Unchanged
<1>3. Shapes'
  BY <1>1 DEF AuthInv, Shapes
<1>4. QED
  BY <1>1, <1>2, <1>3, LoginKept, LogoutKept, CheckKept, CommandKept DEF AuthInv

(* A login in flight is lost; its session, if there is one, is not.        *)
LEMMA RestartSafe ==
  ASSUME AuthInv, Restart
  PROVE  AuthInv'
<1>1. /\ UNCHANGED <<now, account, session, command>>
      /\ login' = [a \in Attempts |->
           IF InFlight(a) THEN Over(login[a], "lost") ELSE login[a]]
      /\ logout' = [l \in Logouts |->
           [logout[l] EXCEPT !.pc = IF @ \in {"find", "revoke"} THEN "lost" ELSE @]]
      /\ check' = [c \in Checks |->
           [check[c] EXCEPT !.pc = IF @ = "find" THEN "lost" ELSE @]]
  BY DEF Restart
<1>2. AccountsKept /\ AccountsGrow
  BY <1>1, Unchanged
<1>3. ASSUME NEW a \in Attempts
      PROVE  LoginInv(a)' /\ (HandedOut(a) => HandedOut(a)')
  <2>1. CASE InFlight(a)
    <3>1. PICK r, s : r = login[a] /\ s = "lost" /\ IsLogin(r) /\ s \in Answers
      BY DEF AuthInv, LoginInv, Answers
    <3>2. /\ IsLogin(Over(r, s)) /\ Over(r, s).pc = "done"
          /\ Over(r, s).answer = s /\ Over(r, s).good = r.good
      BY <3>1, OverFields
    <3>3. login'[a] = Over(r, s)
      BY <1>1, <2>1, <3>1
    <3>4. LoginInv(a) /\ ((session[a] # None) => session[a].email \in Emails)
      BY DEF AuthInv, Shapes, SessionRow
    <3>5. QED
      BY <1>1, <2>1, <3>1, <3>2, <3>3, <3>4 DEF LoginInv, InFlight, HasAccount, HandedOut
  <2>2. CASE ~InFlight(a)
    <3>1. login'[a] = login[a]
      BY <1>1, <2>2
    <3>2. QED
      BY <1>1, <1>2, <3>1, LoginKept DEF HandedOut
  <2>3. QED
    BY <2>1, <2>2
<1>4. SessionsKept
  BY <1>1, <1>3 DEF AuthInv, LoginInv, SessionsKept, HandedOut
<1>5. ASSUME NEW l \in Logouts
      PROVE  /\ logout'[l] \in [pc : {"idle", "find", "revoke", "204", "error", "lost"},
                                token : Attempts \cup {None}]
             /\ LogoutInv(l)'
  <2>1. /\ logout[l] \in [pc : {"idle", "find", "revoke", "204", "error", "lost"},
                          token : Attempts \cup {None}]
        /\ LogoutInv(l)
    BY DEF AuthInv, Shapes
  <2>2. PICK s \in {"idle", "204", "error", "lost"} :
          /\ logout'[l] = [logout[l] EXCEPT !.pc = s]
          /\ s \in {"idle", "204"} => s = logout[l].pc
    BY <1>1, <2>1
  <2>3. /\ logout'[l].pc = s /\ logout'[l].token = logout[l].token
        /\ logout'[l] \in [pc : {"idle", "find", "revoke", "204", "error", "lost"},
                           token : Attempts \cup {None}]
    BY <2>1, <2>2
  <2>4. (s # "idle") => logout[l].pc # "idle"
    BY <1>1, <2>1, <2>2
  <2>5. QED
    BY <1>3, <1>4, <2>1, <2>2, <2>3, <2>4 DEF LogoutInv, SessionsKept
<1>6. ASSUME NEW c \in Checks PROVE check'[c] \in CheckRow /\ CheckInv(c)'
  <2>1. check[c] \in CheckRow /\ CheckInv(c)
    BY DEF AuthInv, Shapes, CheckRow
  <2>2. PICK s \in {"idle", "passed", "401", "503", "lost"} :
          /\ check'[c] = [check[c] EXCEPT !.pc = s]
          /\ s = (IF check[c].pc = "find" THEN "lost" ELSE check[c].pc)
    BY <1>1, <2>1 DEF CheckRow
  <2>3. /\ check'[c].pc = s /\ check'[c].token = check[c].token
        /\ check'[c].doomed = check[c].doomed /\ check'[c] \in CheckRow
    BY <2>1, <2>2 DEF CheckRow
  <2>4. QED
    BY <1>3, <2>1, <2>2, <2>3 DEF CheckInv
<1>7. Shapes'
  BY <1>1, <1>5, <1>6 DEF AuthInv, Shapes, CheckRow
<1>8. QED
  BY <1>1, <1>2, <1>3, <1>5, <1>6, <1>7, CommandKept DEF AuthInv

-----------------------------------------------------------------------------
(* Sessions: the invariant of every step, and the theorems.                *)

LEMMA AuthInit == Init => AuthInv
<1> SUFFICES ASSUME Init PROVE AuthInv
  OBVIOUS
<1>1. /\ 0 \in 0 .. MaxTime /\ First \in Passwords
      /\ Fresh \in LoginState
  BY AuthAssumption DEF Fresh, LoginState
<1>2. \A a \in Attempts : login[a] = NoLogin /\ session[a] = None
  BY DEF Init
<1>3. IsLogin(NoLogin)
  BY <1>1 DEF NoLogin, IsLogin, LoginStates, Answers
<1>4. \A a \in Attempts : LoginInv(a)
  BY <1>2, <1>3 DEF LoginInv, InFlight, NoLogin
<1>5. account \in [Emails -> AccountRow \cup {None}]
  BY <1>1 DEF Init, NewAccount, AccountRow
<1>6. command \in [Commands -> CommandRow] /\ \A o \in Commands : CommandInv(o)
  BY <1>1 DEF Init, NoCommand, CommandRow, CommandInv
<1>7. Shapes
  BY <1>1, <1>5, <1>6 DEF Init, Shapes, CommandRow
<1>8. /\ \A l \in Logouts : LogoutInv(l)
      /\ \A c \in Checks : CheckInv(c)
  BY DEF Init, LogoutInv, CheckInv
<1>9. QED
  BY <1>4, <1>6, <1>7, <1>8 DEF AuthInv

LEMMA AuthStep == AuthInv /\ [Next]_vars => AuthInv'
<1> SUFFICES ASSUME AuthInv, [Next]_vars PROVE AuthInv'
  OBVIOUS
<1>1. ASSUME NEW a \in Attempts, Submit(a) \/ HandleLogin(a) PROVE AuthInv'
  BY <1>1, SubmitSafe, FindByEmailSafe, UpdateLoginStateSafe, RefusalSafe,
     CreateSessionSafe DEF HandleLogin
<1>2. ASSUME NEW l \in Logouts, Logout(l) \/ FindRevocable(l) \/ RevokeSession(l)
      PROVE  AuthInv'
  BY <1>2, LogoutSafe, RevokeSessionSafe
<1>3. ASSUME NEW c \in Checks, Request(c) \/ CheckSession(c) PROVE AuthInv'
  BY <1>3, CheckSafe
<1>4. ASSUME NEW o \in Commands, FindExisting(o) \/ Provision(o)
      PROVE  AuthInv'
  BY <1>4, CommandSafe, ProvisionSafe
<1>5. CASE Tick
  BY <1>5, TickSafe
<1>6. CASE Restart
  BY <1>6, RestartSafe
<1>7. CASE UNCHANGED vars
  <2>1. UNCHANGED <<now, account, session, login, logout, check, command>>
    BY <1>7 DEF vars, requestVars
  <2>2. AccountsKept /\ AccountsGrow /\ SessionsKept
    BY <2>1, Unchanged
  <2>3. Shapes'
    BY <2>1 DEF AuthInv, Shapes
  <2>4. QED
    BY <2>1, <2>2, <2>3, LoginKept, LogoutKept, CheckKept, CommandKept DEF AuthInv
<1>8. QED
  BY <1>1, <1>2, <1>3, <1>4, <1>5, <1>6, <1>7 DEF Next

LEMMA AuthAlways == Spec => []AuthInv
  BY AuthInit, AuthStep, PTL DEF Spec

(* Whoever has a session gave, at some moment of the login, the password   *)
(* of an active account, however logins and the operator overlap.          *)
THEOREM Earned == Spec => []LoginIsEarned
<1>1. AuthInv => LoginIsEarned
  BY DEF AuthInv, LoginInv, LoginIsEarned
<1>2. QED
  BY <1>1, AuthAlways, PTL

(* A protected request does not pass whose session was unusable when it    *)
(* began.                                                                  *)
THEOREM Denied == Spec => []DeniedStaysDenied
<1>1. AuthInv => DeniedStaysDenied
  BY DEF AuthInv, CheckInv, DeniedStaysDenied
<1>2. QED
  BY <1>1, AuthAlways, PTL

(* A logout that was acknowledged has revoked its session for good.        *)
THEOREM LoggedOut == Spec => []LogoutIsFinal
<1>1. AuthInv => LogoutIsFinal
  BY DEF AuthInv, LogoutInv, LogoutIsFinal
<1>2. QED
  BY <1>1, AuthAlways, PTL

-----------------------------------------------------------------------------
(* The map of the unknown addresses, as the set of its entries.            *)

Entry == [email : Emails, state : LoginState]

IsMap(b) ==
  /\ b \in Seq(Entry)
  /\ \A i, j \in 1 .. Len(b) : (b[i].email = b[j].email) => i = j

Entries(b) == {b[i] : i \in 1 .. Len(b)}

(* Deleting a key.                                                         *)
LEMMA RemoveEntry ==
  ASSUME NEW b, IsMap(b), NEW k \in 1 .. Len(b)
  PROVE  /\ IsMap(RemoveAt(b, k)) /\ Len(RemoveAt(b, k)) = Len(b) - 1
         /\ Entries(RemoveAt(b, k)) = {y \in Entries(b) : y.email # b[k].email}
<1> DEFINE s == SubSeq(b, 1, k - 1)
           t == SubSeq(b, k + 1, Len(b))
           r == RemoveAt(b, k)
<1>1. b \in Seq(Entry) /\ Len(b) \in Nat /\ \A i \in 1 .. Len(b) : b[i] \in Entry
  BY DEF IsMap
<1>2. /\ s \in Seq(Entry) /\ Len(s) = k - 1
      /\ \A i \in 1 .. k - 1 : s[i] = b[i]
  <2>1. \A i \in 1 .. k - 1 : b[i] \in Entry
    BY <1>1
  <2>2. QED
    BY <1>1, <2>1, SubSeqProperties DEF s
<1>3. /\ t \in Seq(Entry) /\ Len(t) = Len(b) - k
      /\ \A i \in 1 .. Len(b) - k : t[i] = b[k + i]
  BY <1>1, SubSeqProperties
<1> HIDE DEF s, t
<1>4. r = s \o t
  BY DEF r, s, t, RemoveAt
<1> HIDE DEF r
<1>5. /\ r \in Seq(Entry) /\ Len(r) = Len(b) - 1
      /\ \A i \in 1 .. Len(b) - 1 : r[i] = IF i < k THEN b[i] ELSE b[i + 1]
  <2>1. /\ r \in Seq(Entry) /\ Len(r) = Len(s) + Len(t)
        /\ \A i \in 1 .. Len(s) + Len(t) :
             r[i] = IF i <= Len(s) THEN s[i] ELSE t[i - Len(s)]
    BY <1>2, <1>3, <1>4, ConcatProperties
  <2>2. Len(s) + Len(t) = Len(b) - 1
    BY <1>1, <1>2, <1>3
  <2>3. ASSUME NEW i \in 1 .. Len(b) - 1
        PROVE  r[i] = IF i < k THEN b[i] ELSE b[i + 1]
    <3>1. CASE i < k
      BY <1>1, <1>2, <2>1, <2>2, <3>1
    <3>2. CASE ~(i < k)
      <4>1. PICK j \in 1 .. Len(b) - k : j = i - (k - 1) /\ k + j = i + 1
        BY <1>1, <3>2
      <4>2. ~(i <= Len(s)) /\ i - Len(s) = j
        BY <1>2, <3>2, <4>1
      <4>3. r[i] = t[j]
        BY <2>1, <2>2, <4>2
      <4>4. t[j] = b[k + j]
        BY <1>3
      <4>5. QED
        BY <3>2, <4>1, <4>3, <4>4
    <3>3. QED
      BY <3>1, <3>2
  <2>4. QED
    BY <2>1, <2>2, <2>3
<1>6. IsMap(r)
  BY <1>1, <1>5 DEF IsMap
<1>7. Entries(r) = {y \in Entries(b) : y.email # b[k].email}
  <2>1. ASSUME NEW y \in Entries(r)
        PROVE  y \in Entries(b) /\ y.email # b[k].email
    BY <1>1, <1>5 DEF IsMap, Entries
  <2>2. ASSUME NEW y \in Entries(b), y.email # b[k].email
        PROVE  y \in Entries(r)
    <3>1. PICK i \in 1 .. Len(b) : y = b[i] /\ i # k
      BY <2>2 DEF Entries
    <3>2. CASE i < k
      BY <1>1, <1>5, <3>1, <3>2 DEF Entries
    <3>3. CASE i > k
      <4>1. i - 1 \in 1 .. Len(r) /\ r[i - 1] = b[i]
        BY <1>1, <1>5, <3>1, <3>3
      <4>2. QED
        BY <3>1, <4>1 DEF Entries
    <3>4. QED
      BY <1>1, <3>1, <3>2, <3>3
  <2>3. QED
    BY <2>1, <2>2
<1>8. QED
  BY <1>5, <1>6, <1>7 DEF r

(* Setting a new key.                                                      *)
LEMMA AppendEntry ==
  ASSUME NEW b, IsMap(b), NEW x \in Entry, \A y \in Entries(b) : y.email # x.email
  PROVE  /\ IsMap(Append(b, x)) /\ Len(Append(b, x)) = Len(b) + 1
         /\ Entries(Append(b, x)) = Entries(b) \cup {x}
<1> DEFINE r == Append(b, x)
<1>1. /\ r \in Seq(Entry) /\ Len(r) = Len(b) + 1 /\ Len(b) \in Nat
      /\ \A i \in 1 .. Len(b) : r[i] = b[i]
      /\ r[Len(b) + 1] = x
  BY AppendProperties DEF IsMap
<1> HIDE DEF r
<1>2. IsMap(r)
  BY <1>1 DEF IsMap, Entries
<1>3. Entries(r) = Entries(b) \cup {x}
  <2>1. \A y \in Entries(r) : y \in Entries(b) \cup {x}
    BY <1>1 DEF Entries
  <2>2. \A y \in Entries(b) : y \in Entries(r)
    BY <1>1 DEF Entries
  <2>3. x \in Entries(r)
    BY <1>1 DEF Entries
  <2>4. QED
    BY <2>1, <2>2, <2>3
<1>4. QED
  BY <1>1, <1>2, <1>3 DEF r

(* Deleting the oldest key.                                                *)
LEMMA DropOldest ==
  ASSUME NEW b, IsMap(b), Len(b) > 0
  PROVE  /\ IsMap(Tail(b)) /\ Len(Tail(b)) = Len(b) - 1
         /\ Entries(Tail(b)) = {y \in Entries(b) : y.email # b[1].email}
<1> DEFINE r == Tail(b)
<1>1. /\ r \in Seq(Entry) /\ Len(r) = Len(b) - 1 /\ Len(b) \in Nat
      /\ \A i \in 1 .. Len(b) - 1 : r[i] = b[i + 1]
  BY HeadTailProperties DEF IsMap
<1> HIDE DEF r
<1>2. IsMap(r)
  BY <1>1 DEF IsMap
<1>3. ASSUME NEW y \in Entries(r)
      PROVE  y \in Entries(b) /\ y.email # b[1].email
  <2>1. PICK i \in 1 .. Len(b) - 1 : y = b[i + 1]
    BY <1>1, <1>3 DEF Entries
  <2>2. i + 1 \in 1 .. Len(b) /\ 1 \in 1 .. Len(b) /\ i + 1 # 1
    BY <1>1
  <2>3. QED
    BY <2>1, <2>2 DEF IsMap, Entries
<1>4. ASSUME NEW y \in Entries(b), y.email # b[1].email
      PROVE  y \in Entries(r)
  <2>1. PICK i \in 1 .. Len(b) : y = b[i] /\ i # 1
    BY <1>4 DEF Entries
  <2>2. i - 1 \in 1 .. Len(r) /\ r[i - 1] = b[i]
    BY <1>1, <2>1
  <2>3. QED
    BY <2>1, <2>2 DEF Entries
<1>5. QED
  BY <1>1, <1>2, <1>3, <1>4 DEF r

(* Reading a key, of the map before or after a step.                       *)
Held(b, e) == \E i \in DOMAIN b : b[i].email = e
StateIn(b, e) ==
  IF Held(b, e) THEN b[CHOOSE i \in DOMAIN b : b[i].email = e].state ELSE Fresh

LEMMA BucketIs ==
  ASSUME NEW e
  PROVE  /\ Remembered(e) = Held(bucket, e) /\ BucketState(e) = StateIn(bucket, e)
         /\ Remembered(e)' = Held(bucket', e) /\ BucketState(e)' = StateIn(bucket', e)
  BY DEF Remembered, Held, BucketState, StateIn, Position

LEMMA Lookup ==
  ASSUME NEW b, IsMap(b)
  PROVE  /\ \A e : Held(b, e) <=> \E y \in Entries(b) : y.email = e
         /\ \A y \in Entries(b) : StateIn(b, y.email) = y.state
         /\ \A y \in Entries(b) : y \in Entry /\ y = [email |-> y.email, state |-> y.state]
         /\ \A e : Held(b, e) =>
              /\ [email |-> e, state |-> StateIn(b, e)] \in Entries(b)
              /\ StateIn(b, e) \in LoginState
<1>1. DOMAIN b = 1 .. Len(b) /\ \A i \in 1 .. Len(b) : b[i] \in Entry
  BY DEF IsMap
<1>2. \A e : Held(b, e) <=> \E y \in Entries(b) : y.email = e
  BY <1>1 DEF Held, Entries
<1>3. ASSUME NEW y \in Entries(b)
      PROVE  StateIn(b, y.email) = y.state
  <2>1. PICK i \in 1 .. Len(b) : y = b[i]
    BY DEF Entries
  <2>2. (CHOOSE j \in DOMAIN b : b[j].email = y.email) = i
    BY <1>1, <2>1 DEF IsMap
  <2>3. QED
    BY <1>2, <2>1, <2>2 DEF StateIn
<1>4. ASSUME NEW y \in Entries(b)
      PROVE  y \in Entry /\ y = [email |-> y.email, state |-> y.state]
  BY <1>1 DEF Entries, Entry
<1>5. ASSUME NEW e, Held(b, e)
      PROVE  /\ [email |-> e, state |-> StateIn(b, e)] \in Entries(b)
             /\ StateIn(b, e) \in LoginState
  <2>1. PICK y \in Entries(b) : y.email = e
    BY <1>2, <1>5
  <2>2. y = [email |-> e, state |-> StateIn(b, e)] /\ StateIn(b, e) = y.state
    BY <1>3, <1>4, <2>1
  <2>3. QED
    BY <1>4, <2>1, <2>2 DEF Entry
<1>6. QED
  BY <1>2, <1>3, <1>4, <1>5

LEMMA SameEntries ==
  ASSUME NEW b, NEW c, IsMap(b), IsMap(c), NEW e,
         \A y : (y \in Entries(b) /\ y.email = e) <=> (y \in Entries(c) /\ y.email = e)
  PROVE  StateIn(b, e) = StateIn(c, e)
<1>1. CASE Held(b, e)
  <2>1. PICK y \in Entries(b) : y.email = e
    BY <1>1, Lookup
  <2>2. y \in Entries(c)
    BY <2>1
  <2>3. QED
    BY <2>1, <2>2, Lookup
<1>2. CASE ~Held(b, e)
  <2>1. ~Held(c, e)
    BY <1>2, Lookup
  <2>2. QED
    BY <1>2, <2>1 DEF StateIn
<1>3. QED
  BY <1>1, <1>2

(* The entry is looked at or written under its key alone.                  *)
LEMMA WithoutMap ==
  ASSUME IsMap(bucket), NEW e
  PROVE  /\ IsMap(Without(e)) /\ Len(Without(e)) <= Len(bucket)
         /\ Remembered(e) => Len(Without(e)) = Len(bucket) - 1
         /\ Entries(Without(e)) = {y \in Entries(bucket) : y.email # e}
<1>1. Len(bucket) \in Nat
  BY DEF IsMap
<1>2. CASE Remembered(e)
  <2>1. PICK k \in 1 .. Len(bucket) : k = Position(e) /\ bucket[k].email = e
    BY <1>2 DEF Remembered, Position, IsMap
  <2>2. Without(e) = RemoveAt(bucket, k)
    BY <1>2, <2>1 DEF Without
  <2>3. /\ IsMap(RemoveAt(bucket, k)) /\ Len(RemoveAt(bucket, k)) = Len(bucket) - 1
        /\ Entries(RemoveAt(bucket, k)) = {y \in Entries(bucket) : y.email # bucket[k].email}
    BY <2>1, RemoveEntry
  <2>4. QED
    BY <1>1, <2>1, <2>2, <2>3
<1>3. CASE ~Remembered(e)
  BY <1>1, <1>3, Lookup, BucketIs DEF Without
<1>4. QED
  BY <1>2, <1>3

LEMMA TouchedMap ==
  ASSUME IsMap(bucket), NEW e
  PROVE  IsMap(Touched(e)) /\ Len(Touched(e)) = Len(bucket) /\ Entries(Touched(e)) = Entries(bucket)
<1>1. CASE Remembered(e)
  <2>1. PICK x : x = [email |-> e, state |-> BucketState(e)]
    OBVIOUS
  <2>2. x \in Entries(bucket) /\ x \in Entry /\ x.email = e
    BY <1>1, <2>1, Lookup, BucketIs DEF Entry
  <2>3. PICK w : w = Without(e)
    OBVIOUS
  <2>4. /\ IsMap(w) /\ Len(w) = Len(bucket) - 1
        /\ Entries(w) = {y \in Entries(bucket) : y.email # e}
    BY <1>1, <2>3, WithoutMap
  <2>5. /\ IsMap(Append(w, x)) /\ Len(Append(w, x)) = Len(w) + 1
        /\ Entries(Append(w, x)) = Entries(w) \cup {x}
    BY <2>2, <2>4, AppendEntry
  <2>6. Touched(e) = Append(w, x)
    BY <1>1, <2>1, <2>3 DEF Touched
  <2>7. \A y \in Entries(bucket) : (y.email = e) => y = x
    BY <2>1, Lookup, BucketIs
  <2>8. Len(bucket) \in Nat
    BY DEF IsMap
  <2>9. \A y : y \in Entries(bucket) <=> (y \in Entries(w) \/ y = x)
    BY <2>2, <2>4, <2>7
  <2>10. Entries(Append(w, x)) = Entries(bucket)
    BY <2>5, <2>9
  <2>11. QED
    BY <2>4, <2>5, <2>6, <2>8, <2>10
<1>2. CASE ~Remembered(e)
  BY <1>2 DEF Touched
<1>3. QED
  BY <1>1, <1>2

(* What goes when an entry for e comes.                                    *)
Oldest(e) ==
  IF Remembered(e) \/ Len(bucket) < MaxBuckets THEN {} ELSE {bucket[1].email}

LEMMA StoredMap ==
  ASSUME IsMap(bucket), Len(bucket) <= MaxBuckets, NEW e \in Emails, NEW s \in LoginState
  PROVE  /\ IsMap(Stored(e, s)) /\ Len(Stored(e, s)) <= MaxBuckets
         /\ Entries(Stored(e, s)) =
              {y \in Entries(bucket) : y.email # e /\ y.email \notin Oldest(e)}
                \cup {[email |-> e, state |-> s]}
<1>1. PICK x : x = [email |-> e, state |-> s]
  OBVIOUS
<1>2. x \in Entry /\ x.email = e
  BY <1>1 DEF Entry
<1>3. PICK w : w = Without(e)
  OBVIOUS
<1>4. /\ IsMap(w) /\ Len(w) <= Len(bucket)
      /\ Entries(w) = {y \in Entries(bucket) : y.email # e}
      /\ Len(w) \in Nat /\ Len(bucket) \in Nat /\ MaxBuckets \in Nat \ {0}
  BY <1>3, WithoutMap, AuthAssumption DEF IsMap
<1>5. PICK b : b = Append(w, x)
  OBVIOUS
<1>6. /\ IsMap(b) /\ Len(b) = Len(w) + 1
      /\ Entries(b) = Entries(w) \cup {x}
  BY <1>2, <1>4, <1>5, AppendEntry
<1>7. /\ Remembered(e) => Len(w) < MaxBuckets
      /\ ~Remembered(e) => w = bucket
  BY <1>3, <1>4, WithoutMap DEF Without
<1>8. CASE Len(b) > MaxBuckets
  <2>1. Stored(e, s) = Tail(b)
    BY <1>1, <1>3, <1>5, <1>8 DEF Stored
  <2>2. /\ IsMap(Tail(b)) /\ Len(Tail(b)) = Len(b) - 1
        /\ Entries(Tail(b)) = {y \in Entries(b) : y.email # b[1].email}
    BY <1>4, <1>6, <1>8, DropOldest
  <2>3. b[Len(b)] = x /\ b[1].email # e
    <3>1. b[Len(b)] = x /\ Len(b) > 1
      BY <1>2, <1>4, <1>5, <1>6, <1>8, AppendProperties DEF IsMap
    <3>2. QED
      BY <1>2, <1>4, <1>6, <3>1 DEF IsMap
  <2>4. w = bucket /\ ~Remembered(e) /\ Len(bucket) >= 1 /\ ~(Len(bucket) < MaxBuckets)
    BY <1>4, <1>6, <1>7, <1>8
  <2>5. b[1] = bucket[1]
    BY <1>2, <1>4, <1>5, <2>4, AppendProperties DEF IsMap
  <2>6. Oldest(e) = {b[1].email}
    BY <2>4, <2>5 DEF Oldest
  <2>7. QED
    BY <1>1, <1>2, <1>4, <1>6, <1>8, <2>1, <2>2, <2>3, <2>6
<1>9. CASE ~(Len(b) > MaxBuckets)
  <2>1. Stored(e, s) = b
    BY <1>1, <1>3, <1>5, <1>9 DEF Stored
  <2>2. Oldest(e) = {}
    BY <1>4, <1>6, <1>7, <1>9 DEF Oldest
  <2>3. QED
    BY <1>1, <1>2, <1>4, <1>6, <1>9, <2>1, <2>2
<1>10. QED
  BY <1>8, <1>9

(* After a write: its own key is there, the oldest one is gone if there was*)
(* no room, and the others are as they were.                               *)
LEMMA StoredStates ==
  ASSUME IsMap(bucket), Len(bucket) <= MaxBuckets, NEW e \in Emails, NEW s \in LoginState,
         NEW b, b = Stored(e, s)
  PROVE  /\ IsMap(b) /\ Len(b) <= MaxBuckets
         /\ StateIn(b, e) = s /\ e \notin Oldest(e)
         /\ \A f \in Emails \ {e} :
              StateIn(b, f) = IF f \in Oldest(e) THEN Fresh ELSE StateIn(bucket, f)
<1>1. PICK x : x = [email |-> e, state |-> s]
  OBVIOUS
<1>2. /\ IsMap(b) /\ Len(b) <= MaxBuckets /\ x.email = e /\ x.state = s
      /\ Entries(b) = {y \in Entries(bucket) : y.email # e /\ y.email \notin Oldest(e)}
                         \cup {x}
  BY <1>1, StoredMap
<1>3. StateIn(b, e) = s
  BY <1>2, Lookup
<1>4. e \notin Oldest(e)
  <2>1. Len(bucket) \in Nat /\ MaxBuckets \in Nat \ {0} /\ DOMAIN bucket = 1 .. Len(bucket)
    BY AuthAssumption DEF IsMap
  <2>2. QED
    BY <2>1 DEF Oldest, Remembered
<1>5. ASSUME NEW f \in Emails \ {e}, f \in Oldest(e)
      PROVE  StateIn(b, f) = Fresh
  <2>1. ~Held(b, f)
    BY <1>2, <1>5, Lookup
  <2>2. QED
    BY <2>1 DEF StateIn
<1>6. ASSUME NEW f \in Emails \ {e}, f \notin Oldest(e)
      PROVE  StateIn(b, f) = StateIn(bucket, f)
  <2>1. \A y : (y \in Entries(b) /\ y.email = f) <=> (y \in Entries(bucket) /\ y.email = f)
    BY <1>2, <1>6
  <2>2. QED
    BY <1>2, <2>1, SameEntries
<1>7. QED
  BY <1>2, <1>3, <1>4, <1>5, <1>6

-----------------------------------------------------------------------------
(* The counters.                                                           *)

(* Of an address, the logins that counted as a failure.                    *)
Failed(e) == {a \in Attempts : login[a].email = e /\ login[a].failed}

(* A state that the failures of an address account for.                    *)
Backed(e, s) ==
  /\ s \in LoginState
  /\ s.count <= Cardinality(Failed(e))
  /\ (s.until > 0) => Cardinality(Failed(e)) >= Threshold

(* A state that is exactly n failures.                                     *)
Counts(s, n) ==
  /\ s.count = n % Threshold
  /\ (n >= Threshold) <=> (s.until > 0)

(* What a login has read is accounted for, and it is still what is stored  *)
(* unless another writer came in between.                                  *)
Reading(a) ==
  /\ (login[a].pc \in {"idle", "find", "verify"}) => ~login[a].failed
  /\ (login[a].pc = "verify") =>
       /\ Backed(login[a].email, login[a].seen.throttle)
       /\ (login[a].email \notin raced) =>
            /\ login[a].known = HasAccount(login[a].email)
            /\ login[a].seen.throttle = StateOf(login[a].email)

(* The only login in flight for an address that has not raced.             *)
Alone(e) ==
  \A a, b \in Attempts :
    (/\ InFlight(a) /\ login[a].email = e
     /\ InFlight(b) /\ login[b].email = e) => a = b

CounterInv ==
  /\ IsMap(bucket) /\ Len(bucket) <= MaxBuckets
  /\ restarts \in 0 .. MaxRestarts
  /\ since \in [Emails -> Nat] /\ lost \in [Emails -> Nat]
  /\ \A e \in Emails : lost[e] <= since[e]
  /\ raced \subseteq Emails
  /\ \A e \in Emails : IsFiniteSet(Failed(e)) /\ Backed(e, StateOf(e))
  /\ \A a \in Attempts : Reading(a)
  /\ \A e \in Emails \ raced : Counts(StateOf(e), Counted(e)) /\ Alone(e)

LEMMA Quotient ==
  ASSUME NEW n \in Nat, NEW m \in Nat \ {0}, NEW q \in Int, NEW r \in 0 .. m - 1,
         n = m * q + r
  PROVE  n % m = r
  OBVIOUS

LEMMA Remainder ==
  ASSUME NEW n \in Nat, NEW m \in Nat \ {0}
  PROVE  /\ n % m \in 0 .. m - 1
         /\ n % m <= n
         /\ n < m => n % m = n
         /\ (n + 1) % m = IF (n % m) + 1 >= m THEN 0 ELSE (n % m) + 1
<1>1. /\ n % m \in 0 .. m - 1 /\ n \div m \in Nat
      /\ n = m * (n \div m) + (n % m)
  OBVIOUS
<1>2. (n < m => n % m = n) /\ n % m <= n
  OBVIOUS
<1> DEFINE r == n % m
           q == n \div m
<1>3. r \in 0 .. m - 1 /\ q \in Int /\ n = m * q + r
  BY <1>1
<1> HIDE DEF r, q
<1>4. CASE r + 1 >= m
  <2>1. n + 1 = m * (q + 1) + 0
    BY <1>3, <1>4
  <2>2. PICK p \in Int : p = q + 1
    BY <1>3
  <2>3. n + 1 \in Nat /\ 0 \in 0 .. m - 1
    OBVIOUS
  <2>4. (n + 1) % m = 0
    BY <2>1, <2>2, <2>3, Quotient
  <2>5. QED
    BY <1>2, <1>3, <1>4, <2>4 DEF r
<1>5. CASE ~(r + 1 >= m)
  <2>1. PICK k \in 0 .. m - 1, j \in Nat : k = r + 1 /\ j = n + 1
    BY <1>3, <1>5
  <2>2. j % m = k
    <3>1. j = m * q + k
      BY <1>3, <2>1
    <3>2. QED
      BY <1>3, <3>1, Quotient
  <2>3. QED
    BY <1>2, <1>3, <1>5, <2>1, <2>2 DEF r
<1>6. QED
  BY <1>4, <1>5

(* What a failure makes of a state, whose failures were n, or at most n.   *)
LEMMA FailureCounted ==
  ASSUME NEW s \in LoginState, NEW t \in 0 .. MaxTime, NEW n \in Nat
  PROVE  LET r == NextLoginState(s, t, FALSE)
         IN  /\ Counts(s, n) => Counts(r, n + 1)
             /\ (s.count <= n /\ (s.until > 0 => n >= Threshold)) =>
                  (r.count <= n + 1 /\ (r.until > 0 => n + 1 >= Threshold))
<1>1. s.count \in 0 .. Threshold - 1 /\ s.until \in 0 .. MaxTime + Window
  BY DEF LoginState
<1>2. Threshold \in Nat \ {0} /\ Window \in Nat \ {0} /\ MaxTime \in Nat
  BY AuthAssumption
<1> DEFINE r == NextLoginState(s, t, FALSE)
<1>3. IF s.count + 1 >= Threshold THEN r.count = 0 /\ r.until = t + Window
      ELSE r.count = s.count + 1 /\ r.until = s.until
  BY <1>2 DEF NextLoginState, LoginState
<1> HIDE DEF r
<1>4. Counts(s, n) => Counts(r, n + 1)
  <2>1. PICK m \in Nat \ {0} : m = Threshold
    BY <1>2
  <2>2. PICK k, l : k = n % m /\ l = (n + 1) % m
    OBVIOUS
  <2>3. /\ k \in 0 .. m - 1 /\ k <= n /\ (n < m => k = n)
        /\ l = IF k + 1 >= m THEN 0 ELSE k + 1
    BY <2>2, Remainder
  <2>4. /\ Counts(s, n) <=> (s.count = k /\ (n >= m <=> s.until > 0))
        /\ Counts(r, n + 1) <=> (r.count = l /\ (n + 1 >= m <=> r.until > 0))
    BY <2>1, <2>2 DEF Counts
  <2>5. QED
    BY <1>1, <1>2, <1>3, <2>1, <2>3, <2>4
<1>5. ASSUME s.count <= n, s.until > 0 => n >= Threshold
      PROVE  r.count <= n + 1 /\ (r.until > 0 => n + 1 >= Threshold)
  BY <1>1, <1>2, <1>3, <1>5
<1>6. QED
  BY <1>4, <1>5 DEF r

LEMMA NoFailures ==
  /\ Fresh \in LoginState
  /\ Counts(Fresh, 0)
  /\ \A e : IsFiniteSet(Failed(e)) => Backed(e, Fresh)
<1>1. Threshold \in Nat \ {0} /\ Window \in Nat /\ MaxTime \in Nat
  BY AuthAssumption
<1>2. Fresh \in LoginState
  BY <1>1 DEF Fresh, LoginState
<1>3. Counts(Fresh, 0)
  <2>1. 0 % Threshold = 0
    BY <1>1, Remainder
  <2>2. QED
    BY <1>1, <2>1 DEF Fresh, Counts
<1>4. ASSUME NEW e, IsFiniteSet(Failed(e))
      PROVE  Backed(e, Fresh)
  <2>1. Cardinality(Failed(e)) \in Nat
    BY <1>4, FS_CardinalityType
  <2>2. QED
    BY <1>2, <2>1 DEF Fresh, Backed
<1>5. QED
  BY <1>2, <1>3, <1>4

LEMMA CountedIs ==
  ASSUME CounterInv
  PROVE  \A e \in Emails : Counted(e) \in Nat
  BY DEF CounterInv, Counted

(* More failures back what fewer did.                                      *)
LEMMA BackedKept ==
  ASSUME NEW e, NEW s, Backed(e, s), IsFiniteSet(Failed(e)'), Failed(e) \subseteq Failed(e)'
  PROVE  Backed(e, s)'
<1>1. PICK F, G : F = Failed(e) /\ G = Failed(e)'
  OBVIOUS
<1>2. IsFiniteSet(F) /\ Cardinality(F) <= Cardinality(G)
      /\ Cardinality(F) \in Nat /\ Cardinality(G) \in Nat
  BY <1>1, FS_Subset, FS_CardinalityType
<1>3. s.count \in Nat /\ Threshold \in Nat
  BY AuthAssumption DEF Backed, LoginState
<1>4. QED
  BY <1>1, <1>2, <1>3 DEF Backed


LEMMA StateIs ==
  ASSUME NEW e
  PROVE  /\ StateOf(e) = IF account[e] # None THEN account[e].throttle
                         ELSE StateIn(bucket, e)
         /\ StateOf(e)' = IF account'[e] # None THEN account'[e].throttle
                          ELSE StateIn(bucket', e)
  BY BucketIs DEF StateOf, HasAccount

(* A step that writes no counter: the logins it moves are past their       *)
(* write, or over.                                                         *)
LEMMA CounterFrame ==
  ASSUME CounterInv, account' = account, UNCHANGED <<restarts, since, lost, raced>>,
         IsMap(bucket'), Len(bucket') <= MaxBuckets, Entries(bucket') = Entries(bucket),
         \A a \in Attempts :
           /\ login'[a].email = login[a].email
           /\ login'[a].failed = login[a].failed
           /\ InFlight(a)' => InFlight(a)
           /\ (login'[a].pc \in {"idle", "find", "verify"}) => login'[a] = login[a]
  PROVE  CounterInv'
<1>1. \A e : StateOf(e)' = StateOf(e)
  <2>1. \A e : StateIn(bucket', e) = StateIn(bucket, e)
    BY SameEntries DEF CounterInv
  <2>2. QED
    BY <2>1, StateIs
<1>2. \A e : Failed(e)' = Failed(e)
  BY DEF Failed
<1>3. \A e, s : Backed(e, s)' <=> Backed(e, s)
  BY <1>2 DEF Backed
<1>4. \A a \in Attempts : Reading(a)'
  <2>1. SUFFICES ASSUME NEW a \in Attempts PROVE Reading(a)'
    OBVIOUS
  <2>2. CASE login'[a] = login[a]
    BY <1>1, <1>3, <2>2 DEF CounterInv, Reading, HasAccount
  <2>3. CASE login'[a].pc \notin {"idle", "find", "verify"}
    BY <2>3 DEF Reading
  <2>4. QED
    BY <2>2, <2>3
<1>5. \A e \in Emails \ raced' : Counts(StateOf(e), Counted(e))' /\ Alone(e)'
  <2>1. SUFFICES ASSUME NEW e \in Emails \ raced
                 PROVE  Counts(StateOf(e), Counted(e))' /\ Alone(e)'
    OBVIOUS
  <2>2. Counts(StateOf(e), Counted(e)) /\ Alone(e)
    BY DEF CounterInv
  <2>3. Counts(StateOf(e), Counted(e))'
    BY <1>1, <2>2 DEF Counts, Counted, HasAccount
  <2>4. Alone(e)'
    BY <2>2 DEF Alone
  <2>5. QED
    BY <2>3, <2>4
<1>6. QED
  BY <1>1, <1>2, <1>3, <1>4, <1>5 DEF CounterInv

(* A step of one login that is over or past its write.                     *)
LEMMA LoginMoves ==
  ASSUME AuthInv, CounterInv, NEW a \in Attempts, InFlight(a), NEW x,
         login' = [login EXCEPT ![a] = x],
         x.email = login[a].email, x.failed = login[a].failed,
         x.pc \notin {"idle", "find", "verify"},
         UNCHANGED <<account, restarts, since, lost, raced>>,
         IsMap(bucket'), Len(bucket') <= MaxBuckets, Entries(bucket') = Entries(bucket)
  PROVE  CounterInv'
<1>1. login'[a] = x /\ \A b \in Attempts : (b # a) => login'[b] = login[b]
  BY DEF AuthInv, Shapes
<1>2. QED
  BY <1>1, CounterFrame DEF InFlight

LEMMA GateCounted ==
  ASSUME CounterInv, UNCHANGED <<account, bucket, login, restarts, since, lost, raced>>
  PROVE  CounterInv'
  BY CounterFrame DEF CounterInv, InFlight

LEMMA OverKeeps ==
  ASSUME NEW r, IsLogin(r), NEW s \in Answers
  PROVE  /\ Over(r, s).email = r.email /\ Over(r, s).failed = r.failed
         /\ Over(r, s).pc = "done"
<1>1. PICK e, f, g : e = r.email /\ f = r.failed /\ g = r.good
  OBVIOUS
<1> DEFINE x == [NoLogin EXCEPT !.pc = "done", !.answer = s, !.email = e, !.failed = f,
                                !.good = g]
<1>2. x.email = e /\ x.failed = f /\ x.pc = "done"
  BY DEF NoLogin
<1>3. QED
  BY <1>1, <1>2 DEF Over

(* The next writer of a counter: if another one is in flight, the address  *)
(* has raced.                                                              *)
LEMMA SubmitCounted ==
  ASSUME AuthInv, CounterInv, NEW a \in Attempts, Submit(a)
  PROVE  CounterInv'
<1>1. PICK e \in Emails, p \in Passwords :
        /\ login' = [login EXCEPT ![a] =
             [NoLogin EXCEPT !.pc = "find", !.email = e, !.given = p,
                             !.began = now, !.good = Matches(e, p)]]
        /\ Meet(e)
  BY DEF Submit
<1> DEFINE x == [NoLogin EXCEPT !.pc = "find", !.email = e, !.given = p,
                                !.began = now, !.good = Matches(e, p)]
<1>2. /\ UNCHANGED <<account, bucket, restarts>>
      /\ login[a].pc = "idle" /\ login'[a] = x
      /\ \A b \in Attempts : (b # a) => login'[b] = login[b]
  BY <1>1 DEF Submit, AuthInv, Shapes
<1>3. x.pc = "find" /\ x.email = e /\ x.failed = FALSE
  BY DEF NoLogin
<1> HIDE DEF x
<1>4. ~login[a].failed
  BY <1>2 DEF CounterInv, Reading
<1>5. \A f : Failed(f)' = Failed(f)
  BY <1>2, <1>3, <1>4 DEF Failed
<1>6. \A f, s : Backed(f, s)' <=> Backed(f, s)
  BY <1>5 DEF Backed
<1>7. \A f : StateOf(f)' = StateOf(f)
  BY <1>2, StateIs
<1>8. /\ raced' = IF Writers(e) = {} THEN raced ELSE raced \cup {e}
      /\ UNCHANGED <<since, lost>>
      /\ raced \subseteq raced'
  BY <1>1 DEF Meet
<1>9. raced' \subseteq Emails
  BY <1>8 DEF CounterInv
<1>10. \A b \in Attempts : Reading(b)'
  <2>1. SUFFICES ASSUME NEW b \in Attempts PROVE Reading(b)'
    OBVIOUS
  <2>2. CASE b = a
    BY <1>2, <1>3, <2>2 DEF Reading
  <2>3. CASE b # a
    BY <1>2, <1>6, <1>7, <1>8, <2>3 DEF CounterInv, Reading, HasAccount
  <2>4. QED
    BY <2>2, <2>3
<1>11. ASSUME NEW f \in Emails \ raced'
       PROVE  Counts(StateOf(f), Counted(f))' /\ Alone(f)'
  <2>1. f \notin raced /\ Counts(StateOf(f), Counted(f)) /\ Alone(f)
    BY <1>8 DEF CounterInv
  <2>2. Counts(StateOf(f), Counted(f))'
    <3>1. Counted(f)' = Counted(f)
      BY <1>2, <1>8 DEF Counted, HasAccount
    <3>2. QED
      BY <1>7, <2>1, <3>1 DEF Counts
  <2>3. Alone(f)'
    <3>1. CASE f = e
      BY <1>2, <1>8, <3>1 DEF Alone, InFlight, Writers
    <3>2. CASE f # e
      BY <1>2, <1>3, <2>1, <3>2 DEF Alone, InFlight
    <3>3. QED
      BY <3>1, <3>2
  <2>4. QED
    BY <2>2, <2>3
<1>12. QED
  BY <1>2, <1>5, <1>6, <1>7, <1>8, <1>9, <1>10, <1>11 DEF CounterInv

LEMMA FindByEmailCounted ==
  ASSUME AuthInv, CounterInv, NEW a \in Attempts, FindByEmail(a)
  PROVE  CounterInv'
<1> DEFINE e == login[a].email
<1>1. /\ UNCHANGED <<account, restarts, since, lost, raced>>
      /\ login[a].pc = "find" /\ InFlight(a) /\ IsLogin(login[a]) /\ e \in Emails
  BY DEF FindByEmail, historyVars, InFlight, AuthInv, LoginInv
<1>2. bucket' = bucket \/ bucket' = Touched(e)
  BY DEF FindByEmail
<1>3. IsMap(bucket') /\ Len(bucket') <= MaxBuckets /\ Entries(bucket') = Entries(bucket)
  BY <1>2, TouchedMap DEF CounterInv
<1>4. PICK seen :
        /\ seen = StateOf(e)
        /\ \/ login' = Answered(a, "error")
           \/ login' = Refused(a, "429")
           \/ login' = [login EXCEPT ![a].pc = "verify",
                          ![a].known = HasAccount(e),
                          ![a].seen = IF HasAccount(e) THEN account[e]
                                      ELSE [throttle |-> seen]]
  BY DEF FindByEmail, StateOf
<1>5. CASE login' = Answered(a, "error")
  <2>1. login' = [login EXCEPT ![a] = Over(login[a], "error")]
    BY <1>5 DEF Answered
  <2>2. PICK x : /\ x = Over(login[a], "error") /\ x.email = e
                 /\ x.failed = login[a].failed /\ x.pc = "done"
    BY <1>1, OverKeeps DEF Answers
  <2>3. QED
    BY <1>1, <1>3, <2>1, <2>2, LoginMoves
<1>6. CASE login' = Refused(a, "429")
  <2> DEFINE x == [[login[a] EXCEPT !.pc = "audit"] EXCEPT !.answer = "429"]
  <2>1. login' = [login EXCEPT ![a] = x]
    BY <1>6 DEF Refused, AuthInv, Shapes
  <2>2. x.email = e /\ x.failed = login[a].failed /\ x.pc = "audit"
    BY <1>1 DEF IsLogin
  <2> HIDE DEF x
  <2>3. QED
    BY <1>1, <1>3, <2>1, <2>2, LoginMoves
<1>7. CASE login' = [login EXCEPT ![a].pc = "verify",
                       ![a].known = HasAccount(e),
                       ![a].seen = IF HasAccount(e) THEN account[e]
                                   ELSE [throttle |-> seen]]
  <2> DEFINE known == HasAccount(e)
             read == IF known THEN account[e] ELSE [throttle |-> seen]
             x == [[[login[a] EXCEPT !.pc = "verify"] EXCEPT !.known = known]
                      EXCEPT !.seen = read]
  <2>1. login' = [login EXCEPT ![a] = x]
    BY <1>7 DEF AuthInv, Shapes
  <2>2. read.throttle = seen
    BY <1>4 DEF StateOf
  <2> HIDE DEF read, known
  <2>3. /\ x.email = e /\ x.failed = login[a].failed /\ x.pc = "verify"
        /\ x.known = known /\ x.seen = read
    BY <1>1 DEF IsLogin
  <2> HIDE DEF x
  <2>4. login'[a] = x /\ \A b \in Attempts : (b # a) => login'[b] = login[b]
    BY <2>1 DEF AuthInv, Shapes
  <2>5. \A f : Failed(f)' = Failed(f)
    BY <2>3, <2>4 DEF Failed
  <2>6. \A f, s : Backed(f, s)' <=> Backed(f, s)
    BY <2>5 DEF Backed
  <2>7. \A f : StateOf(f)' = StateOf(f)
    <3>1. \A f : StateIn(bucket', f) = StateIn(bucket, f)
      BY <1>3, SameEntries DEF CounterInv
    <3>2. QED
      BY <1>1, <3>1, StateIs
  <2>8. Reading(a)'
    <3>1. PICK f \in Emails : f = e
      BY <1>1
    <3>2. ~login[a].failed /\ Backed(f, seen) /\ seen = StateOf(f)
      BY <1>1, <1>4, <3>1 DEF CounterInv, Reading
    <3>3. Backed(f, seen)' /\ seen = StateOf(f)'
      BY <2>6, <2>7, <3>2
    <3>4. known = HasAccount(f)'
      BY <1>1, <3>1 DEF known, HasAccount
    <3>5. login'[a].email = f
      BY <2>3, <2>4, <3>1
    <3>6. QED
      BY <2>2, <2>3, <2>4, <3>2, <3>3, <3>4, <3>5 DEF Reading
  <2>9. \A b \in Attempts : (b # a) => Reading(b)'
    BY <1>1, <2>4, <2>6, <2>7 DEF CounterInv, Reading, HasAccount
  <2>10. \A f \in Emails \ raced' : Counts(StateOf(f), Counted(f))' /\ Alone(f)'
    BY <1>1, <2>3, <2>4, <2>7 DEF CounterInv, Counts, Counted, HasAccount, Alone, InFlight
  <2>11. QED
    BY <1>1, <1>3, <2>5, <2>6, <2>7, <2>8, <2>9, <2>10 DEF CounterInv
<1>8. QED
  BY <1>4, <1>5, <1>6, <1>7

(* One more failure of an address.                                         *)
LEMMA FailureBacked ==
  ASSUME NEW a \in Attempts, NEW e \in Emails, ~login[a].failed, login'[a].failed,
         login'[a].email = e, login[a].email = e,
         \A b \in Attempts : (b # a) =>
           login'[b].email = login[b].email /\ login'[b].failed = login[b].failed,
         \A f \in Emails : IsFiniteSet(Failed(f)),
         NEW s, Backed(e, s), NEW t \in 0 .. MaxTime
  PROVE  /\ \A f \in Emails : IsFiniteSet(Failed(f)') /\ Failed(f) \subseteq Failed(f)'
         /\ Backed(e, NextLoginState(s, t, FALSE))'
<1>1. PICK F : F = Failed(e)
  OBVIOUS
<1>2. PICK G : G = Failed(e)'
  OBVIOUS
<1>3. G = F \cup {a} /\ a \notin F
  BY <1>1, <1>2 DEF Failed
<1>4. IsFiniteSet(G) /\ Cardinality(G) = Cardinality(F) + 1 /\ Cardinality(F) \in Nat
  BY <1>1, <1>3, FS_AddElement, FS_CardinalityType
<1>5. \A f \in Emails : (f # e) => Failed(f)' = Failed(f)
  BY DEF Failed
<1>6. PICK r : r = NextLoginState(s, t, FALSE)
  OBVIOUS
<1>7. s \in LoginState /\ r \in LoginState
  BY <1>6, NextStateTyped DEF Backed
<1>8. /\ r.count <= Cardinality(F) + 1
      /\ (r.until > 0) => Cardinality(F) + 1 >= Threshold
  BY <1>1, <1>4, <1>6, <1>7, FailureCounted DEF Backed
<1>9. Backed(e, r)'
  BY <1>2, <1>4, <1>7, <1>8 DEF Backed
<1>10. QED
  BY <1>1, <1>2, <1>3, <1>4, <1>5, <1>6, <1>9

(* The counter that login a writes, or that is hidden by an account that   *)
(* appeared: one failure more, or none any more.                           *)
Written(a, e, failed, next) ==
  \/ /\ StateOf(e)' = next
     /\ e \notin raced' =>
          \/ failed /\ e \notin raced /\ Counted(e)' = Counted(e) + 1
          \/ ~failed /\ Writers(e) \subseteq {a} /\ Counted(e)' = 0
  \/ /\ StateOf(e)' = StateOf(e)
     /\ e \in raced'

(* Another counter, as it was or gone.                                     *)
Dropped(f) ==
  \/ /\ StateOf(f)' = StateOf(f)
     /\ f \notin raced' => f \notin raced /\ Counted(f)' = Counted(f)
  \/ /\ StateOf(f)' = Fresh
     /\ f \notin raced' => Writers(f) = {} /\ Counted(f)' = 0

(* A write of the counter of one address by its login, which counts a      *)
(* failure or clears it; the other entries are as they were or gone.       *)
LEMMA WriteCounted ==
  ASSUME AuthInv, CounterInv, NEW a \in Attempts, login[a].pc = "verify",
         NEW e \in Emails, e = login[a].email, NEW x,
         login' = [login EXCEPT ![a] = x], x.email = e, x.failed \in BOOLEAN,
         x.pc \notin {"idle", "find", "verify"},
         IsMap(bucket'), Len(bucket') <= MaxBuckets, restarts' = restarts,
         since' \in [Emails -> Nat], lost' \in [Emails -> Nat],
         \A f \in Emails : lost'[f] <= since'[f], raced' \subseteq Emails,
         \A f \in Emails : (account'[f] # None) = (account[f] # None),
         NEW next, next = NextLoginState(login[a].seen.throttle, login[a].began, ~x.failed),
         Written(a, e, x.failed, next), \A f \in Emails \ {e} : Dropped(f)
  PROVE  CounterInv'
<1>1. login'[a] = x /\ \A b \in Attempts : (b # a) => login'[b] = login[b]
  BY DEF AuthInv, Shapes
<1>2. /\ ~login[a].failed /\ InFlight(a) /\ login[a].began \in 0 .. MaxTime
      /\ \A f \in Emails : IsFiniteSet(Failed(f)) /\ Backed(f, StateOf(f))
      /\ Backed(e, login[a].seen.throttle)
      /\ e \notin raced => login[a].seen.throttle = StateOf(e)
  BY DEF CounterInv, Reading, InFlight, AuthInv, LoginInv, IsLogin
<1>3. /\ \A f \in Emails : IsFiniteSet(Failed(f)') /\ Failed(f) \subseteq Failed(f)'
      /\ Backed(e, next)'
  <2>1. CASE x.failed
    <3>1. PICK s : s = login[a].seen.throttle /\ Backed(e, s)
      BY <1>2
    <3>2. PICK t \in 0 .. MaxTime : t = login[a].began
      BY <1>2
    <3>3. next = NextLoginState(s, t, FALSE)
      BY <2>1, <3>1, <3>2
    <3>4. /\ login'[a].failed /\ login'[a].email = e
          /\ \A b \in Attempts : (b # a) =>
               login'[b].email = login[b].email /\ login'[b].failed = login[b].failed
          /\ \A f \in Emails : IsFiniteSet(Failed(f))
      BY <1>1, <1>2, <2>1
    <3>5. /\ \A f \in Emails : IsFiniteSet(Failed(f)') /\ Failed(f) \subseteq Failed(f)'
          /\ Backed(e, NextLoginState(s, t, FALSE))'
      BY <1>2, <3>1, <3>4, FailureBacked
    <3>6. QED
      BY <3>3, <3>5
  <2>2. CASE ~x.failed
    <3>1. \A f \in Emails : Failed(f)' = Failed(f)
      BY <1>1, <1>2, <2>2 DEF Failed
    <3>2. next = Fresh
      BY <2>2 DEF NextLoginState
    <3>3. Backed(e, Fresh)'
      BY <1>2, <3>1, NoFailures DEF Backed
    <3>4. QED
      BY <1>2, <3>1, <3>2, <3>3
  <2>3. QED
    BY <2>1, <2>2
<1>4. \A f \in Emails : \A s : Backed(f, s) => Backed(f, s)'
  BY <1>3, BackedKept
<1>5. \A f \in Emails : Backed(f, Fresh)'
  BY <1>2, <1>4, NoFailures
<1>6. ASSUME NEW f \in Emails PROVE Backed(f, StateOf(f))'
  <2>1. PICK s : s = StateOf(f)'
    OBVIOUS
  <2>2. Backed(f, s)'
    <3>1. CASE f = e
      BY <1>2, <1>3, <1>4, <2>1, <3>1 DEF Written
    <3>2. CASE f # e
      BY <1>2, <1>4, <1>5, <2>1, <3>2 DEF Dropped
    <3>3. QED
      BY <3>1, <3>2
  <2>3. QED
    BY <2>1, <2>2 DEF Backed
<1>7. ASSUME NEW b \in Attempts PROVE Reading(b)'
  <2>1. CASE b = a
    BY <1>1, <2>1 DEF Reading
  <2>2. CASE b # a
    <3>1. login'[b] = login[b] /\ Reading(b)
      BY <1>1, <2>2 DEF CounterInv
    <3>2. CASE login[b].pc # "verify"
      BY <3>1, <3>2 DEF Reading
    <3>3. CASE login[b].pc = "verify"
      <4>0. PICK f \in Emails : f = login[b].email
        BY <3>3 DEF AuthInv, LoginInv, InFlight
      <4>1. PICK s : f = login[b].email /\ s = login[b].seen.throttle
        BY <4>0
      <4>2. ~login[b].failed /\ Backed(f, s) /\ InFlight(b)
        BY <3>1, <3>3, <4>1 DEF Reading, InFlight
      <4>3. Backed(f, s)'
        BY <1>4, <4>2
      <4>4. b \in Writers(f)
        BY <4>1, <4>2 DEF Writers
      <4>5. ASSUME f \notin raced'
            PROVE  s = StateOf(f)' /\ login[b].known = HasAccount(f)'
        <5>1. f # e
          <6>1. SUFFICES ASSUME f = e PROVE FALSE
            OBVIOUS
          <6>2. e \notin raced
            BY <2>2, <4>4, <4>5, <6>1 DEF Written
          <6>3. Alone(e)
            BY <6>2 DEF CounterInv
          <6>4. QED
            BY <1>2, <2>2, <4>1, <4>2, <6>1, <6>3 DEF Alone
        <5>2. StateOf(f)' = StateOf(f) /\ f \notin raced
          BY <4>4, <4>5, <5>1 DEF Dropped
        <5>3. s = StateOf(f) /\ login[b].known = HasAccount(f)
          BY <3>1, <3>3, <4>1, <5>2 DEF Reading
        <5>4. HasAccount(f)' = HasAccount(f)
          BY DEF HasAccount
        <5>5. QED
          BY <5>2, <5>3, <5>4
      <4>6. QED
        BY <3>1, <4>1, <4>2, <4>3, <4>5 DEF Reading
    <3>4. QED
      BY <3>2, <3>3
  <2>3. QED
    BY <2>1, <2>2
<1>8. ASSUME NEW f \in Emails \ raced', f # e
      PROVE  Counts(StateOf(f), Counted(f))' /\ Alone(f)'
  <2>1. PICK s, n : s = StateOf(f)' /\ n = Counted(f)'
    OBVIOUS
  <2>2. Counts(s, n) /\ Alone(f)'
    <3>1. CASE f \notin raced /\ s = StateOf(f) /\ n = Counted(f)
      BY <1>1, <1>8, <3>1 DEF CounterInv, Alone, InFlight
    <3>2. CASE Writers(f) = {} /\ s = Fresh /\ n = 0
      BY <1>1, <1>8, <3>2, NoFailures DEF Alone, InFlight, Writers
    <3>3. QED
      BY <1>8, <2>1, <3>1, <3>2 DEF Dropped
  <2>3. QED
    BY <2>1, <2>2 DEF Counts
<1>9. ASSUME e \notin raced'
      PROVE  Counts(StateOf(e), Counted(e))' /\ Alone(e)'
  <2>1. PICK s, n : s = StateOf(e)' /\ n = Counted(e)'
    OBVIOUS
  <2>2. Counts(s, n) /\ Alone(e)'
    <3>1. CASE /\ x.failed /\ e \notin raced
               /\ s = next /\ n = Counted(e) + 1
      <4>1. PICK u, m : u = StateOf(e) /\ m = Counted(e) /\ Counts(u, m)
        BY <3>1 DEF CounterInv
      <4>2. PICK t \in 0 .. MaxTime : t = login[a].began
        BY <1>2
      <4>3. s = NextLoginState(u, t, FALSE) /\ u \in LoginState /\ m \in Nat
        BY <1>2, <3>1, <4>1, <4>2, CountedIs DEF Backed
      <4>4. Counts(s, m + 1)
        BY <4>1, <4>3, FailureCounted
      <4>5. Alone(e)'
        BY <1>1, <1>2, <3>1 DEF CounterInv, Alone, InFlight
      <4>6. QED
        BY <3>1, <4>1, <4>4, <4>5
    <3>2. CASE /\ ~x.failed /\ Writers(e) \subseteq {a}
               /\ s = next /\ n = 0
      <4>1. s = Fresh
        BY <3>2 DEF NextLoginState
      <4>2. Alone(e)'
        BY <1>1, <3>2 DEF Alone, InFlight, Writers
      <4>3. QED
        BY <3>2, <4>1, <4>2, NoFailures
    <3>3. QED
      BY <1>9, <2>1, <3>1, <3>2 DEF Written
  <2>3. QED
    BY <2>1, <2>2 DEF Counts
<1>10. QED
  BY <1>3, <1>6, <1>7, <1>8, <1>9 DEF CounterInv

(* The counter of an account, from the state read with its hash.           *)
LEMMA UpdateLoginStateCounted ==
  ASSUME AuthInv, CounterInv, NEW a \in Attempts, UpdateLoginState(a)
  PROVE  CounterInv'
<1>1. PICK e \in Emails : e = login[a].email
  BY DEF UpdateLoginState, AuthInv, LoginInv, InFlight
<1>2. /\ UNCHANGED <<bucket, restarts>>
      /\ login[a].pc = "verify" /\ login[a].known /\ InFlight(a) /\ IsLogin(login[a])
      /\ login[a].seen \in AccountRow /\ account[e] \in AccountRow /\ account[e] # None
      /\ login[a].began \in 0 .. MaxTime /\ ~login[a].failed
      /\ account \in [Emails -> AccountRow \cup {None}]
  BY <1>1 DEF UpdateLoginState, AuthInv, LoginInv, IsLogin, InFlight, Shapes, HasAccount,
              CounterInv, Reading
<1>3. Succeeded(a) \in BOOLEAN
  BY <1>2 DEF Succeeded, AccountRow
<1>4. PICK next : next = NextLoginState(login[a].seen.throttle, login[a].began, Succeeded(a))
  OBVIOUS
<1>5. PICK o \in DbOutcomes :
        /\ IF o = "error" THEN UNCHANGED <<account, since, lost, raced>>
           ELSE /\ account' = [account EXCEPT ![e].throttle = next]
                /\ IF Succeeded(a) THEN Clear(e, Writers(e) \ {a})
                   ELSE /\ since' = [since EXCEPT ![e] = @ + 1]
                        /\ UNCHANGED <<lost, raced>>
        /\ LET w == [login[a] EXCEPT !.failed = o # "error" /\ ~Succeeded(a)]
           IN  login' = [login EXCEPT ![a] =
                 IF o # "ok" THEN Over(w, "error")
                 ELSE IF Succeeded(a) THEN [w EXCEPT !.pc = "session"]
                 ELSE [w EXCEPT !.pc = "audit", !.answer = "401"]]
  BY <1>1, <1>4 DEF UpdateLoginState, historyVars
<1>6. PICK g \in BOOLEAN : g = (o # "error" /\ ~Succeeded(a))
  OBVIOUS
<1>7. PICK x :
        /\ login' = [login EXCEPT ![a] = x]
        /\ x.email = e /\ x.failed = g /\ x.pc \in {"done", "session", "audit"}
  <2> DEFINE w == [login[a] EXCEPT !.failed = g]
  <2>1. /\ IsLogin(w) /\ w.email = e /\ w.failed = g
    BY <1>1, <1>2 DEF IsLogin
  <2>2. login' = [login EXCEPT ![a] =
          IF o # "ok" THEN Over(w, "error")
          ELSE IF Succeeded(a) THEN [w EXCEPT !.pc = "session"]
          ELSE [w EXCEPT !.pc = "audit", !.answer = "401"]]
    BY <1>5, <1>6
  <2>3. CASE o # "ok"
    <3>1. Over(w, "error").email = e /\ Over(w, "error").failed = g
          /\ Over(w, "error").pc = "done"
      BY <2>1, OverKeeps DEF Answers
    <3>2. login' = [login EXCEPT ![a] = Over(w, "error")]
      BY <2>2, <2>3
    <3>3. QED
      BY <3>1, <3>2
  <2>4. CASE o = "ok" /\ Succeeded(a)
    <3>1. login' = [login EXCEPT ![a] = [w EXCEPT !.pc = "session"]]
      BY <2>2, <2>4
    <3> DEFINE y == [w EXCEPT !.pc = "session"]
    <3>2. y.email = e /\ y.failed = g /\ y.pc = "session"
      BY <2>1 DEF IsLogin
    <3>3. QED
      BY <3>1, <3>2
  <2>5. CASE o = "ok" /\ ~Succeeded(a)
    <3>1. login' = [login EXCEPT ![a] = [w EXCEPT !.pc = "audit", !.answer = "401"]]
      BY <2>2, <2>5
    <3> DEFINE y == [w EXCEPT !.pc = "audit", !.answer = "401"]
    <3>2. y.email = e /\ y.failed = g /\ y.pc = "audit"
      BY <2>1 DEF IsLogin
    <3>3. QED
      BY <3>1, <3>2
  <2>6. QED
    BY <2>3, <2>4, <2>5
<1>8. IsMap(bucket') /\ Len(bucket') <= MaxBuckets /\ Entries(bucket') = Entries(bucket)
  BY <1>2 DEF CounterInv
<1>9. CASE o = "error"
  <2>1. UNCHANGED <<account, since, lost, raced>> /\ g = FALSE
    BY <1>5, <1>6, <1>9
  <2>2. login[a].failed = FALSE
    BY <1>2 DEF IsLogin
  <2>3. QED
    BY <1>1, <1>2, <1>7, <1>8, <2>1, <2>2, LoginMoves
<1>10. CASE o # "error"
  <2>1. g = ~Succeeded(a) /\ Succeeded(a) = ~g
    BY <1>3, <1>6, <1>10
  <2>2. next = NextLoginState(login[a].seen.throttle, login[a].began, ~x.failed)
    BY <1>4, <1>7, <2>1
  <2>3. next \in LoginState
    BY <1>2, <1>3, <1>4, NextStateTyped DEF AccountRow
  <2>4. /\ account'[e].throttle = next /\ account'[e] # None
        /\ \A f \in Emails : (f # e) => account'[f] = account[f]
    <3> DEFINE y == [account[e] EXCEPT !.throttle = next]
    <3>1. y \in AccountRow /\ y.throttle = next
      BY <1>2, <2>3 DEF AccountRow
    <3>2. account' = [account EXCEPT ![e] = y]
      BY <1>2, <1>5, <1>10
    <3> HIDE DEF y
    <3>3. QED
      BY <1>2, <3>1, <3>2, NoneAssumption
  <2>5. /\ since' \in [Emails -> Nat] /\ lost' \in [Emails -> Nat]
        /\ \A f \in Emails : lost'[f] <= since'[f]
        /\ raced' \subseteq Emails
        /\ \A f \in Emails : (f # e) => since'[f] = since[f] /\ lost'[f] = lost[f]
        /\ \A f \in Emails : (f # e) => (f \in raced' <=> f \in raced)
        /\ (e \notin raced') =>
             \/ g /\ e \notin raced /\ since'[e] = since[e] + 1
             \/ ~g /\ Writers(e) \subseteq {a} /\ since'[e] = 0
    <3>1. /\ since \in [Emails -> Nat] /\ lost \in [Emails -> Nat] /\ raced \subseteq Emails
          /\ \A f \in Emails : lost[f] <= since[f]
      BY DEF CounterInv
    <3>2. CASE Succeeded(a)
      <4>1. Clear(e, Writers(e) \ {a}) /\ ~g
        BY <1>5, <1>10, <2>1, <3>2
      <4>2. QED
        BY <3>1, <4>1 DEF Clear
    <3>3. CASE ~Succeeded(a)
      <4>1. g /\ since' = [since EXCEPT ![e] = @ + 1] /\ lost' = lost /\ raced' = raced
        BY <1>5, <1>10, <2>1, <3>3
      <4>2. QED
        BY <3>1, <4>1
    <3>4. QED
      BY <3>2, <3>3
  <2>6. /\ StateOf(e)' = next
        /\ \A f \in Emails : (f # e) => StateOf(f)' = StateOf(f)
    BY <1>2, <2>4, StateIs
  <2>7. \A f \in Emails : (account'[f] # None) = (account[f] # None)
    BY <1>2, <2>4
  <2>8. restarts' = restarts
    BY <1>2
  <2>9. x.failed \in BOOLEAN /\ x.email = e /\ x.pc \notin {"idle", "find", "verify"}
    BY <1>7
  <2>10. Written(a, e, x.failed, next)
    <3>1. Counted(e)' = since'[e] /\ Counted(e) = since[e]
      BY <1>2, <2>4 DEF Counted, HasAccount
    <3>2. QED
      BY <1>7, <2>5, <2>6, <3>1 DEF Written
  <2>11. \A f \in Emails \ {e} : Dropped(f)
    <3>1. \A f \in Emails \ {e} : Counted(f)' = Counted(f)
      BY <2>4, <2>5 DEF Counted, HasAccount
    <3>2. QED
      BY <2>5, <2>6, <3>1 DEF Dropped
  <2>12. login[a].pc = "verify" /\ login' = [login EXCEPT ![a] = x]
    BY <1>2, <1>7
  <2>13. QED
    BY <1>1, <1>8, <2>2, <2>5, <2>7, <2>8, <2>9, <2>10, <2>11, <2>12, WriteCounted
<1>11. QED
  BY <1>9, <1>10

(* The counter of an unknown address, from the entry read before; the      *)
(* address whose entry is dropped starts again, or has raced if one of its *)
(* logins has read that entry.                                             *)
LEMMA RememberUnknownCounted ==
  ASSUME AuthInv, CounterInv, NEW a \in Attempts, RememberUnknown(a)
  PROVE  CounterInv'
<1>1. PICK e \in Emails : e = login[a].email
  BY DEF RememberUnknown, AuthInv, LoginInv, InFlight
<1>2. PICK next : next = NextLoginState(login[a].seen.throttle, login[a].began, FALSE)
  OBVIOUS
<1>3. /\ UNCHANGED <<account, restarts>>
      /\ bucket' = Stored(e, next)
      /\ since' = [since EXCEPT ![e] = @ + 1]
      /\ lost' = [f \in Emails |-> IF f \in Evicted(e) THEN since[f] ELSE lost[f]]
      /\ raced' = (raced \ Evicted(e)) \cup {f \in Evicted(e) : Writers(f) # {}}
      /\ login' = [Refused(a, "401") EXCEPT ![a].failed = TRUE]
      /\ login[a].pc = "verify" /\ ~login[a].known
  BY <1>1, <1>2 DEF RememberUnknown
<1>4. IsLogin(login[a]) /\ login[a].began \in 0 .. MaxTime
  BY DEF AuthInv, LoginInv, IsLogin
<1>5. /\ login[a].seen.throttle \in LoginState
      /\ HasAccount(e) => e \in raced
  BY <1>1, <1>3 DEF CounterInv, Reading, Backed
<1>6. next \in LoginState
  BY <1>2, <1>4, <1>5, NextStateTyped
<1>7. /\ IsMap(bucket') /\ Len(bucket') <= MaxBuckets
      /\ StateIn(bucket', e) = next /\ e \notin Oldest(e)
      /\ \A f \in Emails \ {e} :
           StateIn(bucket', f) = IF f \in Oldest(e) THEN Fresh ELSE StateIn(bucket, f)
  <2>1. PICK b : b = bucket'
    OBVIOUS
  <2>2. QED
    BY <1>3, <1>6, <2>1, StoredStates DEF CounterInv
<1>8. \A f \in Emails : f \in Evicted(e) <=> f \in Oldest(e) /\ ~HasAccount(f)
  BY DEF Evicted, Oldest
<1>9. /\ raced' \subseteq Emails
      /\ since' \in [Emails -> Nat] /\ lost' \in [Emails -> Nat]
      /\ \A f \in Emails : lost'[f] <= since'[f]
      /\ since'[e] = since[e] + 1 /\ lost'[e] = lost[e]
      /\ \A f \in Emails \ {e} : since'[f] = since[f]
      /\ \A f \in Emails : lost'[f] = IF f \in Evicted(e) THEN since[f] ELSE lost[f]
  <2>1. /\ since \in [Emails -> Nat] /\ lost \in [Emails -> Nat] /\ raced \subseteq Emails
        /\ \A f \in Emails : lost[f] <= since[f]
    BY DEF CounterInv
  <2>2. e \notin Evicted(e)
    BY <1>7, <1>8
  <2>3. raced' \subseteq Emails
    <3>1. \A f \in Evicted(e) : Writers(f) # {} => f \in Emails
      BY DEF Writers, InFlight, AuthInv, LoginInv
    <3>2. QED
      BY <1>3, <2>1, <3>1
  <2>4. QED
    BY <1>3, <2>1, <2>2, <2>3
<1>10. \A f \in Emails : (account'[f] # None) = (account[f] # None)
  BY <1>3
<1>11. PICK x :
         /\ login' = [login EXCEPT ![a] = x]
         /\ x.email = e /\ x.failed = TRUE /\ x.pc = "audit"
  <2> DEFINE y == [[[login[a] EXCEPT !.pc = "audit"] EXCEPT !.answer = "401"]
                      EXCEPT !.failed = TRUE]
  <2>1. login' = [login EXCEPT ![a] = y]
    BY <1>3 DEF Refused, AuthInv, Shapes
  <2>2. y.email = e /\ y.failed = TRUE /\ y.pc = "audit"
    BY <1>1, <1>4 DEF IsLogin
  <2>3. QED
    BY <2>1, <2>2
<1>12. Written(a, e, TRUE, next)
  <2>1. (e \notin raced') => e \notin raced
    BY <1>3, <1>7, <1>8
  <2>2. CASE HasAccount(e)
    BY <1>3, <1>5, <2>1, <2>2, StateIs DEF HasAccount, Written
  <2>3. CASE ~HasAccount(e)
    <3>1. StateOf(e)' = next
      BY <1>3, <1>7, <2>3, StateIs DEF HasAccount
    <3>2. Counted(e)' = Counted(e) + 1
      <4>1. Counted(e)' = since'[e] - lost'[e] /\ Counted(e) = since[e] - lost[e]
        BY <1>3, <2>3 DEF Counted, HasAccount
      <4>2. since[e] \in Nat /\ lost[e] \in Nat
        BY DEF CounterInv
      <4>3. QED
        BY <1>9, <4>1, <4>2
    <3>3. QED
      BY <2>1, <3>1, <3>2 DEF Written
  <2>4. QED
    BY <2>2, <2>3
<1>13. ASSUME NEW f \in Emails \ {e} PROVE Dropped(f)
  <2>1. CASE f \notin Evicted(e)
    <3>1. StateOf(f)' = StateOf(f)
      BY <1>3, <1>7, <1>8, <2>1, StateIs DEF HasAccount
    <3>2. Counted(f)' = Counted(f)
      BY <1>3, <1>9, <2>1 DEF Counted, HasAccount
    <3>3. (f \notin raced') => f \notin raced
      BY <1>3, <2>1
    <3>4. QED
      BY <3>1, <3>2, <3>3 DEF Dropped
  <2>2. CASE f \in Evicted(e)
    <3>1. StateOf(f)' = Fresh
      BY <1>3, <1>7, <1>8, <2>2, StateIs DEF HasAccount
    <3>2. Counted(f)' = 0
      <4>1. Counted(f)' = since'[f] - lost'[f]
        BY <1>3, <1>8, <2>2 DEF Counted, HasAccount
      <4>2. since'[f] = lost'[f] /\ since'[f] \in Nat
        BY <1>9, <2>2
      <4>3. QED
        BY <4>1, <4>2
    <3>3. (f \notin raced') => Writers(f) = {}
      BY <1>3, <2>2
    <3>4. QED
      BY <3>1, <3>2, <3>3 DEF Dropped
  <2>3. QED
    BY <2>1, <2>2
<1>14. next = NextLoginState(login[a].seen.throttle, login[a].began, ~x.failed)
  BY <1>2, <1>11
<1>15. x.failed \in BOOLEAN /\ x.pc \notin {"idle", "find", "verify"}
  BY <1>11
<1>16. Written(a, e, x.failed, next)
  BY <1>11, <1>12
<1>17. restarts' = restarts /\ login[a].pc = "verify" /\ login' = [login EXCEPT ![a] = x] /\ x.email = e
       /\ IsMap(bucket') /\ Len(bucket') <= MaxBuckets
  BY <1>3, <1>7, <1>11
<1>18. QED
  BY <1>1, <1>9, <1>10, <1>13, <1>14, <1>15, <1>16, <1>17, WriteCounted

LEMMA CreateSessionCounted ==
  ASSUME AuthInv, CounterInv, NEW a \in Attempts, CreateSession(a) \/ Respond(a)
  PROVE  CounterInv'
<1>1. /\ UNCHANGED <<account, bucket, restarts, since, lost, raced>>
      /\ InFlight(a) /\ IsLogin(login[a]) /\ login[a].answer \in Answers
  BY DEF CreateSession, Respond, historyVars, InFlight, AuthInv, LoginInv, IsLogin
<1>2. IsMap(bucket') /\ Len(bucket') <= MaxBuckets /\ Entries(bucket') = Entries(bucket)
  BY <1>1 DEF CounterInv
<1>3. \/ \E s \in Answers : login' = [login EXCEPT ![a] = Over(login[a], s)]
      \/ login' = Refused(a, "201")
  <2>1. \/ login' = Refused(a, "201") \/ login' = Answered(a, "error")
        \/ login' = Answered(a, login[a].answer)
    BY DEF CreateSession, Respond
  <2>2. "error" \in Answers
    BY DEF Answers
  <2>3. QED
    BY <1>1, <2>1, <2>2 DEF Answered
<1>4. ASSUME NEW s \in Answers, login' = [login EXCEPT ![a] = Over(login[a], s)]
      PROVE  CounterInv'
  <2>1. PICK x : x = Over(login[a], s)
    OBVIOUS
  <2>2. x.email = login[a].email /\ x.failed = login[a].failed /\ x.pc = "done"
    BY <1>1, <2>1, OverKeeps
  <2>3. QED
    BY <1>1, <1>2, <1>4, <2>1, <2>2, LoginMoves
<1>5. CASE login' = Refused(a, "201")
  <2> DEFINE x == [[login[a] EXCEPT !.pc = "audit"] EXCEPT !.answer = "201"]
  <2>1. login' = [login EXCEPT ![a] = x]
    BY <1>5 DEF Refused, AuthInv, Shapes
  <2>2. x.email = login[a].email /\ x.failed = login[a].failed /\ x.pc = "audit"
    BY <1>1 DEF IsLogin
  <2> HIDE DEF x
  <2>3. QED
    BY <1>1, <1>2, <2>1, <2>2, LoginMoves
<1>6. QED
  BY <1>3, <1>4, <1>5

(* The operator writes a counter without having read it: an address with a *)
(* login in flight has raced.                                              *)
LEMMA ProvisionCounted ==
  ASSUME AuthInv, CounterInv, NEW o \in Commands, Provision(o)
  PROVE  CounterInv'
<1>0. PICK e \in Emails : e = command[o].email
  BY DEF Provision, AuthInv, CommandInv
<1>1. PICK m : e = command[o].email /\ m = command[o].mode
  BY <1>0
<1>2. UNCHANGED <<bucket, restarts>>
  BY DEF Provision
<1>3. CASE m = "create" /\ HasAccount(e)
  BY <1>1, <1>2, <1>3, GateCounted DEF Provision, historyVars
<1>4. CASE ~(m = "create" /\ HasAccount(e))
  <2>1. PICK y : y = RowAfter(account[e], m, command[o].password)
    OBVIOUS
  <2>2. /\ account' = [account EXCEPT ![e] = y]
        /\ IF m = "deactivate" THEN UNCHANGED <<since, lost, raced>>
           ELSE Clear(e, Writers(e))
    BY <1>1, <1>4, <2>1 DEF Provision, historyVars
  <2>3. /\ account \in [Emails -> AccountRow \cup {None}]
        /\ account' \in [Emails -> AccountRow \cup {None}]
        /\ m \in {"create", "reset", "deactivate"}
        /\ m = "create" \/ HasAccount(e)
    <3>1. AuthInv'
      BY ProvisionSafe
    <3>2. QED
      BY <1>1, <3>1 DEF AuthInv, Shapes, CommandInv, Provision
  <2>4. /\ account'[e] = y
        /\ \A f \in Emails : (f # e) => account'[f] = account[f]
    BY <2>2, <2>3
  <2>5. /\ y # None
        /\ y.throttle = IF m = "deactivate" THEN StateOf(e) ELSE Fresh
    <3>1. CASE m = "create"
      <4>1. y = [active |-> TRUE, password |-> command[o].password, throttle |-> Fresh]
        BY <2>1, <3>1 DEF RowAfter, NewAccount
      <4>2. command[o].password \in Passwords /\ Fresh \in LoginState
        BY NoFailures DEF AuthInv, Shapes
      <4>3. y \in AccountRow
        BY <4>1, <4>2 DEF AccountRow
      <4>4. QED
        BY <3>1, <4>1, <4>3, NoneAssumption
    <3>2. CASE m # "create"
      <4>1. account[e] \in AccountRow /\ StateOf(e) = account[e].throttle
        BY <2>3, <3>2 DEF HasAccount, StateOf
      <4>2. command[o].password \in Passwords /\ Fresh \in LoginState
        BY NoFailures DEF AuthInv, Shapes
      <4>3. CASE m = "deactivate"
        <5>1. y = [account[e] EXCEPT !.active = FALSE]
          BY <2>1, <4>3 DEF RowAfter
        <5>2. y \in AccountRow /\ y.throttle = account[e].throttle
          BY <4>1, <5>1 DEF AccountRow
        <5>3. QED
          BY <4>1, <4>3, <5>2, NoneAssumption
      <4>4. CASE m = "reset"
        <5>1. y = [account[e] EXCEPT !.password = command[o].password, !.throttle = Fresh]
          BY <2>1, <4>4 DEF RowAfter
        <5>2. y \in AccountRow /\ y.throttle = Fresh
          BY <4>1, <4>2, <5>1 DEF AccountRow
        <5>3. QED
          BY <4>4, <5>2, NoneAssumption
      <4>5. QED
        BY <2>3, <3>2, <4>3, <4>4
    <3>3. QED
      BY <3>1, <3>2
  <2>6. /\ StateOf(e)' = IF m = "deactivate" THEN StateOf(e) ELSE Fresh
        /\ \A f \in Emails : (f # e) => StateOf(f)' = StateOf(f)
    BY <1>2, <2>4, <2>5, StateIs
  <2>7. \A a \in Attempts :
          /\ login'[a].pc = login[a].pc /\ login'[a].email = login[a].email
          /\ login'[a].failed = login[a].failed /\ login'[a].seen = login[a].seen
          /\ login'[a].known = login[a].known
    <3>1. ASSUME NEW a \in Attempts
          PROVE  \E g : login'[a] = [login[a] EXCEPT !.good = g]
      BY <1>1, <1>4 DEF Provision
    <3>2. \A a \in Attempts : IsLogin(login[a])
      BY DEF AuthInv, LoginInv
    <3>3. QED
      BY <3>1, <3>2 DEF IsLogin
  <2>8. \A f : Failed(f)' = Failed(f)
    BY <2>7 DEF Failed
  <2>9. \A f, s : Backed(f, s)' <=> Backed(f, s)
    BY <2>8 DEF Backed
  <2>10. /\ raced' \subseteq Emails
         /\ since' \in [Emails -> Nat] /\ lost' \in [Emails -> Nat]
         /\ \A f \in Emails : lost'[f] <= since'[f]
         /\ \A f \in Emails :
              (f # e \/ m = "deactivate") =>
                since'[f] = since[f] /\ lost'[f] = lost[f] /\ (f \in raced' <=> f \in raced)
         /\ (m # "deactivate") =>
              since'[e] = 0 /\ lost'[e] = 0 /\ (e \notin raced' => Writers(e) = {})
    <3>1. /\ since \in [Emails -> Nat] /\ lost \in [Emails -> Nat] /\ raced \subseteq Emails
          /\ \A f \in Emails : lost[f] <= since[f]
      BY DEF CounterInv
    <3>2. CASE m = "deactivate"
      BY <2>2, <3>1, <3>2
    <3>3. CASE m # "deactivate"
      <4>1. Clear(e, Writers(e))
        BY <2>2, <3>3
      <4>2. QED
        BY <3>1, <3>3, <4>1 DEF Clear
    <3>4. QED
      BY <3>2, <3>3
  <2>11. \A f \in Emails : IsFiniteSet(Failed(f))' /\ Backed(f, StateOf(f))'
    <3>1. SUFFICES ASSUME NEW f \in Emails
                   PROVE  IsFiniteSet(Failed(f))' /\ Backed(f, StateOf(f))'
      OBVIOUS
    <3>2. /\ IsFiniteSet(Failed(f)) /\ Backed(f, StateOf(f)) /\ Backed(f, Fresh)
      BY NoFailures DEF CounterInv
    <3>3. PICK s : s = StateOf(f)' /\ (s = StateOf(f) \/ s = Fresh)
      BY <2>6
    <3>4. Backed(f, s)'
      BY <2>9, <3>2, <3>3
    <3>5. QED
      BY <2>8, <3>2, <3>3, <3>4 DEF Backed
  <2>12. ASSUME NEW a \in Attempts PROVE Reading(a)'
    <3>1. Reading(a)
      BY DEF CounterInv
    <3>2. CASE login[a].pc # "verify"
      BY <2>7, <3>1, <3>2 DEF Reading
    <3>3. CASE login[a].pc = "verify"
      <4>0. PICK f \in Emails : f = login[a].email
        BY <3>3 DEF AuthInv, LoginInv, InFlight
      <4>1. PICK s : f = login[a].email /\ s = login[a].seen.throttle
        BY <4>0
      <4>2. Backed(f, s)' /\ ~login[a].failed /\ InFlight(a)
        BY <2>9, <3>1, <3>3, <4>1 DEF Reading, InFlight
      <4>3. ASSUME f \notin raced'
            PROVE  s = StateOf(f)' /\ login[a].known = HasAccount(f)'
        <5>1. a \in Writers(f)
          BY <4>1, <4>2 DEF Writers
        <5>2. (f # e \/ m = "deactivate") /\ f \notin raced
          BY <2>10, <4>3, <5>1
        <5>3. StateOf(f)' = StateOf(f) /\ HasAccount(f)' = HasAccount(f)
          BY <2>3, <2>4, <2>5, <2>6, <5>2 DEF HasAccount
        <5>4. QED
          BY <3>1, <3>3, <4>1, <5>2, <5>3 DEF Reading
      <4>4. QED
        BY <2>7, <4>1, <4>2, <4>3 DEF Reading
    <3>4. QED
      BY <3>2, <3>3
  <2>13. ASSUME NEW f \in Emails \ raced'
         PROVE  Counts(StateOf(f), Counted(f))' /\ Alone(f)'
    <3>1. PICK s, n : s = StateOf(f)' /\ n = Counted(f)'
      OBVIOUS
    <3>2. CASE f # e \/ m = "deactivate"
      <4>1. f \notin raced /\ Counts(StateOf(f), Counted(f)) /\ Alone(f)
        BY <2>10, <3>2 DEF CounterInv
      <4>2. s = StateOf(f)
        BY <2>6, <3>1, <3>2
      <4>3. HasAccount(f)' = HasAccount(f)
        BY <2>3, <2>4, <2>5, <3>2 DEF HasAccount
      <4>4. n = Counted(f)
        BY <2>10, <3>1, <3>2, <4>3 DEF Counted
      <4>5. Alone(f)'
        BY <2>7, <4>1 DEF Alone, InFlight
      <4>6. QED
        BY <3>1, <4>1, <4>2, <4>4, <4>5 DEF Counts
    <3>3. CASE f = e /\ m # "deactivate"
      <4>1. s = Fresh /\ n = 0 /\ Writers(f) = {}
        BY <2>6, <2>10, <3>1, <3>3 DEF Counted
      <4>2. Alone(f)'
        BY <2>7, <4>1 DEF Alone, InFlight, Writers
      <4>3. QED
        BY <3>1, <4>1, <4>2, NoFailures DEF Counts
    <3>4. QED
      BY <3>2, <3>3
  <2>14. QED
    BY <1>2, <2>10, <2>11, <2>12, <2>13 DEF CounterInv
<1>5. QED
  BY <1>3, <1>4

(* The map is gone, and with it the failures of unknown addresses.         *)
LEMMA RestartCounted ==
  ASSUME AuthInv, CounterInv, Restart
  PROVE  CounterInv'
<1>1. /\ UNCHANGED <<account, since>>
      /\ bucket' = <<>>
      /\ restarts < MaxRestarts /\ restarts' = restarts + 1
      /\ lost' = [e \in Emails |-> IF HasAccount(e) THEN lost[e] ELSE since[e]]
      /\ raced' = {e \in raced : HasAccount(e)}
  BY DEF Restart
<1>2. \A a \in Attempts :
        /\ login'[a].email = login[a].email /\ login'[a].failed = login[a].failed
        /\ ~InFlight(a)'
        /\ (login'[a].pc = "idle") => login'[a] = login[a]
  <2>1. SUFFICES ASSUME NEW a \in Attempts
                 PROVE  /\ login'[a].email = login[a].email
                        /\ login'[a].failed = login[a].failed
                        /\ ~InFlight(a)'
                        /\ (login'[a].pc = "idle") => login'[a] = login[a]
    OBVIOUS
  <2>2. login'[a] = IF InFlight(a) THEN Over(login[a], "lost") ELSE login[a]
    BY DEF Restart
  <2>3. CASE InFlight(a)
    <3>1. PICK x : /\ x = Over(login[a], "lost") /\ x.email = login[a].email
                   /\ x.failed = login[a].failed /\ x.pc = "done"
      BY OverKeeps DEF AuthInv, LoginInv, Answers
    <3>2. QED
      BY <2>2, <2>3, <3>1 DEF InFlight
  <2>4. CASE ~InFlight(a)
    BY <2>2, <2>4 DEF InFlight
  <2>5. QED
    BY <2>3, <2>4
<1>3. /\ IsMap(bucket') /\ Len(bucket') <= MaxBuckets
      /\ \A e : StateIn(bucket', e) = Fresh
  BY <1>1, AuthAssumption DEF IsMap, StateIn, Held
<1>4. \A e \in Emails : StateOf(e)' = IF HasAccount(e) THEN StateOf(e) ELSE Fresh
  BY <1>1, <1>3, StateIs DEF HasAccount
<1>5. /\ restarts' \in 0 .. MaxRestarts /\ raced' \subseteq Emails
      /\ since' \in [Emails -> Nat] /\ lost' \in [Emails -> Nat]
      /\ \A f \in Emails : lost'[f] <= since'[f]
  BY <1>1, AuthAssumption DEF CounterInv
<1>6. \A f : Failed(f)' = Failed(f)
  BY <1>2 DEF Failed
<1>7. \A f, s : Backed(f, s)' <=> Backed(f, s)
  BY <1>6 DEF Backed
<1>8. \A f \in Emails : IsFiniteSet(Failed(f))' /\ Backed(f, StateOf(f))'
  <2>1. SUFFICES ASSUME NEW f \in Emails
                 PROVE  IsFiniteSet(Failed(f))' /\ Backed(f, StateOf(f))'
    OBVIOUS
  <2>2. IsFiniteSet(Failed(f)) /\ Backed(f, StateOf(f)) /\ Backed(f, Fresh)
    BY NoFailures DEF CounterInv
  <2>3. PICK s : s = StateOf(f)' /\ (s = StateOf(f) \/ s = Fresh)
    BY <1>4
  <2>4. Backed(f, s)'
    BY <1>7, <2>2, <2>3
  <2>5. QED
    BY <1>6, <2>2, <2>3, <2>4 DEF Backed
<1>9. \A a \in Attempts : Reading(a)'
  BY <1>2 DEF CounterInv, Reading, InFlight
<1>10. ASSUME NEW f \in Emails \ raced'
       PROVE  Counts(StateOf(f), Counted(f))' /\ Alone(f)'
  <2>1. PICK s, n : s = StateOf(f)' /\ n = Counted(f)'
    OBVIOUS
  <2>2. CASE HasAccount(f)
    <3>1. s = StateOf(f) /\ n = Counted(f)
      BY <1>1, <1>4, <2>1, <2>2 DEF Counted, HasAccount
    <3>2. Counts(s, n)
      BY <1>1, <2>2, <3>1 DEF CounterInv
    <3>3. QED
      BY <1>2, <2>1, <3>2 DEF Counts, Alone
  <2>3. CASE ~HasAccount(f)
    <3>1. s = Fresh
      BY <1>4, <2>1, <2>3
    <3>2. n = since[f] - since[f] /\ since[f] \in Nat
      BY <1>1, <2>1, <2>3 DEF CounterInv, Counted, HasAccount
    <3>3. Counts(s, n)
      BY <3>1, <3>2, NoFailures
    <3>4. QED
      BY <1>2, <2>1, <3>3 DEF Counts, Alone
  <2>4. QED
    BY <2>2, <2>3
<1>11. QED
  BY <1>3, <1>5, <1>8, <1>9, <1>10 DEF CounterInv

LEMMA CounterInit == Init => CounterInv
<1> SUFFICES ASSUME Init PROVE CounterInv
  OBVIOUS
<1>1. /\ IsMap(bucket) /\ Len(bucket) <= MaxBuckets
      /\ \A e : StateIn(bucket, e) = Fresh
  BY AuthAssumption DEF Init, IsMap, StateIn, Held
<1>2. \A a \in Attempts : login[a] = NoLogin /\ login[a].pc = "idle" /\ login[a].failed = FALSE
  BY DEF Init, NoLogin
<1>3. \A e : Failed(e) = {}
  BY <1>2 DEF Failed
<1>4. \A e : IsFiniteSet(Failed(e))
  BY <1>3, FS_EmptySet
<1>5. \A e \in Emails : StateOf(e) = Fresh
  <2>1. \A e \in Emails : account[e] # None => account[e].throttle = Fresh
    BY DEF Init, NewAccount
  <2>2. QED
    BY <1>1, <2>1, StateIs
<1>6. \A a \in Attempts : Reading(a)
  BY <1>2 DEF Reading
<1>7. ASSUME NEW e \in Emails
      PROVE  Counts(StateOf(e), Counted(e)) /\ Alone(e)
  <2>1. Counted(e) = 0
    BY DEF Init, Counted
  <2>2. QED
    BY <1>2, <1>5, <2>1, NoFailures DEF Alone, InFlight
<1>8. /\ restarts \in 0 .. MaxRestarts /\ raced \subseteq Emails
      /\ since \in [Emails -> Nat] /\ lost \in [Emails -> Nat]
      /\ \A e \in Emails : lost[e] <= since[e]
  BY AuthAssumption DEF Init
<1>9. QED
  BY <1>1, <1>4, <1>5, <1>6, <1>7, <1>8, NoFailures DEF CounterInv

LEMMA CounterStep == AuthInv /\ CounterInv /\ [Next]_vars => CounterInv'
<1> SUFFICES ASSUME AuthInv, CounterInv, [Next]_vars PROVE CounterInv'
  OBVIOUS
<1>1. ASSUME NEW a \in Attempts, Submit(a) \/ HandleLogin(a) PROVE CounterInv'
  BY <1>1, SubmitCounted, FindByEmailCounted, UpdateLoginStateCounted,
     RememberUnknownCounted, CreateSessionCounted DEF HandleLogin
<1>2. ASSUME NEW l \in Logouts, Logout(l) \/ FindRevocable(l) \/ RevokeSession(l)
      PROVE  CounterInv'
  BY <1>2, GateCounted DEF Logout, FindRevocable, RevokeSession, historyVars
<1>3. ASSUME NEW c \in Checks, Request(c) \/ CheckSession(c) PROVE CounterInv'
  BY <1>3, GateCounted DEF Request, CheckSession, historyVars
<1>4. ASSUME NEW o \in Commands, FindExisting(o) \/ Provision(o) PROVE CounterInv'
  BY <1>4, ProvisionCounted, GateCounted DEF FindExisting, historyVars
<1>5. CASE Tick
  BY <1>5, GateCounted DEF Tick, requestVars, historyVars
<1>6. CASE Restart
  BY <1>6, RestartCounted
<1>7. CASE UNCHANGED vars
  BY <1>7, GateCounted DEF vars, requestVars, historyVars
<1>8. QED
  BY <1>1, <1>2, <1>3, <1>4, <1>5, <1>6, <1>7 DEF Next

(* A session ends at most its length after the last tick.                  *)
Expires(s) == (s # None) => s.expires <= MaxTime + Ttl

LEMMA ExpiryStep ==
  ASSUME AuthInv, \A t \in Attempts : Expires(session[t]), [Next]_vars
  PROVE  \A t \in Attempts : Expires(session'[t])
<1>1. session \in [Attempts -> SessionRow \cup {None}]
  BY DEF AuthInv, Shapes
<1>2. CASE session' = session
  BY <1>2
<1>3. ASSUME NEW a \in Attempts, CreateSession(a)
      PROVE  \A t \in Attempts : Expires(session'[t])
  <2>1. login[a].began \in 0 .. MaxTime
    BY DEF AuthInv, LoginInv, IsLogin
  <2> DEFINE n == [email |-> login[a].email, expires |-> login[a].began + Ttl,
                   revoked |-> FALSE]
  <2>2. Expires(n)
    BY <2>1, AuthAssumption DEF Expires
  <2>3. session' = session \/ session' = [session EXCEPT ![a] = n]
    BY <1>3 DEF CreateSession
  <2> HIDE DEF n
  <2>4. QED
    BY <1>1, <2>2, <2>3
<1>4. ASSUME NEW l \in Logouts, RevokeSession(l)
      PROVE  \A t \in Attempts : Expires(session'[t])
  <2>1. PICK u \in Attempts : u = logout[l].token /\ session[u] \in SessionRow
    BY <1>1, <1>4 DEF RevokeSession, AuthInv, LogoutInv, LoginInv, HandedOut
  <2> DEFINE n == [session[u] EXCEPT !.revoked = TRUE]
  <2>2. Expires(n)
    BY <2>1, NoneAssumption DEF Expires, SessionRow
  <2>3. session' = session \/ session' = [session EXCEPT ![u] = n]
    BY <1>1, <1>4, <2>1 DEF RevokeSession
  <2> HIDE DEF n
  <2>4. QED
    BY <1>1, <2>2, <2>3
<1>5. \/ session' = session
      \/ \E a \in Attempts : CreateSession(a)
      \/ \E l \in Logouts : RevokeSession(l)
  BY DEF Next, vars, Submit, HandleLogin, FindByEmail, UpdateLoginState, RememberUnknown,
         Respond, Logout, FindRevocable, Request, CheckSession, FindExisting, Provision,
         Tick, Restart
<1>6. QED
  BY <1>2, <1>3, <1>4, <1>5

LEMMA CounterAlways ==
  Spec => [](AuthInv /\ CounterInv /\ \A t \in Attempts : Expires(session[t]))
<1>1. Init => \A t \in Attempts : Expires(session[t])
  BY DEF Init, Expires
<1>2. AuthInv /\ (\A t \in Attempts : Expires(session[t])) /\ [Next]_vars
        => (\A t \in Attempts : Expires(session[t]))'
  BY ExpiryStep
<1>3. QED
  BY <1>1, <1>2, AuthInit, AuthStep, CounterInit, CounterStep, PTL DEF Spec

(* Every variable has its type: the stored counters stay below the         *)
(* threshold, and the map within its bound with one entry to an address.   *)
THEOREM WellTyped == Spec => []TypeOK
<1>1. ASSUME AuthInv, CounterInv, \A t \in Attempts : Expires(session[t])
      PROVE  TypeOK
  <2>1. /\ now \in 0 .. MaxTime
        /\ account \in [Emails -> AccountRow \cup {None}]
    BY <1>1 DEF AuthInv, Shapes
  <2>2. /\ Len(bucket) <= MaxBuckets
        /\ \A i \in DOMAIN bucket :
             /\ bucket[i] \in [email : Emails, state : LoginState]
             /\ \A j \in DOMAIN bucket : bucket[i].email = bucket[j].email => i = j
    <3>1. /\ DOMAIN bucket = 1 .. Len(bucket)
          /\ \A i \in 1 .. Len(bucket) : bucket[i] \in Entry
          /\ \A i, j \in 1 .. Len(bucket) : (bucket[i].email = bucket[j].email) => i = j
      BY <1>1 DEF CounterInv, IsMap
    <3>2. QED
      BY <1>1, <3>1 DEF CounterInv, Entry
  <2>3. ASSUME NEW a \in Attempts
        PROVE  /\ login[a].pc \in {"idle", "find", "verify", "session", "audit", "done"}
               /\ login[a].answer \in {"none", "201", "401", "429", "error", "lost"}
               /\ session[a] # None =>
                    session[a] \in SessionRow /\ session[a].expires <= MaxTime + Ttl
    BY <1>1 DEF AuthInv, Shapes, LoginInv, IsLogin, LoginStates, Answers, Expires
  <2>4. /\ \A l \in Logouts :
             logout[l].pc \in {"idle", "find", "revoke", "204", "error", "lost"}
        /\ \A c \in Checks :
             check[c].pc \in {"idle", "find", "passed", "401", "503", "lost"}
        /\ \A o \in Commands :
             command[o].pc \in {"idle", "write", "done", "failed"}
    BY <1>1 DEF AuthInv, Shapes
  <2>5. /\ restarts \in 0 .. MaxRestarts
        /\ {since, lost} \subseteq [Emails -> Nat]
        /\ raced \subseteq Emails
    BY <1>1 DEF CounterInv
  <2>6. QED
    BY <2>1, <2>2, <2>3, <2>4, <2>5 DEF TypeOK
<1>2. QED
  BY <1>1, CounterAlways, PTL

(* Nobody is throttled who failed fewer times than the threshold, although *)
(* a counter is written from one that other logins may have replaced since *)
(* it was read.                                                            *)
THEOREM Throttling == Spec => []ThrottledOnlyAfterFailures
<1>1. CounterInv => ThrottledOnlyAfterFailures
  BY DEF CounterInv, Backed, Failed, ThrottledOnlyAfterFailures
<1>2. QED
  BY <1>1, CounterAlways, PTL

(* A counter is the number of failures since the last success or reset,    *)
(* modulo the threshold.  Only these are missing: of an unknown address    *)
(* those before a restart or before its entry was the oldest of a full map *)
(* and another address came, and after an overlap of writers those up to   *)
(* the next success or reset that overlaps no writer.                      *)
THEOREM Counting == Spec => []FailuresCounted
<1>1. CounterInv => FailuresCounted
  BY DEF CounterInv, Counts, FailuresCounted
<1>2. QED
  BY <1>1, CounterAlways, PTL
=============================================================================
