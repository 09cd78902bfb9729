---------------------------- MODULE ReviewerAuth ----------------------------
(***************************************************************************)
(* Reviewer accounts and sessions: the login, logout and session check of  *)
(* auth-contract.mjs, the rows reviewer-repository.mjs keeps, and the      *)
(* operator's seed-reviewer.mjs, which runs in a process of its own.       *)
(*                                                                         *)
(* An action is the code between two awaits, beginning with the answer of  *)
(* the call it waited for.  A password is compared with the hash that was  *)
(* read before the comparison was awaited, and the counter that was read   *)
(* with it is written back after it.  Requests the input validation turns  *)
(* down, the audit events (nothing reads them) and a missing DATABASE_URL  *)
(* change nothing and are left out.                                        *)
(***************************************************************************)
EXTENDS Integers, Sequences, FiniteSets, SequencesExt

CONSTANTS
  Emails,       \* normalized addresses
  Seeded,       \* those with an account when the API starts
  Passwords,    \* passwords, compared through their argon2id hash
  First,        \* the password of the seeded accounts
  Attempts,     \* login requests; a session token is known by its login
  Logouts,      \* logout requests
  Checks,       \* protected requests
  Commands,     \* runs of the seed-reviewer command
  Modes,        \* what the operator does: "create", "reset", "deactivate"
  Threshold,    \* FAILED_LOGIN_THRESHOLD
  Window,       \* THROTTLE_WINDOW_MS, in ticks of the clock
  Ttl,          \* SESSION_TTL_MS, in ticks of the clock
  MaxBuckets,   \* UNKNOWN_EMAIL_BUCKET_MAX_ENTRIES
  DbOutcomes,   \* how a database call may end: "ok", "error", "lost"
  MaxTime,      \* bound of the clock
  MaxRestarts,  \* bound of the restarts of the API process
  None

ASSUME AuthAssumption ==
  /\ Seeded \subseteq Emails
  /\ First \in Passwords
  /\ Modes \subseteq {"create", "reset", "deactivate"}
  /\ {Threshold, Window, Ttl, MaxBuckets} \subseteq Nat \ {0}
  /\ {MaxTime, MaxRestarts} \subseteq Nat
  /\ DbOutcomes \subseteq {"ok", "error", "lost"}
  /\ None \notin Emails \cup Attempts

VARIABLES
  now,       \* the clock
  account,   \* reviewer rows
  bucket,    \* unknownEmailThrottleBuckets, least recently used first
  session,   \* reviewer_session rows, by the login that created them
  login, logout, check, command,   \* the requests and where they are
  restarts,
  since,     \* history: failures of an address since a success or a reset
  lost,      \* history: how many of them an eviction or a restart forgot
  raced      \* history: addresses whose counter overlapping writers spoilt

requestVars == <<login, logout, check, command>>
historyVars == <<since, lost, raced>>
vars == <<now, account, bucket, session, requestVars, restarts, historyVars>>

(* failed_login_count and throttled_until; time 0 stands for NULL, as both *)
(* mean that nothing is throttled.                                         *)
Fresh == [count |-> 0, until |-> 0]
LoginState == [count : 0 .. Threshold - 1, until : 0 .. MaxTime + Window]

AccountRow == [active : BOOLEAN, password : Passwords, throttle : LoginState]
SessionRow == [email : Emails, expires : Nat, revoked : BOOLEAN]

ASSUME NoneAssumption == None \notin AccountRow \cup SessionRow

NewAccount(p) == [active |-> TRUE, password |-> p, throttle |-> Fresh]

HasAccount(e) == account[e] # None
InFlight(a) == login[a].pc \notin {"idle", "done"}
Writers(e) == {a \in Attempts : InFlight(a) /\ login[a].email = e}

NoLogin ==
  [pc |-> "idle", email |-> None, given |-> First, began |-> 0, seen |-> None,
   known |-> FALSE, answer |-> "none", failed |-> FALSE, good |-> FALSE]

NoCommand ==
  [pc |-> "idle", mode |-> "create", email |-> None, password |-> First]

Init ==
  /\ now = 0
  /\ account = [e \in Emails |-> IF e \in Seeded THEN NewAccount(First) ELSE None]
  /\ bucket = <<>>
  /\ session = [a \in Attempts |-> None]
  /\ login = [a \in Attempts |-> NoLogin]
  /\ logout = [l \in Logouts |-> [pc |-> "idle", token |-> None]]
  /\ check = [c \in Checks |->
                [pc |-> "idle", token |-> None, at |-> 0, doomed |-> FALSE]]
  /\ command = [o \in Commands |-> NoCommand]
  /\ restarts = 0
  /\ since = [e \in Emails |-> 0]
  /\ lost = [e \in Emails |-> 0]
  /\ raced = {}

-----------------------------------------------------------------------------
(* The throttle policy, and the map it is kept in for unknown addresses.   *)

Throttled(s, t) == s.until > t

(* Variant: the counter is not cleared when the window opens.              *)
NextLoginStateUncapped(s, t, succeeded) ==
  IF succeeded THEN Fresh
  ELSE IF s.count + 1 >= Threshold
       THEN [count |-> s.count + 1, until |-> t + Window]
       ELSE [s EXCEPT !.count = @ + 1]

(* Variant: one failure too few.                                           *)
NextLoginStateEarly(s, t, succeeded) ==
  IF succeeded THEN Fresh
  ELSE IF s.count + 1 >= Threshold - 1
       THEN [count |-> 0, until |-> t + Window]
       ELSE [s EXCEPT !.count = @ + 1]

(* nextThrottleState.                                                      *)
NextLoginState(s, t, succeeded) ==
  IF succeeded THEN Fresh
  ELSE IF s.count + 1 >= Threshold
       THEN [count |-> 0, until |-> t + Window]
       ELSE [s EXCEPT !.count = @ + 1]

Remembered(e) == \E i \in DOMAIN bucket : bucket[i].email = e
Position(e) == CHOOSE i \in DOMAIN bucket : bucket[i].email = e
Without(e) == IF Remembered(e) THEN RemoveAt(bucket, Position(e)) ELSE bucket
BucketState(e) == IF Remembered(e) THEN bucket[Position(e)].state ELSE Fresh

(* getUnknownEmailBucketState: a known entry becomes the most recent one.  *)
Touched(e) ==
  IF Remembered(e)
  THEN Append(Without(e), [email |-> e, state |-> BucketState(e)])
  ELSE bucket

(* Variant: a full map takes no new address.                               *)
StoredWhileRoom(e, s) ==
  LET b == Append(Without(e), [email |-> e, state |-> s])
  IN IF Len(b) > MaxBuckets THEN bucket ELSE b

(* setUnknownEmailBucketState: the entry is put last and the oldest one    *)
(* goes when there are too many.                                           *)
Stored(e, s) ==
  LET b == Append(Without(e), [email |-> e, state |-> s])
  IN IF Len(b) > MaxBuckets THEN Tail(b) ELSE b

(* History: the address whose failures storing an entry for e forgets. The *)
(* oldest entry has to go when the map is full and e is new to it.         *)
Evicted(e) ==
  IF Remembered(e) \/ Len(bucket) < MaxBuckets THEN {}
  ELSE {f \in {bucket[1].email} : ~HasAccount(f)}

-----------------------------------------------------------------------------
(* POST /api/v1/auth/sessions.                                             *)

Matches(e, p) == HasAccount(e) /\ account[e].active /\ account[e].password = p

(* History: one more writer of the counter of e.                           *)
Meet(e) ==
  /\ raced' = IF Writers(e) = {} THEN raced ELSE raced \cup {e}
  /\ UNCHANGED <<since, lost>>

(* History: the failures of e no longer count; what overlapping writers did*)
(* to the counter is undone, unless one of them is still to write.         *)
Clear(e, others) ==
  /\ since' = [since EXCEPT ![e] = 0]
  /\ lost' = [lost EXCEPT ![e] = 0]
  /\ raced' = IF others = {} THEN raced \ {e} ELSE raced \cup {e}

Submit(a) ==
  /\ login[a].pc = "idle"
  /\ \E e \in Emails, p \in Passwords :
       /\ login' = [login EXCEPT ![a] =
            [NoLogin EXCEPT !.pc = "find", !.email = e, !.given = p,
                            !.began = now, !.good = Matches(e, p)]]
       /\ Meet(e)
  /\ UNCHANGED <<now, account, bucket, session, logout, check, command,
                 restarts>>

(* The request is over: of its locals only what the properties speak about *)
(* is kept.                                                                *)
Over(q, s) ==
  [NoLogin EXCEPT !.pc = "done", !.answer = s, !.email = q.email,
                  !.failed = q.failed, !.good = q.good]

Answered(a, s) == [login EXCEPT ![a] = Over(@, s)]
Refused(a, s) == [login EXCEPT ![a].pc = "audit", ![a].answer = s]

(* findByEmail answers; then evaluateThrottle on the state it read, or on  *)
(* the entry of the map when nobody has the address.                       *)
FindByEmail(a) ==
  /\ login[a].pc = "find"
  /\ LET e == login[a].email
         seen == IF HasAccount(e) THEN account[e].throttle ELSE BucketState(e)
     IN \E o \in DbOutcomes :
          IF o # "ok"
          THEN login' = Answered(a, "error") /\ UNCHANGED bucket
          ELSE /\ bucket' = IF HasAccount(e) THEN bucket ELSE Touched(e)
               /\ login' = IF Throttled(seen, login[a].began)
                           THEN Refused(a, "429")
                           ELSE [login EXCEPT ![a].pc = "verify",
                                   ![a].known = HasAccount(e),
                                   ![a].seen = IF HasAccount(e) THEN account[e]
                                               ELSE [throttle |-> seen]]
  /\ UNCHANGED <<now, account, session, logout, check, command, restarts,
                 historyVars>>

(* Variant: a deactivated reviewer with the right password gets in.        *)
SucceededUnchecked(a) == login[a].given = login[a].seen.password

Succeeded(a) ==
  /\ login[a].given = login[a].seen.password
  /\ login[a].seen.active

(* verifyPassword has answered for the hash read before, and               *)
(* updateLoginState has replaced the counter by the successor of the one   *)
(* read before.                                                            *)
UpdateLoginState(a) ==
  /\ login[a].pc = "verify"
  /\ login[a].known
  /\ LET e == login[a].email
         next == NextLoginState(login[a].seen.throttle, login[a].began, Succeeded(a))
     IN \E o \in DbOutcomes :
          /\ IF o = "error" THEN UNCHANGED <<account, historyVars>>
             ELSE /\ account' = [account EXCEPT ![e].throttle = next]
                  /\ IF Succeeded(a) THEN Clear(e, Writers(e) \ {a})
                     ELSE /\ since' = [since EXCEPT ![e] = @ + 1]
                          /\ UNCHANGED <<lost, raced>>
          /\ LET written == [login[a] EXCEPT !.failed = o # "error" /\ ~Succeeded(a)]
             IN login' = [login EXCEPT ![a] =
                  IF o # "ok" THEN Over(written, "error")
                  ELSE IF Succeeded(a) THEN [written EXCEPT !.pc = "session"]
                  ELSE [written EXCEPT !.pc = "audit", !.answer = "401"]]
  /\ UNCHANGED <<now, bucket, session, logout, check, command, restarts>>

(* The burned verifyPassword has answered for an unknown address, and the  *)
(* map is given the successor of the state read before.                    *)
RememberUnknown(a) ==
  /\ login[a].pc = "verify"
  /\ ~login[a].known
  /\ LET e == login[a].email IN
       /\ bucket' = Stored(e, NextLoginState(login[a].seen.throttle, login[a].began, FALSE))
       /\ since' = [since EXCEPT ![e] = @ + 1]
       /\ lost' = [f \in Emails |-> IF f \in Evicted(e) THEN since[f] ELSE lost[f]]
       /\ raced' = (raced \ Evicted(e)) \cup {f \in Evicted(e) : Writers(f) # {}}
       /\ login' = [Refused(a, "401") EXCEPT ![a].failed = TRUE]
  /\ UNCHANGED <<now, account, session, logout, check, command, restarts>>

(* generateSessionToken counts the expiry from the start of the request.   *)
CreateSession(a) ==
  /\ login[a].pc = "session"
  /\ \E o \in DbOutcomes :
       /\ session' = IF o = "error" THEN session
                     ELSE [session EXCEPT ![a] =
                            [email |-> login[a].email,
                             expires |-> login[a].began + Ttl, revoked |-> FALSE]]
       /\ login' = IF o = "ok" THEN Refused(a, "201") ELSE Answered(a, "error")
  /\ UNCHANGED <<now, account, bucket, logout, check, command, restarts,
                 historyVars>>

(* The last awaits before the response: a refused request looks the        *)
(* address up again, outside any try block, and the audit event is written *)
(* on a best-effort basis.                                                 *)
Respond(a) ==
  /\ login[a].pc = "audit"
  /\ \/ login' = Answered(a, login[a].answer)
     \/ /\ login[a].answer # "201"
        /\ DbOutcomes # {"ok"}
        /\ login' = Answered(a, "error")
  /\ UNCHANGED <<now, account, bucket, session, logout, check, command,
                 restarts, historyVars>>

-----------------------------------------------------------------------------
(* DELETE /api/v1/auth/sessions/current, with the token of a session the   *)
(* API has handed out.                                                     *)

HandedOut(t) == login[t].pc = "done" /\ login[t].answer = "201"

Logout(l) ==
  /\ logout[l].pc = "idle"
  /\ \E t \in Attempts :
       /\ HandedOut(t)
       /\ logout' = [logout EXCEPT ![l] = [pc |-> "find", token |-> t]]
  /\ UNCHANGED <<now, account, bucket, session, login, check, command, restarts,
                 historyVars>>

LogoutEnds(l, s) == logout' = [logout EXCEPT ![l].pc = s]

(* findSessionByHash: a session that is revoked already needs no update.   *)
FindRevocable(l) ==
  /\ logout[l].pc = "find"
  /\ \E o \in DbOutcomes :
       LogoutEnds(l, IF o # "ok" THEN "error"
                     ELSE IF session[logout[l].token].revoked THEN "204"
                     ELSE "revoke")
  /\ UNCHANGED <<now, account, bucket, session, login, check, command, restarts,
                 historyVars>>

(* Variant: the outcome of the update is not awaited.                      *)
RevokeSessionUnawaited(l) ==
  /\ logout[l].pc = "revoke"
  /\ \E o \in DbOutcomes :
       session' = IF o = "error" THEN session
                  ELSE [session EXCEPT ![logout[l].token].revoked = TRUE]
  /\ LogoutEnds(l, "204")
  /\ UNCHANGED <<now, account, bucket, login, check, command, restarts,
                 historyVars>>

(* revokeSession: idempotent, and the answer waits for it.                 *)
RevokeSession(l) ==
  /\ logout[l].pc = "revoke"
  /\ \E o \in DbOutcomes :
       /\ session' = IF o = "error" THEN session
                     ELSE [session EXCEPT ![logout[l].token].revoked = TRUE]
       /\ LogoutEnds(l, IF o = "ok" THEN "204" ELSE "error")
  /\ UNCHANGED <<now, account, bucket, login, check, command, restarts,
                 historyVars>>

-----------------------------------------------------------------------------
(* The gate of every other route: checkRequestSession and SessionGuard.    *)

Usable(t, at) ==
  /\ session[t] # None
  /\ ~session[t].revoked
  /\ account[session[t].email].active
  /\ session[t].expires > at

(* The time is taken before the session is read.                           *)
Request(c) ==
  /\ check[c].pc = "idle"
  /\ \E t \in Attempts :
       /\ HandedOut(t)
       /\ check' = [check EXCEPT ![c] =
            [pc |-> "find", token |-> t, at |-> now, doomed |-> ~Usable(t, now)]]
  /\ UNCHANGED <<now, account, bucket, session, login, logout, command, restarts,
                 historyVars>>

(* Variant: the login is trusted to have looked at is_active.              *)
CheckSessionTrusting(c) ==
  /\ check[c].pc = "find"
  /\ \E o \in DbOutcomes :
       check' = [check EXCEPT ![c].pc =
         IF o # "ok" THEN "503"
         ELSE IF /\ ~session[check[c].token].revoked
                 /\ session[check[c].token].expires > check[c].at
              THEN "passed" ELSE "401"]
  /\ UNCHANGED <<now, account, bucket, session, login, logout, command, restarts,
                 historyVars>>

(* findSessionByHash joins the reviewer row; then revocation, activity and *)
(* expiry are looked at.  A database that does not answer denies as well.  *)
CheckSession(c) ==
  /\ check[c].pc = "find"
  /\ \E o \in DbOutcomes :
       check' = [check EXCEPT ![c].pc =
         IF o # "ok" THEN "503"
         ELSE IF Usable(check[c].token, check[c].at) THEN "passed" ELSE "401"]
  /\ UNCHANGED <<now, account, bucket, session, login, logout, command, restarts,
                 historyVars>>

-----------------------------------------------------------------------------
(* The operator's command: look the address up, hash, write.  The password *)
(* it sets is a new one.                                                   *)

(* The first await has answered, and nothing was done before it.  Creating *)
(* wants a free address, the other modes want an account.                  *)
FindExisting(o) ==
  /\ command[o].pc = "idle"
  /\ \E m \in Modes, e \in Emails, p \in Passwords \ {First} :
       command' = [command EXCEPT ![o] =
         IF HasAccount(e) <=> (m # "create")
         THEN [pc |-> "write", mode |-> m, email |-> e, password |-> p]
         ELSE [NoCommand EXCEPT !.pc = "failed"]]
  /\ UNCHANGED <<now, account, bucket, session, login, logout, check, restarts,
                 historyVars>>

(* createReviewer, setActive and resetPassword.                            *)
RowAfter(r, m, p) ==
  CASE m = "create" -> NewAccount(p)
    [] m = "deactivate" -> [r EXCEPT !.active = FALSE]
    [] m = "reset" -> [r EXCEPT !.password = p, !.throttle = Fresh]

(* The write; the unique address makes a second creation fail.             *)
Provision(o) ==
  /\ command[o].pc = "write"
  /\ LET m == command[o].mode
         e == command[o].email
     IN IF m = "create" /\ HasAccount(e)
        THEN /\ command' = [command EXCEPT ![o] = [NoCommand EXCEPT !.pc = "failed"]]
             /\ UNCHANGED <<account, login, historyVars>>
        ELSE /\ account' = [account EXCEPT ![e] = RowAfter(@, m, command[o].password)]
             /\ command' = [command EXCEPT ![o] = [NoCommand EXCEPT !.pc = "done"]]
             /\ login' = [a \in Attempts |->
                  [login[a] EXCEPT !.good =
                     @ \/ (/\ InFlight(a)
                           /\ login[a].email = e
                           /\ account'[e].active
                           /\ account'[e].password = login[a].given)]]
             /\ IF m = "deactivate" THEN UNCHANGED historyVars
                ELSE Clear(e, Writers(e))
  /\ UNCHANGED <<now, bucket, session, logout, check, restarts>>

-----------------------------------------------------------------------------

Tick ==
  /\ now < MaxTime
  /\ now' = now + 1
  /\ UNCHANGED <<account, bucket, session, requestVars, restarts, historyVars>>

(* The API restarts while it has something to lose: the requests in flight *)
(* and the map are gone.                                                   *)
Restart ==
  /\ restarts < MaxRestarts
  /\ bucket # <<>> \/ \E a \in Attempts : InFlight(a)
  /\ restarts' = restarts + 1
  /\ bucket' = <<>>
  /\ login' = [a \in Attempts |->
       IF InFlight(a) THEN Over(login[a], "lost") ELSE login[a]]
  /\ logout' = [l \in Logouts |->
       [logout[l] EXCEPT !.pc = IF @ \in {"find", "revoke"} THEN "lost" ELSE @]]
  /\ check' = [c \in Checks |->
       [check[c] EXCEPT !.pc = IF @ = "find" THEN "lost" ELSE @]]
  /\ lost' = [e \in Emails |-> IF HasAccount(e) THEN lost[e] ELSE since[e]]
  /\ raced' = {e \in raced : HasAccount(e)}
  /\ UNCHANGED <<now, account, session, command, since>>

HandleLogin(a) ==
  \/ FindByEmail(a)
  \/ UpdateLoginState(a)
  \/ RememberUnknown(a)
  \/ CreateSession(a)
  \/ Respond(a)

Next ==
  \/ \E a \in Attempts : Submit(a)
  \/ \E a \in Attempts : HandleLogin(a)
  \/ \E l \in Logouts : Logout(l) \/ FindRevocable(l) \/ RevokeSession(l)
  \/ \E c \in Checks : Request(c) \/ CheckSession(c)
  \/ \E o \in Commands : FindExisting(o) \/ Provision(o)
  \/ Tick
  \/ Restart

Spec == Init /\ [][Next]_vars

-----------------------------------------------------------------------------
(* Properties.                                                             *)

(* Every variable has its type; the stored counter stays below the         *)
(* threshold, the map within its bound, one entry to an address.           *)
TypeOK ==
  /\ now \in 0 .. MaxTime
  /\ account \in [Emails -> AccountRow \cup {None}]
  /\ Len(bucket) <= MaxBuckets
  /\ \A i \in DOMAIN bucket :
       /\ bucket[i] \in [email : Emails, state : LoginState]
       /\ \A j \in DOMAIN bucket : bucket[i].email = bucket[j].email => i = j
  /\ \A a \in Attempts :
       /\ login[a].pc \in {"idle", "find", "verify", "session", "audit", "done"}
       /\ login[a].answer \in {"none", "201", "401", "429", "error", "lost"}
       /\ session[a] # None =>
            session[a] \in SessionRow /\ session[a].expires <= MaxTime + Ttl
  /\ \A l \in Logouts :
       logout[l].pc \in {"idle", "find", "revoke", "204", "error", "lost"}
  /\ \A c \in Checks :
       check[c].pc \in {"idle", "find", "passed", "401", "503", "lost"}
  /\ \A o \in Commands :
       command[o].pc \in {"idle", "write", "done", "failed"}
  /\ restarts \in 0 .. MaxRestarts
  /\ {since, lost} \subseteq [Emails -> Nat]
  /\ raced \subseteq Emails

StateOf(e) == IF HasAccount(e) THEN account[e].throttle ELSE BucketState(e)

(* Nobody is throttled who failed fewer times than the threshold, however  *)
(* the attempts overlap: a counter is written from one that was read, so   *)
(* it never exceeds the failures that happened.                            *)
ThrottledOnlyAfterFailures ==
  \A e \in Emails :
    (StateOf(e).until > 0) =>
      Cardinality({a \in Attempts : login[a].email = e /\ login[a].failed}) >= Threshold

(* The failures that count: all of an account; of an unknown address those *)
(* that no eviction and no restart has forgotten.                          *)
Counted(e) == IF HasAccount(e) THEN since[e] ELSE since[e] - lost[e]

(* A counter is the number of failures since the last success or reset,    *)
(* modulo the threshold, and the window was opened when the threshold was  *)
(* reached, with three exceptions.  The failures of an unknown address are *)
(* forgotten by a restart, and when the map is full, another address enters*)
(* and this one is the oldest entry: nothing else drops them.  After       *)
(* writers of one counter overlapped, failures may be missing until a      *)
(* success or a reset that overlaps no writer.  And a failure whose write  *)
(* the database refuses is answered with an error and does not count.      *)
FailuresCounted ==
  \A e \in Emails \ raced :
    /\ StateOf(e).count = Counted(e) % Threshold
    /\ (Counted(e) >= Threshold) <=> (StateOf(e).until > 0)

(* A session is only created for a password that was the account's, while  *)
(* it was active, at some moment of its login request, also when a reset,  *)
(* a deactivation or the creation of the account overlaps it.              *)
LoginIsEarned ==
  \A a \in Attempts : (session[a] # None) => login[a].good

(* A protected request does not pass if its session was revoked, expired   *)
(* or its reviewer deactivated when it began, although a login in flight   *)
(* creates its session after the deactivation.                             *)
DeniedStaysDenied ==
  \A c \in Checks : (check[c].pc = "passed") => ~check[c].doomed

(* A logout answered 204 has ended its session for good, although the      *)
(* database may fail at either of its calls.                               *)
LogoutIsFinal ==
  \A l \in Logouts : (logout[l].pc = "204") => session[logout[l].token].revoked
=============================================================================
