------------------------- MODULE ReviewRunContract -------------------------
(***************************************************************************)
(* What the review pipeline promises its clients, whatever the workers,    *)
(* the database and the order of requests do:                              *)
(*                                                                         *)
(*  - the status of a run, as the API reports it, moves only along the     *)
(*    status machine; a process restart forgets every run;                 *)
(*  - a request is answered at most once, with a refusal or with the       *)
(*    status the run has at that moment;                                   *)
(*  - the durable record of a run collects findings one at a time while it *)
(*    is open, is sealed as completed or failed, and never changes its     *)
(*    findings again;                                                      *)
(*  - no run becomes completed before a record of it is sealed as          *)
(*    completed.                                                           *)
(***************************************************************************)
EXTENDS ReviewRunStatus

CONSTANTS
  Run,        \* the runs clients can ask for
  Requests,   \* the start requests
  Records,    \* the identities of durable records
  Candidate   \* the findings a record can hold

VARIABLES
  status,     \* status[r]: the status the API reports, "none" if unknown
  asked,      \* asked[q]: the run request q is about
  answer,     \* answer[q]: what request q was told, "none" before that
  subject,    \* subject[i]: the run record i belongs to
  seal,       \* seal[i]: how far record i is
  content     \* content[i]: the findings of record i

contractVars == <<status, asked, answer, subject, seal, content>>

Seals == {"absent", "open", "completed", "failed"}

(* A record that was sealed as completed may still be marked failed: the   *)
(* acknowledgement of the completion can be lost.                          *)
SealOrder == { <<"absent", "open">>,   <<"open", "completed">>,
               <<"open", "failed">>,   <<"completed", "failed">> }

ContractInit ==
  /\ status = [r \in Run |-> "none"]
  /\ answer = [q \in Requests |-> "none"]
  /\ seal = [i \in Records |-> "absent"]
  /\ content = [i \in Records |-> {}]

CompletedRecord(r) ==
  \E i \in Records : subject'[i] = r /\ seal'[i] = "completed"

StatusStep(r) ==
  \/ status'[r] = status[r]
  \/ /\ status[r] = "none"
     /\ status'[r] = "queued"
  \/ /\ TransitionAllowed(status[r], status'[r])
     /\ (status'[r] = "completed") => CompletedRecord(r)

AnswerStep(q) ==
  \/ /\ answer'[q] = answer[q]
     /\ (answer[q] # "none") => asked'[q] = asked[q]
  \/ /\ answer[q] = "none"
     /\ asked'[q] = asked[q]
     /\ \/ answer'[q] = "refused"
        \/ asked[q] \in Run /\ answer'[q] = status'[asked[q]]

SealStep(i) ==
  \/ seal'[i] = seal[i]
  \/ <<seal[i], seal'[i]>> \in SealOrder

ContentStep(i) ==
  /\ (seal[i] # "absent") => subject'[i] = subject[i]
  /\ \/ content'[i] = content[i]
     \/ /\ seal[i] = "open" /\ seal'[i] = "open"
        /\ \E c \in Candidate \ content[i] : content'[i] = content[i] \cup {c}

Restart ==
  /\ status' = [r \in Run |-> "none"]
  /\ \A q \in Requests :
       \/ answer'[q] = answer[q]
       \/ answer[q] = "none" /\ answer'[q] = "lost"
  /\ UNCHANGED <<asked, subject, seal, content>>

Serve ==
  /\ \A r \in Run : StatusStep(r)
  /\ \A q \in Requests : AnswerStep(q)
  /\ \A i \in Records : SealStep(i) /\ ContentStep(i)

ContractSpec == ContractInit /\ [][Serve \/ Restart]_contractVars
=============================================================================
