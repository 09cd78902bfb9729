-------------------------- MODULE ReviewRunStatus --------------------------
(***************************************************************************)
(* The status machine of a review run, ReviewRunLifecycle's                *)
(* ALLOWED_REVIEW_RUN_STATUSES and NEXT_STATUSES.  "none" is the absence   *)
(* of the run from the service's reviewRunsById map.                       *)
(***************************************************************************)

Statuses == {"queued", "extracting", "segmenting", "validating",
             "rag_reviewing", "reporting", "completed", "failed", "cancelled"}

TerminalStatuses == {"completed", "failed", "cancelled"}

ActiveStatuses == Statuses \ TerminalStatuses

(* NEXT_STATUSES as a relation.  Every active status may also be cancelled *)
(* or fail.  validating -> reporting is allowed by the table although the  *)
(* orchestrator always goes through rag_reviewing.                         *)
NextStatuses ==
  { <<"queued", "extracting">>,         <<"extracting", "segmenting">>,
    <<"segmenting", "validating">>,     <<"validating", "rag_reviewing">>,
    <<"validating", "reporting">>,      <<"rag_reviewing", "reporting">>,
    <<"reporting", "completed">> }
  \cup (ActiveStatuses \X {"cancelled", "failed"})

(* assertAllowedTransition does not throw.                                 *)
TransitionAllowed(from, to) == <<from, to>> \in NextStatuses
=============================================================================
