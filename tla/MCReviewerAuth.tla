--------------------------- MODULE MCReviewerAuth ---------------------------
(***************************************************************************)
(* Symmetry for the small instances of ReviewerAuth: the requests of one   *)
(* kind, and the addresses nobody has when the API starts.                 *)
(***************************************************************************)
EXTENDS ReviewerAuth, TLC

RequestSymmetry ==
  UNION {Permutations(S) : S \in {Attempts, Logouts, Emails \ Seeded}}
=============================================================================
