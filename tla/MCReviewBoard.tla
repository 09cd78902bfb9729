--------------------------- MODULE MCReviewBoard ---------------------------
(***************************************************************************)
(* The symmetry of the small instances of ReviewBoard.  Row ids are        *)
(* numbers that CardId and InsertRow compare, so only the requests of the  *)
(* reviewers are interchangeable.                                          *)
(***************************************************************************)
EXTENDS ReviewBoard, TLC

ReviewerSymmetry == Permutations(Reviewers)
=============================================================================
