--------------------------- MODULE MCProviderAdmin ---------------------------
(***************************************************************************)
(* The rows of the small instances of ProviderAdmin.                       *)
(***************************************************************************)
EXTENDS ProviderAdmin, TLC

CONSTANTS j1, j2, t1

SomeIds == {j1, j2, t1}
SomeRoles == (j1 :> "judgment") @@ (j2 :> "judgment") @@ (t1 :> "triage")

SlotSymmetry == Permutations(Slots)
=============================================================================
