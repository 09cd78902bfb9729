------------------------- MODULE MCDocumentRegistry -------------------------
(***************************************************************************)
(* The files of the small instances of DocumentRegistry: one content under *)
(* two names, and another one under the first of them.                     *)
(***************************************************************************)
EXTENDS DocumentRegistry

CONSTANTS c1, c2, n1, n2

SomeFiles == {<<c1, n1>>, <<c1, n2>>, <<c2, n1>>}
SomeContents == {c1, c2}
SomeNames == {n1, n2}
=============================================================================
