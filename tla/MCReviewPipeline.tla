-------------------------- MODULE MCReviewPipeline --------------------------
(***************************************************************************)
(* Findings for the small instances of ReviewPipeline.                     *)
(***************************************************************************)
EXTENDS ReviewPipeline, TLC

\* a finding of the rule engine on a page of the document
OnPage ==
  [producer |-> "rules", page |-> TRUE, title |-> FALSE, section |-> "null",
   wellFormed |-> TRUE]

\* a finding of the rule engine that is about the whole document
WholeDocument == [OnPage EXCEPT !.page = FALSE]

\* a finding of the CAG review with a page
Located ==
  [producer |-> "llm", page |-> TRUE, title |-> TRUE, section |-> "null",
   wellFormed |-> TRUE]

\* a finding of the CAG review with the title of its chunk and no page
TitleOnly == [Located EXCEPT !.page = FALSE]

\* a finding without page and title whose section the orchestrator inserted
InSection == [Located EXCEPT !.page = FALSE, !.title = FALSE, !.section = "known"]

OnlyOnPage == {OnPage}
OnlyLocated == {Located}
Mixed == {Located, TitleOnly}

RowSymmetry == Permutations(RowIds)
=============================================================================
