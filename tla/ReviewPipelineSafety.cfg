\* Two requests for one document in two versions; every database outcome, one
\* restart, cancellations.
CONSTANTS
  Documents = {d1}
  Versions = {v1, v2}
  Requests = {q1, q2}
  RowIds = {i1, i2}
  None = None
  RuleCandidates <- OnlyOnPage
  LlmCandidates <- Mixed
  DbOutcomes = {"ok", "error", "lost"}
  MaxCrashes = 1
  CancelEnabled = TRUE
SPECIFICATION Spec
SYMMETRY RowSymmetry
INVARIANTS
  TypeOK
  OneRowPerRunAndLifetime
  CompletedIsDurable
  CompletionIsHonest
  FindingsHaveStructure
  AnswerIsFinal
PROPERTY ImplementsContract
CHECK_DEADLOCK FALSE
