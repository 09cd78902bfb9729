\* The database answers, no restart, cancellations: what must eventually happen.
CONSTANTS
  Documents = {d1}
  Versions = {v1, v2}
  Requests = {q1, q2}
  RowIds = {i1, i2}
  None = None
  RuleCandidates <- OnlyOnPage
  LlmCandidates <- Mixed
  DbOutcomes = {"ok"}
  MaxCrashes = 0
  CancelEnabled = TRUE
SPECIFICATION Spec
INVARIANT BoardAgrees
PROPERTIES
  EveryRequestAnswered
  RowsReachTerminal
CHECK_DEADLOCK FALSE
