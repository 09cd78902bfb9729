\* One request, everything answers: a finding that cannot be stored.
CONSTANTS
  Documents = {d1}
  Versions = {v1}
  Requests = {q1}
  RowIds = {i1, i2}
  None = None
  RuleCandidates <- OnlyOnPage
  LlmCandidates <- Mixed
  DbOutcomes = {"ok"}
  MaxCrashes = 0
  CancelEnabled = FALSE
SPECIFICATION Spec
INVARIANT OnlyBothPathsFailingFails
CHECK_DEADLOCK FALSE
