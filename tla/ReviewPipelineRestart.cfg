\* One request and one restart of the process.
CONSTANTS
  Documents = {d1}
  Versions = {v1}
  Requests = {q1}
  RowIds = {i1, i2}
  None = None
  RuleCandidates <- OnlyOnPage
  LlmCandidates <- OnlyLocated
  DbOutcomes = {"ok"}
  MaxCrashes = 1
  CancelEnabled = FALSE
SPECIFICATION Spec
PROPERTY RowsReachTerminal
CHECK_DEADLOCK FALSE
