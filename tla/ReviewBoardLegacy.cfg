\* An old document and a new one, whose item has the id of the old document.
CONSTANTS
  Documents = {1, 2}
  Legacy = {1}
  ItemIds = {1, 2}
  RunIds = {1}
  Severities = {"serious"}
  Priorities = {"urgent"}
  Reviewers = {a}
  Readers = {r}
  DbOutcomes = {"ok"}
  MaxRestarts = 0
  None = None
SPECIFICATION Spec
INVARIANT OnlyShownDocumentsApproved
CHECK_DEADLOCK FALSE
