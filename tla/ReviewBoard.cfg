\* Two documents, the first older than the table of workflow items, two runs.
\* Both draw their ids from 1 on, so the old document may have the id of the
\* item of the other one.
CONSTANTS
  Documents = {1, 2}
  Legacy = {1}
  ItemIds = {1, 2}
  RunIds = {1, 2}
  Severities = {"serious"}
  Priorities = {"urgent"}
  Reviewers = {a, b}
  Readers = {r}
  DbOutcomes = {"ok", "error", "lost"}
  MaxRestarts = 1
  None = None
SPECIFICATION Spec
INVARIANTS
  TypeOK
  ReportIsTrue
  ApprovalsAreExplicit
  ApprovalIsKept
  CardShowsLastStart
  BoardsAgree
  OneCardPerDocument
SYMMETRY ReviewerSymmetry
CHECK_DEADLOCK FALSE
