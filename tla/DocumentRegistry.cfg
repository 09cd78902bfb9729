\* Three files of two contents, two pages, one restart.
CONSTANTS
  c1 = c1
  c2 = c2
  n1 = n1
  n2 = n2
  Contents <- SomeContents
  Names <- SomeNames
  Files <- SomeFiles
  Pages = {p1, p2}
  DbOutcomes = {"ok", "refused", "unreachable", "lost", "reset"}
  DiskFails = TRUE
  MaxRestarts = 1
  None = None
SPECIFICATION Spec
INVARIANTS
  TypeOK
  AcknowledgedIsKnown
  RowsHaveFiles
  MemoryIsDurable
  ReviewIsAboutItsDocument
PROPERTIES
  SubmissionEnds
