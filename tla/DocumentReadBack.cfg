\* Two pages; every write to the disk and the database succeeds.
CONSTANTS
  c1 = c1
  c2 = c2
  n1 = n1
  n2 = n2
  Contents <- SomeContents
  Names <- SomeNames
  Files <- SomeFiles
  DbOutcomes = {"ok"}
  DiskFails = FALSE
  MaxRestarts = 0
  None = None
  Pages = {p1, p2}
SPECIFICATION Spec
INVARIANTS
  AcknowledgedBytesReadable
