\* No request fails: only the order of the answers is left.
CONSTANTS
  Slots = {r1, r2}
  Tokens = 1
  MaxStrays = 1
  Errors = FALSE
  CancelEnabled = FALSE
SPECIFICATION Spec
INVARIANTS
  ShowsRealFindings
