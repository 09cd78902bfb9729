\* Three requests in flight, one live session at a time, one poll of a page
\* that was left.
CONSTANTS
  Slots = {r1, r2, r3}
  Tokens = 1
  MaxStrays = 1
  Errors = TRUE
  CancelEnabled = TRUE
SPECIFICATION Spec
INVARIANTS
  TypeOK
  SignedOutIsAtLogin
  OnePollUntilSettled
  OutcomeIsTrue
PROPERTIES
  ResultsSettle
