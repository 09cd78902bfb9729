\* Three addresses, one with an account; three logins, a logout, a protected
\* request, a command of the operator and a restart.
CONSTANTS
  Emails = {e1, e2, e3}
  Seeded = {e1}
  Passwords = {p1, p2}
  First = p1
  Attempts = {a1, a2, a3}
  Logouts = {l1}
  Checks = {c1}
  Commands = {o1}
  Modes = {"create", "reset", "deactivate"}
  Threshold = 2
  Window = 1
  Ttl = 1
  MaxBuckets = 1
  DbOutcomes = {"ok", "error"}
  MaxTime = 1
  MaxRestarts = 1
  None = None
SPECIFICATION Spec
SYMMETRY RequestSymmetry
INVARIANTS
  TypeOK
  ThrottledOnlyAfterFailures
  FailuresCounted
  LoginIsEarned
  DeniedStaysDenied
  LogoutIsFinal
CHECK_DEADLOCK FALSE
