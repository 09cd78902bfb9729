\* Two judgment rows and one for triage, two requests at a time, one review.
CONSTANTS
  j1 = j1
  j2 = j2
  t1 = t1
  Ids <- SomeIds
  Initial = {j1, t1}
  RoleOf <- SomeRoles
  Slots = {s1, s2}
  Reviews = {q1}
  DbOutcomes = {"ok", "error"}
  None = None
SPECIFICATION Spec
SYMMETRY SlotSymmetry
INVARIANTS
  TypeOK
  OneActivePerRole
  SwitchTakesEffect
  NoDeadlock
  KeyStaysWithItsRow
PROPERTIES
  RoleStaysServed
