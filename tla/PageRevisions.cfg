SPECIFICATION Spec
CONSTANTS
  j1 = j1
  j2 = j2
  r1 = r1
  r2 = r2
  r3 = r3
  r4 = r4
  c1 = c1
  c2 = c2
  Jobs = {j1, j2}
  RevIds = {r1, r2, r3, r4}
  Contents <- MCContents
  Retention <- KeepMixed
  Nothing = Nothing
  Roles <- MCRoles
SYMMETRY RevSymmetry
INVARIANTS
  PublishedHasRevision
  RetentionBounded
  AutosavesBounded
PROPERTIES
  RecoveryKept
  Lifecycle
CHECK_DEADLOCK FALSE
