CONSTANTS
  Readers = {r1, r2}
  Logins = {a, b}
  None = None
  MaxBack = 1
SPECIFICATION Spec
SYMMETRY Interchangeable
INVARIANTS TypeOK OwnUsage ServedInTime RefreshedOnce
