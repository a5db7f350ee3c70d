CONSTANTS
  Ids = {a, b}
  Keys = {k}
  Makers = {m, n}
  Callers = {c, d}
  Flows = {"relay", "loopback", "device"}
  None = None
  MaxSessions = 1
SPECIFICATION Spec
SYMMETRY Interchangeable
INVARIANTS TypeOK CodeSpentOnce OneLoginPerKey ClaimsAttended NoneStranded SlotsFit
PROPERTIES EndedStays
