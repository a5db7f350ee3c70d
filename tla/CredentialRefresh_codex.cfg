CONSTANTS
  Readers = {p, q}
  Ids = {a, b}
  Tokens = {t1, t2, t3}
  Manager = Manager
  None = None
  Fenced = FALSE
  Ledgered = FALSE
  Uncertain = TRUE
SPECIFICATION Spec
SYMMETRY Interchangeable
CHECK_DEADLOCK FALSE
INVARIANTS AccountNeverReplays
