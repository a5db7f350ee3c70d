CONSTANTS
  Readers = {p, q}
  Ids = {a, b}
  Tokens = {t1, t2}
  Manager = Manager
  None = None
  Fenced = TRUE
  Ledgered = TRUE
  Uncertain = TRUE
SPECIFICATION Spec
SYMMETRY Interchangeable
INVARIANTS TypeOK TokenNeverReplayed FenceIsDurable
PROPERTIES RefreshRespectsManagement
