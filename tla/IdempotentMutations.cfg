CONSTANTS
  Servers = {s1, s2}
  Clients = {c1}
  Keys = {k1, k2}
  Creations = {new}
  Ids = {a, b}
  None = None
  MaxKeys = 1
  MaxRunning = 1
  MaxReceipts = 2
SPECIFICATION Spec
SYMMETRY Interchangeable
INVARIANTS TypeOK OperationsAttended
PROPERTIES ImplementsEffects
