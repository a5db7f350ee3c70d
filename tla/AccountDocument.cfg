CONSTANTS
  one = one
  two = two
  other = other
  Ids = {a, b}
  Providers = {p}
  Labels = {l1, l2}
  Identities = {i1, i2}
  Tokens = {t1, t2}
  Keys = {k}
  Kinds = {"native", "factory", "copilot", "antigravity"}
  Builds <- AllBuilds
  Tasks = {one, two, other}
  Process <- TwoAndOne
  None = None
  MaxReceipts = 1
SPECIFICATION Spec
SYMMETRY Interchangeable
INVARIANTS TypeOK ReadsAreCurrent Readable Consistent
PROPERTIES NothingForgotten TokenStaysWithOwner
