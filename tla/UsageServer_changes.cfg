CONSTANTS
  Providers = {p, q}
  Changes = {"account", "patch", "reload", "callback", "device"}
  Kind <- NamedForIt
  Together <- InPairs
  Manual = {m1}
  Scheduler = scheduler
  None = None
SPECIFICATION Spec
SYMMETRY Interchangeable
INVARIANTS TypeOK ServedIsCurrent MissesOnlyTheLost
