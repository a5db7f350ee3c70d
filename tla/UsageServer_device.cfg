CONSTANTS
  Providers = {p}
  Changes = {"device"}
  Kind <- NamedForIt
  Together <- OneEach
  Manual = {}
  Scheduler = scheduler
  None = None
SPECIFICATION Spec
INVARIANTS WaitsAwareOfChanges
