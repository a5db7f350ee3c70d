CONSTANTS
  Providers = {p}
  Changes = {"device"}
  Kind <- NamedForIt
  Together <- OneEach
  Manual = {m1, m2}
  Scheduler = scheduler
  None = None
SPECIFICATION FairSpec
PROPERTIES CurrentAgain ManualRefreshEnds
