CONSTANTS
  Ids = {a, b}
  Keys = {k}
  Makers = {m}
  Callers = {c}
  Flows = {"loopback", "device"}
  None = None
  MaxSessions = 1
SPECIFICATION FairSpec
PROPERTIES LoginsEnd
