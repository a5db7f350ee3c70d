CONSTANTS
  p1 = p1
  p2 = p2
  p3 = p3
  d1 = d1
  d2 = d2
  d3 = d3
  t1 = t1
  t2 = t2
  Old = Old
  None = None
  Procs <- AllProcs
  Dirs <- AllDirs
  Tokens <- AllTokens
  Scenes <- AllScenes
SPECIFICATION Spec
SYMMETRY DirNames
INVARIANTS TypeOK SnapshotKept CopiesRecoverable
PROPERTY TokenCommitted
\* The names of directories run out.
CHECK_DEADLOCK FALSE
