-------------------------- MODULE MCCursorSnapshot --------------------------
(* Values for CursorSnapshot: one process that reads while Cursor writes, with a *)
(* log and without; and several that read and are killed while it is idle.  Which *)
(* directory has which name makes no difference.                              *)
EXTENDS CursorSnapshot, TLC

CONSTANTS p1, p2, p3, d1, d2, d3, t1, t2
AllProcs == {p1, p2, p3}
AllDirs == {d1, d2, d3}
AllTokens == {t1, t2}

Scene(mode, log, limit, readers, dirs) ==
  [mode |-> mode, log |-> log, writes |-> limit, readers |-> readers, dirs |-> dirs]
AllScenes ==
  {Scene("wal", log, 6, {p1}, {d1}) : log \in BOOLEAN}
    \cup {Scene("journal", FALSE, 7, {p1}, {d1})}
    \cup {Scene("wal", TRUE, 1, AllProcs, {d2, d3})}

DirNames == Permutations({d2, d3})
=============================================================================
