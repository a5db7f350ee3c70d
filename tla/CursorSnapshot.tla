---------------------------- MODULE CursorSnapshot ----------------------------
(***************************************************************************)
(* Reading the token out of Cursor's database while Cursor may be writing    *)
(* it: providers/catalog/oauth_editors.rs.                                   *)
(*                                                                         *)
(* SQLite is never given Cursor's files.  A read captures what identifies    *)
(* them, removes the snapshots that other reads were killed over, makes a    *)
(* directory with a lock file, copies database and write-ahead log into it    *)
(* up to the last commit, has SQLite query the copy, checks that no file has *)
(* changed since they were captured, and removes the directory.  Reads of    *)
(* several processes share the root of the directories, and are killed.      *)
(*                                                                         *)
(* Of the database there is the token alone.  A frame of the log has the     *)
(* salt of the log it was written to and the stamp of the frame before it,   *)
(* which stand for salts and cumulative checksums: both tell frames of this  *)
(* log from what older logs and rolled back transactions have left.  The     *)
(* shared-memory file, whose changes can only refuse a read, is left out;    *)
(* the files are compared at once, which differs from one after the other    *)
(* only in changes later than the comparison of their file.                 *)
(* Bounds: what Cursor writes (scene.writes); Dirs, one for each read that   *)
(* gets as far as making one.                                               *)
(***************************************************************************)
EXTENDS Naturals, Sequences, FiniteSets

CONSTANTS Procs,      \* processes that read
          Dirs,       \* snapshot directories, by their random names
          Tokens, Old,\* tokens, and the one the database has at first
          Scenes,     \* [mode, log, writes, readers, dirs]: the journal mode of
                      \* the database, whether there is a log, how much Cursor
                      \* writes, which processes read, and into what
          None

Files == {"db", "wal", "journal"}

\* A frame of the log: the page of the token, or another one (None).
Frame == [salt : Nat, prev : Nat, stamp : Nat, token : Tokens \cup {None}, commits : BOOLEAN]
Log   == [salt : Nat, frames : Seq(Frame), ver : Nat]

ASSUME ScenesKnown ==
  Scenes \subseteq [mode : {"wal", "journal"}, log : BOOLEAN, writes : Nat,
                    readers : SUBSET Procs, dirs : SUBSET Dirs]

ASSUME NoneIsNothing == None \notin Procs \cup Dirs \cup Tokens \cup {Old} \cup Log

VARIABLES
  scene,
  db,         \* [token, ver]; ver changes as the metadata of a file do
  wal,        \* None, or [salt, frames, ver]; salt 0 when the file is empty
  journal,    \* the rollback journal of a transaction, by when it was made; or 0
  cursor,     \* [pos, prev, back, pending, fresh]: where Cursor writes next, where
              \* its last commit ends, what it has not committed, and whether the
              \* database has all that the log commits
  committed,  \* the token a reader of Cursor would be given
  writes,     \* writes so far, and the stamp of the last
  dir,        \* per directory, [state, files]
  held,       \* per directory, who has the flock of its lock file
  read,       \* per process, its read
  cut         \* directories whose removal was cut short by a kill

sourceVars == <<db, wal, journal, cursor, committed, writes>>
vars == <<scene, sourceVars, dir, held, read, cut>>

NoRead == [at |-> "idle", seen |-> [f \in Files |-> 0], list |-> {}, on |-> None,
           copy |-> [token |-> None, frames |-> <<>>], got |-> None]

Init ==
  /\ scene \in Scenes
  /\ db = [token |-> Old, ver |-> 1]
  /\ wal = IF scene.log THEN [salt |-> 0, frames |-> <<>>, ver |-> 1] ELSE None
  /\ journal = 0
  /\ cursor = [pos |-> 0, prev |-> 0, back |-> <<0, 0>>, pending |-> None, fresh |-> TRUE]
  /\ committed = Old /\ writes = 1
  /\ dir = [d \in Dirs |-> [state |-> "unused", files |-> {}]]
  /\ held = [d \in Dirs |-> None]
  /\ read = [p \in Procs |-> NoRead]
  /\ cut = {}

-----------------------------------------------------------------------------
(* Cursor, by way of SQLite.                                               *)

Stamp == writes + 1
Writing(mode) ==
  /\ scene.mode = mode /\ writes < scene.writes
  /\ writes' = Stamp
  /\ UNCHANGED <<scene, dir, held, read, cut>>

\* A log whose frames the database has is begun again over them.
BeginLog ==
  /\ wal # None /\ cursor.fresh /\ cursor.pending = None
  /\ Writing("wal")
  /\ wal' = [wal EXCEPT !.salt = Stamp, !.ver = Stamp]
  /\ cursor' = [cursor EXCEPT !.pos = 0, !.prev = Stamp, !.back = <<0, Stamp>>]
  /\ UNCHANGED <<db, journal, committed>>

WrittenOver(frames, at, frame) ==
  SubSeq(frames, 1, at - 1) \o <<frame>> \o SubSeq(frames, at + 1, Len(frames))

\* The page of the token, or another one, and with it the transaction or not yet.
WriteFrame(t, commits) ==
  LET at == cursor.pos + 1
      frame == [salt |-> wal.salt, prev |-> cursor.prev, stamp |-> Stamp, token |-> t,
                commits |-> commits]
      new == IF t = None THEN cursor.pending ELSE t
  IN
  /\ wal # None /\ wal.salt # 0
  /\ t = None => commits /\ cursor.pending # None
  /\ Writing("wal")
  /\ wal' = [wal EXCEPT !.ver = Stamp,
                        !.frames = WrittenOver(@, at, frame)]
  /\ cursor' = [cursor EXCEPT !.pos = at, !.prev = Stamp, !.fresh = FALSE,
                              !.back = IF commits THEN <<at, Stamp>> ELSE @,
                              !.pending = IF commits THEN None ELSE new]
  /\ IF commits THEN committed' = new ELSE UNCHANGED committed
  /\ UNCHANGED <<db, journal>>

\* The frames stay, and are written over by the next transaction.
RollBack ==
  /\ scene.mode = "wal" /\ cursor.pending # None
  /\ cursor' = [cursor EXCEPT !.pos = cursor.back[1], !.prev = cursor.back[2], !.pending = None]
  /\ UNCHANGED <<scene, db, wal, journal, committed, writes, dir, held, read, cut>>

Checkpoint ==
  /\ wal # None /\ cursor.pending = None /\ ~cursor.fresh
  /\ Writing("wal")
  /\ db' = [token |-> committed, ver |-> Stamp]
  /\ cursor' = [cursor EXCEPT !.fresh = TRUE]
  /\ UNCHANGED <<wal, journal, committed>>

\* Cursor closes the database, or opens it again.
CloseOrOpen ==
  /\ cursor.fresh /\ cursor.pending = None
  /\ Writing("wal")
  /\ wal' = IF wal = None THEN [salt |-> 0, frames |-> <<>>, ver |-> Stamp] ELSE None
  /\ cursor' = [cursor EXCEPT !.pos = 0]
  /\ UNCHANGED <<db, journal, committed>>

\* Without a log: what is written over is in the journal until the commit.
JournalStep ==
  /\ Writing("journal")
  /\ \/ journal = 0 /\ journal' = Stamp /\ UNCHANGED <<db, committed>>
     \/ /\ journal # 0
        /\ \E t \in Tokens \cup {committed} : db' = [token |-> t, ver |-> Stamp]
        /\ UNCHANGED <<journal, committed>>
     \/ journal # 0 /\ journal' = 0 /\ committed' = db.token /\ UNCHANGED db
  /\ UNCHANGED <<wal, cursor>>

CursorStep ==
  \/ BeginLog \/ RollBack \/ Checkpoint \/ CloseOrOpen \/ JournalStep
  \/ \E t \in Tokens \cup {None}, commits \in BOOLEAN : WriteFrame(t, commits)

-----------------------------------------------------------------------------
(* What the copy says.                                                     *)

\* Frames of this log, each of which follows from the one before it.
Follows(w, i) == /\ w.frames[i].salt = w.salt
                 /\ w.frames[i].prev = IF i = 1 THEN w.salt ELSE w.frames[i - 1].stamp
Sound(w) == {n \in 0..Len(w.frames) : \A i \in 1..n : Follows(w, i)}
Commits(w) == {n \in Sound(w) \ {0} : w.frames[n].commits}
Last(numbers) == CHOOSE n \in numbers : \A m \in numbers : m <= n

\* A frame of this log does not follow, and none before it commits.
Damaged(w) ==
  LET next == Last(Sound(w)) + 1 IN
  Commits(w) = {} /\ next <= Len(w.frames) /\ w.frames[next].salt = w.salt

CommittedEnd(w) == IF Commits(w) = {} THEN 0 ELSE Last(Commits(w))
CopiedFrames(w) == SubSeq(w.frames, 1, CommittedEnd(w))

\* The page as SQLite finds it: the last in the log, or the one in the database.
QueryAnswer(copy) ==
  LET writesIt == {i \in 1..Len(copy.frames) : copy.frames[i].token # None}
  IN  IF writesIt = {} THEN copy.token ELSE copy.frames[Last(writesIt)].token

Identity(f) == CASE f = "db" -> db.ver
                 [] f = "wal" -> IF wal = None THEN 0 ELSE wal.ver
                 [] f = "journal" -> journal
Captured(p, f) == read[p].seen[f] = Identity(f)
RemainsSafe(p) == \A f \in Files : Captured(p, f)

-----------------------------------------------------------------------------
(* A read.                                                                 *)

There(d) == dir[d].state = "there"
Goes(p, at) == read' = [read EXCEPT ![p].at = at]
Put(d, f) == dir' = [dir EXCEPT ![d].files = @ \cup {f}]
Reads == UNCHANGED <<scene, sourceVars, cut>>
Elsewhere == UNCHANGED <<dir, held>>

Start(p) ==
  /\ read[p].at = "idle" /\ p \in scene.readers
  /\ read' = [read EXCEPT ![p].at = "wal", ![p].seen["db"] = Identity("db")]
  /\ Reads /\ Elsewhere

CaptureWal(p) ==
  /\ read[p].at = "wal"
  /\ read' = [read EXCEPT ![p].at = "journal", ![p].seen["wal"] = Identity("wal")]
  /\ Reads /\ Elsewhere

\* A transaction in a journal may be half in the database.
JournalUnread == TRUE
JournalAllows == journal = 0
CaptureJournal(p) ==
  /\ read[p].at = "journal"
  /\ read' = IF JournalAllows
             THEN [read EXCEPT ![p].at = "recover", ![p].seen["journal"] = Identity("journal"),
                               ![p].list = {d \in Dirs : There(d)}]
             ELSE [read EXCEPT ![p] = NoRead]
  /\ Reads /\ Elsewhere

\* Another read's directory: without a lock file that is its own it is left alone.
OpenLock(p, d) ==
  /\ read[p].at = "recover" /\ d \in read[p].list
  /\ read' = IF There(d) /\ "lock" \in dir[d].files
             THEN [read EXCEPT ![p].at = "lock", ![p].on = d, ![p].list = @ \ {d}]
             ELSE [read EXCEPT ![p].list = @ \ {d}]
  /\ Reads /\ Elsewhere

\* The file that was opened may be locked by now, or out of its directory: then it is
\* skipped, unless its links were counted while it was in; and a directory that went
\* after that ends the read.
MayRemoveHeld(d) == TRUE
MayRemove(d) == held[d] = None
TryLock(p) ==
  LET d == read[p].on IN
  /\ read[p].at = "lock"
  /\ \/ /\ ~MayRemove(d) \/ "lock" \notin dir[d].files
        /\ Goes(p, "recover") /\ UNCHANGED held
     \/ /\ MayRemove(d) /\ ~There(d)
        /\ read' = [read EXCEPT ![p] = NoRead] /\ UNCHANGED held
     \/ /\ MayRemove(d) /\ There(d)
        /\ Goes(p, "clear") /\ held' = [held EXCEPT ![d] = p]
  /\ Reads /\ UNCHANGED dir

\* remove_dir_all: the files in any order, and the directory.
RemoveFrom(d) ==
  \/ \E f \in dir[d].files : dir' = [dir EXCEPT ![d].files = @ \ {f}]
  \/ dir[d].files = {} /\ dir' = [dir EXCEPT ![d].state = "gone"]
Removed(d) == dir'[d].state = "gone"
StaysLocked(d) == UNCHANGED held
Released(d) == held' = [held EXCEPT ![d] = None]

Clear(p) ==
  LET d == read[p].on IN
  /\ read[p].at = "clear"
  /\ RemoveFrom(d)
  /\ IF Removed(d) THEN Goes(p, "recover") /\ Released(d) ELSE UNCHANGED <<read, held>>
  /\ Reads

MakeDirectory(p) ==
  /\ read[p].at = "recover" /\ read[p].list = {}
  /\ \E d \in scene.dirs :
       /\ dir[d].state = "unused"
       /\ dir' = [dir EXCEPT ![d].state = "there"]
       /\ read' = [read EXCEPT ![p].at = "create", ![p].on = d]
  /\ Reads /\ UNCHANGED held

CreateNoLock(p) ==
  /\ read[p].at = "create"
  /\ Goes(p, "flock")
  /\ Reads /\ Elsewhere
CreateLock(p) ==
  /\ read[p].at = "create"
  /\ Put(read[p].on, "lock") /\ Goes(p, "flock")
  /\ Reads /\ UNCHANGED held

\* Whoever recovers may have been quicker; then the directory is not ours to remove.
Flock(p) ==
  LET d == read[p].on IN
  /\ read[p].at = "flock"
  /\ IF held[d] = None THEN Goes(p, "read_db") /\ held' = [held EXCEPT ![d] = p]
     ELSE read' = [read EXCEPT ![p] = NoRead] /\ UNCHANGED held
  /\ Reads /\ UNCHANGED dir

ReadDb(p) ==
  LET d == read[p].on IN
  /\ read[p].at = "read_db"
  /\ IF Captured(p, "db") /\ There(d)
     THEN /\ read' = [read EXCEPT ![p].at = "read_wal", ![p].copy.token = db.token]
          /\ Put(d, "db")
     ELSE Goes(p, "drop") /\ UNCHANGED dir
  /\ Reads /\ UNCHANGED held

\* A database in this mode is given a log if it had none.
ReadWal(p) ==
  LET d == read[p].on
      refused == read[p].seen["wal"] # 0 /\ (Captured(p, "wal") => Damaged(wal))
  IN
  /\ read[p].at = "read_wal"
  /\ IF refused THEN Goes(p, "drop") /\ UNCHANGED dir
     ELSE /\ read' = [read EXCEPT ![p].at = "check",
                ![p].copy.frames = IF read[p].seen["wal"] = 0 THEN <<>> ELSE CopiedFrames(wal)]
          /\ IF scene.mode = "wal" THEN Put(d, "wal") ELSE UNCHANGED dir
  /\ Reads /\ UNCHANGED held

Check(p) ==
  /\ read[p].at = "check"
  /\ Goes(p, IF RemainsSafe(p) THEN "query" ELSE "drop")
  /\ Reads /\ Elsewhere

\* SQLite may fail, and is given two seconds.
Query(p) ==
  /\ read[p].at = "query"
  /\ \/ Goes(p, "drop")
     \/ /\ "db" \in dir[read[p].on].files
        /\ read' = [read EXCEPT ![p].at = "again", ![p].got = QueryAnswer(read[p].copy)]
  /\ Reads /\ Elsewhere

CheckAgain(p) ==
  /\ read[p].at = "again"
  /\ read' = [read EXCEPT ![p].at = "drop", ![p].got = IF RemainsSafe(p) THEN @ ELSE None]
  /\ Reads /\ Elsewhere

\* The directory first, and the lock with the handle.
Drop(p) ==
  LET d == read[p].on IN
  /\ read[p].at = "drop"
  /\ IF There(d) THEN RemoveFrom(d) ELSE UNCHANGED dir
  /\ IF Removed(d) THEN read' = [read EXCEPT ![p] = NoRead] /\ Released(d)
     ELSE UNCHANGED <<read, held>>
  /\ Reads

\* The locks of a process go with it; its directory stays.
Kill(p) ==
  /\ read[p].at # "idle"
  /\ read' = [read EXCEPT ![p] = NoRead]
  /\ held' = [d \in Dirs |-> IF held[d] = p THEN None ELSE held[d]]
  /\ cut' = IF read[p].at \in {"clear", "drop"} THEN cut \cup {read[p].on} ELSE cut
  /\ UNCHANGED <<scene, sourceVars, dir>>

ReadStep(p) ==
  \/ Start(p) \/ CaptureWal(p) \/ CaptureJournal(p)
  \/ \E d \in Dirs : OpenLock(p, d)
  \/ TryLock(p) \/ Clear(p)
  \/ MakeDirectory(p) \/ CreateLock(p) \/ Flock(p)
  \/ ReadDb(p) \/ ReadWal(p) \/ Check(p) \/ Query(p) \/ CheckAgain(p) \/ Drop(p)

Next == CursorStep \/ \E p \in Procs : ReadStep(p) \/ Kill(p)
Spec == Init /\ [][Next]_vars

-----------------------------------------------------------------------------
(* Properties.                                                             *)

Copying == {"read_wal", "check", "query", "again"}

\* A lock is held by a read that uses or removes its directory, and directories
\* that do not exist are empty: open_cursor_database_at_with_hooks,
\* recover_cursor_snapshots.
TypeOK ==
  /\ committed \in Tokens \cup {Old} /\ writes \in Nat
  /\ \A d \in Dirs :
       /\ dir[d].state \in {"unused", "there", "gone"}
       /\ dir[d].files \subseteq {"lock", "db", "wal"}
       /\ dir[d].state # "there" => dir[d].files = {}
       /\ held[d] = None \/ (held[d] \in Procs /\ read[held[d]].on = d
                              /\ read[held[d]].at \in Copying \cup {"read_db", "drop", "clear"})
  /\ \A p \in Procs : read[p].got \in Tokens \cup {None, Old}

\* The token that a read comes by is the one that Cursor had committed when its
\* files were compared for the last time: none that it rolled back, nor one that
\* was replaced before, whatever Cursor wrote, checkpointed or closed during the
\* read: cursor_database_remains_safe.
Comes(p) == read[p].at = "again" /\ read'[p].at = "drop" /\ read'[p].got # None
TokenCommitted == [][\A p \in Procs : Comes(p) => read'[p].got = committed]_vars

\* No other process removes a snapshot that a read is using:
\* recover_cursor_snapshots.
SnapshotKept ==
  \A p \in Procs : read[p].at \in Copying =>
    There(read[p].on) /\ "db" \in dir[read[p].on].files

\* The user's tokens are copied into no directory that later reads cannot
\* remove, unless a removal was itself cut short: recover_cursor_snapshots.
CopiesRecoverable ==
  \A d \in Dirs \ cut :
    dir[d].files \cap {"db", "wal"} # {} => held[d] # None \/ "lock" \in dir[d].files

=============================================================================
