-------------------------- MODULE CursorSnapshotProofs --------------------------
(****************************************************************************)
(* The reading of Cursor's token, for any tokens, processes and directories    *)
(* and however much Cursor writes.  Three arguments that hardly touch: what the *)
(* log says is what Cursor committed, since stamps tell its frames from what    *)
(* older logs have left; a copy is of the files as they are for as long as the  *)
(* files are what they were captured to be; and whoever removes a directory, or *)
(* uses it, holds its lock.                                                   *)
(****************************************************************************)
EXTENDS CursorSnapshot, SequenceTheorems, TLAPS

USE ScenesKnown, NoneIsNothing

----------------------------------------------------------------------------
(* The inductive invariant.                                                 *)

Known == Tokens \cup {Old}
Stages == Copying \cup {"idle", "wal", "journal", "recover", "lock", "clear", "create", "flock",
                        "read_db", "drop"}
Read == [at : Stages, seen : [Files -> Nat], list : SUBSET Dirs, on : Dirs \cup {None},
         copy : [token : Known \cup {None}, frames : Seq(Frame)], got : Known \cup {None}]

SourceTyped ==
  /\ scene \in Scenes
  /\ db \in [token : Known, ver : Nat]
  /\ wal \in Log \cup {None}
  /\ journal \in Nat
  /\ cursor \in [pos : Nat, prev : Nat, back : Nat \X Nat, pending : Tokens \cup {None},
                 fresh : BOOLEAN]
  /\ committed \in Known /\ writes \in Nat

DirsTyped ==
  /\ dir \in [Dirs -> [state : {"unused", "there", "gone"}, files : SUBSET {"lock", "db", "wal"}]]
  /\ held \in [Dirs -> Procs \cup {None}]

\* Nothing is younger than the last write.
AgesInv ==
  /\ db.ver \in 1..writes
  /\ cursor.prev <= writes /\ cursor.back[2] <= writes
  /\ wal # None => /\ wal.ver \in 1..writes /\ wal.salt <= writes
                   /\ \A i \in 1..Len(wal.frames) :
                        wal.frames[i].salt <= writes /\ wal.frames[i].prev <= writes

InUse == wal # None /\ wal.salt # 0

\* Without frames, or with a database that has them all, the database says it.
DatabaseInv ==
  /\ scene.mode = "wal" => journal = 0
  /\ scene.mode = "journal" => ~InUse /\ (journal = 0 => db.token = committed)
  /\ scene.mode = "wal" /\ cursor.fresh => db.token = committed
  /\ ~InUse => cursor.fresh /\ cursor.pending = None
  /\ wal # None /\ wal.salt = 0 => wal.frames = <<>>

\* `told` is the token in the last of the frames that has one, or the database's.
LastTold(frames, n, told) ==
  \E k \in 1..n : /\ frames[k].token = told /\ told # None
                  /\ \A i \in (k + 1)..n : frames[i].token = None
NotTold(frames, n) == \A i \in 1..n : frames[i].token = None
Tells(frames, n, before, told) ==
  LastTold(frames, n, told) \/ (NotTold(frames, n) /\ told = before)

StampAt(i) == IF i = 0 THEN wal.salt ELSE wal.frames[i].stamp

\* The log in use: Cursor has written as far as pos and committed as far as back;
\* what follows on from there commits nothing.
LogInv ==
  InUse =>
    /\ cursor.back[1] <= cursor.pos /\ cursor.pos <= Len(wal.frames)
    /\ \A i \in 1..cursor.pos : Follows(wal, i)
    /\ cursor.prev = StampAt(cursor.pos) /\ cursor.back[2] = StampAt(cursor.back[1])
    /\ cursor.back[1] # 0 => wal.frames[cursor.back[1]].commits
    /\ \A n \in Sound(wal) : n > cursor.back[1] => ~wal.frames[n].commits
    /\ IF cursor.pending = None THEN cursor.pos = cursor.back[1]
       ELSE cursor.pos > cursor.back[1] /\ wal.frames[cursor.pos].token = cursor.pending
    /\ Tells(wal.frames, cursor.back[1], db.token, committed)

SourceInv == SourceTyped /\ AgesInv /\ DatabaseInv /\ LogInv

Past == {"recover", "lock", "clear", "create", "flock", "read_db", "drop"} \cup Copying
Copied == {"check", "query", "again"}

\* The copies are of the files as they are, unless those are no longer the same.
CopyInv(p) ==
  /\ \A f \in Files : read[p].seen[f] <= writes
  /\ read[p].at \in Past => read[p].seen["journal"] = 0
  /\ read[p].at \in Copying =>
       /\ read[p].copy.token \in Known
       /\ Captured(p, "db") => read[p].copy.token = db.token
  /\ read[p].at \in Copied =>
       /\ \/ NotTold(read[p].copy.frames, Len(read[p].copy.frames))
          \/ \E t \in Tokens : LastTold(read[p].copy.frames, Len(read[p].copy.frames), t)
       /\ read[p].seen["wal"] = 0 => read[p].copy.frames = <<>>
       /\ wal # None /\ Captured(p, "wal") => read[p].copy.frames = CopiedFrames(wal)
  /\ read[p].at = "again" => read[p].got = QueryAnswer(read[p].copy)

Locking == Copying \cup {"read_db", "drop", "clear"}
Using   == Copying \cup {"read_db"}

\* A directory is locked by whoever uses or removes it.  It has its lock file as
\* long as nobody is, or was when killed, removing it; nobody knows of one that is
\* not made yet, nor of one that has no lock file yet but who made it.
HasLock(d) == d \in cut \/ ~There(d) \/ "lock" \in dir[d].files
LockInv(p) ==
  /\ read[p].at \in Locking \cup {"lock", "create", "flock"} => read[p].on \in Dirs
  /\ read[p].at \in Locking => held[read[p].on] = p
  /\ read[p].at \in Using => HasLock(read[p].on)
  /\ read[p].at = "flock" => held[read[p].on] # None \/ HasLock(read[p].on)
  /\ read[p].at = "create" =>
       /\ There(read[p].on) /\ dir[read[p].on].files = {} /\ held[read[p].on] = None
       /\ \A q \in Procs \ {p} : read[q].on # read[p].on
DirInv(d) ==
  /\ dir[d].state # "there" => dir[d].files = {}
  /\ dir[d].state = "unused" => held[d] = None /\ \A p \in Procs : read[p].on # d
  /\ held[d] # None => read[held[d]].on = d /\ read[held[d]].at \in Locking

IInv ==
  /\ SourceInv
  /\ DirsTyped /\ read \in [Procs -> Read]
  /\ \A p \in Procs : CopyInv(p) /\ LockInv(p)
  /\ \A d \in Dirs : DirInv(d)
  /\ SnapshotKept /\ CopiesRecoverable

----------------------------------------------------------------------------
(* Operators of the model.                                                  *)

\* A frame put in its place leaves the others where they are.
LEMMA PutFrame ==
  \A F, q : \A j \in 1..(Len(q) + 1), x \in F :
    q \in Seq(F) =>
      /\ WrittenOver(q, j, x) \in Seq(F)
      /\ Len(WrittenOver(q, j, x)) = IF j > Len(q) THEN j ELSE Len(q)
      /\ WrittenOver(q, j, x)[j] = x
      /\ \A i \in 1..Len(WrittenOver(q, j, x)) : i # j => WrittenOver(q, j, x)[i] = q[i]
<1> TAKE F, q
<1> TAKE j \in 1..(Len(q) + 1), x \in F
<1> HAVE q \in Seq(F)
<1> DEFINE a == SubSeq(q, 1, j - 1)
           b == SubSeq(q, j + 1, Len(q))
           ax == a \o <<x>>
<1>1. a \in Seq(F) /\ Len(a) = j - 1 /\ \A i \in 1..(j - 1) : a[i] = q[i]
  OBVIOUS
<1>2. /\ b \in Seq(F) /\ Len(b) = (IF j > Len(q) THEN 0 ELSE Len(q) - j)
      /\ \A i \in 1..Len(b) : b[i] = q[j + i]
  OBVIOUS
<1> HIDE DEF a, b
<1>3. /\ ax \in Seq(F) /\ Len(ax) = j /\ ax[j] = x /\ \A i \in 1..(j - 1) : ax[i] = q[i]
  BY <1>1
<1>4. /\ ax \o b \in Seq(F) /\ Len(ax \o b) = j + Len(b)
      /\ \A i \in 1..(j + Len(b)) :
           (ax \o b)[i] = IF i <= j THEN ax[i] ELSE b[i - j]
  <2>1. ax \in Seq(F) /\ b \in Seq(F) /\ Len(ax) = j
    BY <1>2, <1>3
  <2>2. /\ ax \o b \in Seq(F) /\ Len(ax \o b) = Len(ax) + Len(b)
        /\ \A i \in 1..Len(ax) + Len(b) :
             (ax \o b)[i] = IF i <= Len(ax) THEN ax[i] ELSE b[i - Len(ax)]
    BY <2>1, ConcatProperties, SMTT(30)
  <2> QED BY <2>1, <2>2
<1>5. /\ ax \o b \in Seq(F) /\ Len(ax \o b) = (IF j > Len(q) THEN j ELSE Len(q))
      /\ (ax \o b)[j] = x /\ \A i \in 1..Len(ax \o b) : i # j => (ax \o b)[i] = q[i]
  BY <1>2, <1>3, <1>4
<1> QED BY <1>5 DEF WrittenOver, ax, a, b

LEMMA LastIs ==
  ASSUME NEW S \in SUBSET Nat, NEW n \in S, \A m \in S : m <= n
  PROVE  Last(S) = n
<1>1. Last(S) \in S /\ \A m \in S : m <= Last(S)
  BY DEF Last
<1>2. n <= Last(S) /\ Last(S) <= n /\ n \in Nat /\ Last(S) \in Nat
  BY <1>1
<1> QED BY <1>2

\* What SQLite makes of a copy whose frames have a last one with a token, or none.
LEMMA AnswerIs ==
  ASSUME NEW copy, copy.frames \in Seq(Frame), NEW t,
         Tells(copy.frames, Len(copy.frames), copy.token, t)
  PROVE  QueryAnswer(copy) = t
<1> DEFINE S == {i \in 1..Len(copy.frames) : copy.frames[i].token # None}
<1>1. CASE NotTold(copy.frames, Len(copy.frames)) /\ t = copy.token
  BY <1>1 DEF NotTold, QueryAnswer
<1>2. CASE LastTold(copy.frames, Len(copy.frames), t)
  <2>1. PICK k \in 1..Len(copy.frames) :
          /\ copy.frames[k].token = t /\ t # None
          /\ \A i \in (k + 1)..Len(copy.frames) : copy.frames[i].token = None
    BY <1>2 DEF LastTold
  <2>2. S \in SUBSET Nat /\ k \in S /\ \A m \in S : m <= k
    BY <2>1
  <2>3. Last(S) = k /\ S # {}
    BY <2>2, LastIs
  <2> QED BY <2>1, <2>3 DEF QueryAnswer
<1> QED BY <1>1, <1>2 DEF Tells

LEMMA SoundIs == ASSUME NEW w PROVE \A n \in Sound(w) : n \in 0..Len(w.frames) /\ \A i \in 1..n : Follows(w, i)
BY DEF Sound

\* The copy of the log ends where Cursor's last commit does.
LEMMA CopyEnds ==
  ASSUME SourceInv, InUse
  PROVE  CommittedEnd(wal) = cursor.back[1]
<1> DEFINE n == cursor.back[1]
<1>1. wal \in Log /\ cursor.back \in Nat \X Nat /\ cursor.pos \in Nat
  BY DEF SourceInv, SourceTyped, InUse
<1>2. n \in Nat /\ Len(wal.frames) \in Nat
  BY <1>1 DEF Log
<1>3. /\ n <= cursor.pos /\ cursor.pos <= Len(wal.frames)
      /\ \A i \in 1..cursor.pos : Follows(wal, i)
      /\ n # 0 => wal.frames[n].commits
      /\ \A m \in Sound(wal) : m > n => ~wal.frames[m].commits
  BY DEF SourceInv, LogInv
<1>4. Sound(wal) \in SUBSET Nat
  BY <1>2 DEF Sound
<1>5. \A m \in Commits(wal) : m <= n /\ m # 0
  BY <1>2, <1>3, <1>4 DEF Commits
<1>6. n # 0 => n \in Commits(wal)
  BY <1>1, <1>2, <1>3 DEF Commits, Sound
<1>7. Commits(wal) \in SUBSET Nat
  BY <1>4 DEF Commits
<1> HIDE DEF n
<1>8. CASE n = 0
  <2>1. Commits(wal) = {}
    BY <1>5, <1>7, <1>8
  <2> QED BY <1>8, <2>1 DEF CommittedEnd, n
<1>9. CASE n # 0
  <2>1. Last(Commits(wal)) = n
    BY <1>5, <1>6, <1>7, <1>9, LastIs
  <2> QED BY <1>6, <1>9, <2>1 DEF CommittedEnd, n
<1> QED BY <1>8, <1>9

\* What is copied of a log says, with the database, what Cursor has committed.
LEMMA CopyTells ==
  ASSUME SourceInv, wal # None
  PROVE  /\ CopiedFrames(wal) \in Seq(Frame)
         /\ scene.mode = "wal" =>
              Tells(CopiedFrames(wal), Len(CopiedFrames(wal)), db.token, committed)
         /\ ~InUse => CopiedFrames(wal) = <<>>
<1>1. wal \in Log /\ wal.frames \in Seq(Frame) /\ scene \in Scenes
  BY DEF SourceInv, SourceTyped, Log
<1>2. CASE InUse
  <2> DEFINE n == cursor.back[1]
             c == SubSeq(wal.frames, 1, n)
  <2>1. n \in Nat /\ n <= Len(wal.frames) /\ Tells(wal.frames, n, db.token, committed)
    BY <1>1, <1>2 DEF SourceInv, SourceTyped, LogInv
  <2>2. CopiedFrames(wal) = c
    BY <1>2, CopyEnds DEF CopiedFrames
  <2> HIDE DEF n
  <2>3. c \in Seq(Frame) /\ Len(c) = n /\ \A i \in 1..n : c[i] = wal.frames[i]
    BY <1>1, <2>1
  <2> HIDE DEF c
  <2>4. Tells(c, n, db.token, committed)
    <3>1. NotTold(wal.frames, n) => NotTold(c, n)
      BY <2>3 DEF NotTold
    <3>2. LastTold(wal.frames, n, committed) => LastTold(c, n, committed)
      BY <2>1, <2>3, SMTT(30) DEF LastTold
    <3> QED BY <2>1, <3>1, <3>2 DEF Tells
  <2> QED BY <1>2, <2>2, <2>3, <2>4
<1>3. CASE ~InUse
  <2>1. wal.frames = <<>> /\ (scene.mode = "wal" => db.token = committed)
    BY <1>3 DEF InUse, SourceInv, DatabaseInv
  <2>2. CommittedEnd(wal) = 0
    <3>1. Commits(wal) = {}
      BY <2>1 DEF Commits, Sound
    <3> QED BY <3>1 DEF CommittedEnd
  <2>3. CopiedFrames(wal) = <<>>
    BY <2>1, <2>2 DEF CopiedFrames
  <2>4. <<>> \in Seq(Frame) /\ Len(<<>>) = 0
    OBVIOUS
  <2> QED BY <1>3, <2>1, <2>3, <2>4 DEF Tells, NotTold
<1> QED BY <1>2, <1>3

----------------------------------------------------------------------------
(* What Cursor does to its files.                                           *)

LEMMA InitSource == Init => SourceInv
<1> SUFFICES ASSUME Init PROVE SourceInv
  OBVIOUS
<1>1. <<>> \in Seq(Frame) /\ Len(<<>>) = 0
  OBVIOUS
<1>2. wal # None => wal = [salt |-> 0, frames |-> <<>>, ver |-> 1]
  BY DEF Init
<1>3. SourceTyped
  BY <1>1, <1>2 DEF Init, SourceTyped, Log, Known
<1>4. AgesInv
  BY <1>1, <1>2 DEF Init, AgesInv
<1>5. DatabaseInv /\ LogInv
  BY <1>2 DEF Init, DatabaseInv, LogInv, InUse
<1> QED BY <1>3, <1>4, <1>5 DEF SourceInv

LEMMA BeginLogKeeps == ASSUME SourceInv, BeginLog PROVE SourceInv'
<1>1. /\ wal \in Log /\ writes \in Nat /\ wal.frames \in Seq(Frame) /\ cursor.fresh
      /\ cursor \in [pos : Nat, prev : Nat, back : Nat \X Nat, pending : Tokens \cup {None},
                     fresh : BOOLEAN]
      /\ cursor.pending = None
  BY DEF SourceInv, SourceTyped, BeginLog, Log
<1>2. /\ writes' = writes + 1 /\ UNCHANGED <<scene, db, journal, committed>>
      /\ wal' = [wal EXCEPT !.salt = writes + 1, !.ver = writes + 1]
      /\ cursor' = [cursor EXCEPT !.pos = 0, !.prev = writes + 1, !.back = <<0, writes + 1>>]
      /\ scene.mode = "wal"
  BY DEF BeginLog, Writing, Stamp
<1>3. /\ wal' \in Log /\ wal'.salt = writes + 1 /\ wal'.ver = writes + 1
      /\ wal'.frames = wal.frames
  <2>1. wal' = [wal EXCEPT !.salt = writes + 1, !.ver = writes + 1] /\ writes + 1 \in Nat
    BY <1>1, <1>2
  <2>2. wal \in [salt : Nat, frames : Seq(Frame), ver : Nat]
    BY <1>1 DEF Log
  <2> QED BY <2>1, <2>2 DEF Log
<1>4. /\ cursor' \in [pos : Nat, prev : Nat, back : Nat \X Nat, pending : Tokens \cup {None},
                      fresh : BOOLEAN]
      /\ cursor'.pos = 0 /\ cursor'.prev = writes + 1
      /\ cursor'.back = <<0, writes + 1>> /\ cursor'.back[1] = 0 /\ cursor'.back[2] = writes + 1
      /\ cursor'.pending = None /\ cursor'.fresh
  <2>1. /\ cursor' = [cursor EXCEPT !.pos = 0, !.prev = writes + 1, !.back = <<0, writes + 1>>]
        /\ writes + 1 \in Nat /\ <<0, writes + 1>> \in Nat \X Nat
    BY <1>1, <1>2
  <2> QED BY <1>1, <2>1
<1>5. SourceTyped'
  BY <1>1, <1>2, <1>3, <1>4 DEF SourceInv, SourceTyped
<1>6. wal # None /\ wal' # None /\ Len(wal.frames) \in Nat
  BY <1>1, <1>3
<1>7. AgesInv'
  <2>1. \A i \in 1..Len(wal.frames) : wal.frames[i] \in Frame
    BY <1>1
  <2>2. \A i \in 1..Len(wal.frames) : wal.frames[i].salt <= writes + 1 /\ wal.frames[i].prev <= writes + 1
    <3>1. \A i \in 1..Len(wal.frames) : wal.frames[i].salt <= writes /\ wal.frames[i].prev <= writes
      BY <1>6 DEF SourceInv, AgesInv
    <3>2. \A i \in 1..Len(wal.frames) : wal.frames[i].salt \in Nat /\ wal.frames[i].prev \in Nat
      BY <2>1 DEF Frame
    <3> QED BY <1>1, <3>1, <3>2
  <2>3. db.ver \in 1..(writes + 1)
    BY <1>1 DEF SourceInv, AgesInv
  <2> QED BY <1>1, <1>2, <1>3, <1>4, <1>6, <2>2, <2>3 DEF AgesInv
<1>8. DatabaseInv'
  BY <1>1, <1>2, <1>3, <1>4, <1>6 DEF SourceInv, DatabaseInv, InUse
<1>9. \A n \in Sound(wal') : n = 0
  <2> SUFFICES ASSUME NEW n \in Sound(wal'), n # 0 PROVE FALSE
    OBVIOUS
  <2>1. n \in 0..Len(wal.frames) /\ \A i \in 1..n : Follows(wal', i)
    BY <1>3, SoundIs
  <2>2. Follows(wal', 1) /\ 1 \in 1..Len(wal.frames)
    BY <1>6, <2>1
  <2>3. wal.frames[1].salt <= writes
    BY <1>6, <2>2 DEF SourceInv, AgesInv
  <2> QED BY <1>1, <1>3, <2>2, <2>3 DEF Follows
<1>10. LogInv'
  <2>1. db'.token = committed'
    BY <1>1, <1>2 DEF SourceInv, DatabaseInv
  <2> QED BY <1>3, <1>4, <1>6, <1>9, <2>1 DEF LogInv, StampAt, Tells, NotTold
<1> QED BY <1>5, <1>7, <1>8, <1>10 DEF SourceInv

LEMMA RollBackKeeps == ASSUME SourceInv, RollBack PROVE SourceInv'
<1>1. /\ cursor \in [pos : Nat, prev : Nat, back : Nat \X Nat, pending : Tokens \cup {None},
                     fresh : BOOLEAN]
      /\ cursor' = [cursor EXCEPT !.pos = cursor.back[1], !.prev = cursor.back[2],
                                  !.pending = None]
      /\ UNCHANGED <<scene, db, wal, journal, committed, writes>> /\ InUse
  BY DEF SourceInv, SourceTyped, DatabaseInv, RollBack
<1>2. /\ cursor' \in [pos : Nat, prev : Nat, back : Nat \X Nat, pending : Tokens \cup {None},
                      fresh : BOOLEAN]
      /\ cursor'.pos = cursor.back[1] /\ cursor'.prev = cursor.back[2]
      /\ cursor'.back = cursor.back /\ cursor'.pending = None /\ cursor'.fresh = cursor.fresh
  BY <1>1
<1>3. SourceTyped' /\ AgesInv' /\ DatabaseInv'
  BY <1>1, <1>2 DEF SourceInv, SourceTyped, AgesInv, DatabaseInv, InUse
<1>4. cursor.back[1] \in Nat /\ cursor.pos \in Nat /\ Len(wal.frames) \in Nat
  BY <1>1 DEF SourceInv, SourceTyped, InUse, Log
<1>5. LogInv'
  BY <1>1, <1>2, <1>4 DEF SourceInv, LogInv, InUse, StampAt
<1> QED BY <1>3, <1>5 DEF SourceInv

LEMMA CheckpointKeeps == ASSUME SourceInv, Checkpoint PROVE SourceInv'
<1>1. /\ cursor \in [pos : Nat, prev : Nat, back : Nat \X Nat, pending : Tokens \cup {None},
                     fresh : BOOLEAN]
      /\ cursor' = [cursor EXCEPT !.fresh = TRUE] /\ InUse
      /\ writes' = writes + 1 /\ db' = [token |-> committed, ver |-> writes + 1]
      /\ UNCHANGED <<scene, wal, journal, committed>> /\ writes \in Nat /\ scene.mode = "wal"
  BY DEF SourceInv, SourceTyped, DatabaseInv, Checkpoint, Writing, Stamp
<1>2. /\ cursor' \in [pos : Nat, prev : Nat, back : Nat \X Nat, pending : Tokens \cup {None},
                      fresh : BOOLEAN]
      /\ cursor'.pos = cursor.pos /\ cursor'.prev = cursor.prev
      /\ cursor'.back = cursor.back /\ cursor'.pending = cursor.pending
      /\ cursor.back[1] \in Nat /\ cursor.back[2] \in Nat
  BY <1>1
<1>3. SourceTyped'
  BY <1>1, <1>2 DEF SourceInv, SourceTyped
<1>4. AgesInv'
  <2>1. \A i \in 1..Len(wal.frames) : wal.frames[i] \in Frame
    BY <1>1 DEF SourceInv, SourceTyped, InUse, Log
  <2>2. wal.salt \in Nat /\ wal.ver \in Nat
    BY <1>1 DEF SourceInv, SourceTyped, InUse, Log
  <2>3. \A i \in 1..Len(wal.frames) : wal.frames[i].salt <= writes + 1 /\ wal.frames[i].prev <= writes + 1
    BY <1>1, <2>1, SMTT(30) DEF SourceInv, AgesInv, Frame, InUse
  <2>4. /\ wal.ver \in 1..(writes + 1) /\ wal.salt <= writes + 1 /\ db'.ver = writes + 1
        /\ cursor.prev <= writes + 1 /\ cursor.back[2] <= writes + 1
    BY <1>1, <1>2, <2>2, SMTT(30) DEF SourceInv, AgesInv, InUse
  <2> QED BY <1>1, <1>2, <2>3, <2>4 DEF AgesInv
<1>5. DatabaseInv'
  BY <1>1, <1>2 DEF SourceInv, DatabaseInv, InUse
<1>6. LogInv'
  <2>1. Tells(wal.frames, cursor.back[1], committed, committed)
    BY <1>1 DEF SourceInv, LogInv, Tells
  <2> QED BY <1>1, <1>2, <2>1 DEF SourceInv, LogInv, InUse, StampAt
<1> QED BY <1>3, <1>4, <1>5, <1>6 DEF SourceInv

LEMMA CloseOrOpenKeeps == ASSUME SourceInv, CloseOrOpen PROVE SourceInv'
<1>1. /\ cursor \in [pos : Nat, prev : Nat, back : Nat \X Nat, pending : Tokens \cup {None},
                     fresh : BOOLEAN]
      /\ cursor' = [cursor EXCEPT !.pos = 0] /\ writes' = writes + 1
      /\ wal' \in {[salt |-> 0, frames |-> <<>>, ver |-> writes + 1], None}
      /\ UNCHANGED <<scene, db, journal, committed>> /\ writes \in Nat /\ scene.mode = "wal"
      /\ cursor.fresh /\ cursor.pending = None
  BY DEF SourceInv, SourceTyped, CloseOrOpen, Writing, Stamp
<1>2. /\ cursor' \in [pos : Nat, prev : Nat, back : Nat \X Nat, pending : Tokens \cup {None},
                      fresh : BOOLEAN]
      /\ cursor'.prev = cursor.prev /\ cursor'.back = cursor.back
      /\ cursor'.pending = None /\ cursor'.fresh /\ cursor.back[2] \in Nat
  BY <1>1
<1>3. <<>> \in Seq(Frame) /\ Len(<<>>) = 0
  OBVIOUS
<1>4. SourceTyped'
  <2>1. wal' \in Log \cup {None}
    <3>1. writes + 1 \in Nat
      BY <1>1
    <3>2. [salt |-> 0, frames |-> <<>>, ver |-> writes + 1] \in Log
      BY <1>3, <3>1 DEF Log
    <3> QED BY <1>1, <3>2
  <2> QED BY <1>1, <1>2, <2>1 DEF SourceInv, SourceTyped
<1>5. AgesInv'
  BY <1>1, <1>2, <1>3, SMTT(30) DEF SourceInv, SourceTyped, AgesInv
<1>6. DatabaseInv' /\ LogInv'
  BY <1>1, <1>2 DEF SourceInv, DatabaseInv, LogInv, InUse
<1> QED BY <1>4, <1>5, <1>6 DEF SourceInv

LEMMA JournalStepKeeps == ASSUME SourceInv, JournalStep PROVE SourceInv'
<1>1. /\ writes' = writes + 1 /\ UNCHANGED <<scene, wal, cursor>> /\ writes \in Nat
      /\ scene.mode = "journal" /\ ~InUse
      /\ \/ journal = 0 /\ journal' = writes + 1 /\ UNCHANGED <<db, committed>>
         \/ /\ journal # 0 /\ UNCHANGED <<journal, committed>>
            /\ \E t \in Tokens \cup {committed} : db' = [token |-> t, ver |-> writes + 1]
         \/ journal # 0 /\ journal' = 0 /\ committed' = db.token /\ UNCHANGED db
  BY DEF SourceInv, SourceTyped, DatabaseInv, JournalStep, Writing, Stamp
<1>2. SourceTyped'
  BY <1>1 DEF SourceInv, SourceTyped, Known
<1>3. AgesInv'
  <2>1. wal # None => wal.frames = <<>> /\ wal.ver \in Nat /\ wal.salt \in Nat
    BY <1>1 DEF SourceInv, SourceTyped, DatabaseInv, InUse, Log
  <2>2. cursor.prev \in Nat /\ cursor.back[2] \in Nat /\ db.ver \in Nat
    BY DEF SourceInv, SourceTyped
  <2>3. db'.ver \in 1..(writes + 1)
    BY <1>1, <2>2 DEF SourceInv, AgesInv
  <2> QED BY <1>1, <2>1, <2>2, <2>3 DEF SourceInv, AgesInv
<1>4. DatabaseInv' /\ LogInv'
  BY <1>1 DEF SourceInv, DatabaseInv, LogInv, InUse
<1> QED BY <1>2, <1>3, <1>4 DEF SourceInv

\* The frame that is written follows the one before it; the one behind it, of an older
\* transaction, has another stamp to follow.
LEMMA WriteFrameKeeps ==
  ASSUME SourceInv, NEW t \in Tokens \cup {None}, NEW commits \in BOOLEAN, WriteFrame(t, commits)
  PROVE  SourceInv'
<1> DEFINE at == cursor.pos + 1
           now == writes + 1
           f == [salt |-> wal.salt, prev |-> cursor.prev, stamp |-> now, token |-> t,
                 commits |-> commits]
           r == WrittenOver(wal.frames, at, f)
           new == IF t = None THEN cursor.pending ELSE t
           s == wal.frames
           b == cursor.back[1]
           CursorType == [pos : Nat, prev : Nat, back : Nat \X Nat, pending : Tokens \cup {None},
                          fresh : BOOLEAN]
<1>1. /\ InUse /\ wal \in [salt : Nat, frames : Seq(Frame), ver : Nat] /\ s \in Seq(Frame)
      /\ cursor \in CursorType /\ writes \in Nat /\ committed \in Known
      /\ scene \in Scenes /\ db \in [token : Known, ver : Nat] /\ journal \in Nat
  BY DEF WriteFrame, InUse, SourceInv, SourceTyped, Log
<1>2. /\ wal' = [wal EXCEPT !.ver = now, !.frames = r]
      /\ t = None => commits /\ cursor.pending # None
      /\ writes' = now /\ UNCHANGED <<scene, db, journal>> /\ scene.mode = "wal"
      /\ IF commits THEN committed' = new ELSE UNCHANGED committed
  BY DEF WriteFrame, Writing, Stamp
<1>3. cursor' = [cursor EXCEPT !.pos = at, !.prev = now, !.fresh = FALSE,
                               !.back = IF commits THEN <<at, now>> ELSE @,
                               !.pending = IF commits THEN None ELSE new]
  BY DEF WriteFrame, Stamp
<1>4. /\ cursor.pos \in Nat /\ b \in Nat /\ b <= cursor.pos /\ cursor.pos <= Len(s)
      /\ cursor.back \in Nat \X Nat /\ cursor.prev \in Nat /\ cursor.pending \in Tokens \cup {None}
      /\ wal.salt \in Nat /\ wal.salt # 0 /\ Len(s) \in Nat /\ at \in 1..(Len(s) + 1) /\ now \in Nat
      /\ \A i \in 1..Len(s) : s[i] \in Frame
  BY <1>1, SMTT(30) DEF SourceInv, LogInv, InUse
<1>5. f \in Frame
  BY <1>1, <1>4 DEF Frame
<1>6. /\ r \in Seq(Frame) /\ Len(r) = (IF at > Len(s) THEN at ELSE Len(s))
      /\ r[at] = f /\ \A i \in 1..Len(r) : i # at => r[i] = s[i]
  <2>1. s \in Seq(Frame) /\ at \in 1..(Len(s) + 1) /\ f \in Frame
    BY <1>1, <1>4, <1>5
  <2> HIDE DEF at, f, s, r
  <2>2. /\ WrittenOver(s, at, f) \in Seq(Frame)
        /\ Len(WrittenOver(s, at, f)) = IF at > Len(s) THEN at ELSE Len(s)
        /\ WrittenOver(s, at, f)[at] = f
        /\ \A i \in 1..Len(WrittenOver(s, at, f)) : i # at => WrittenOver(s, at, f)[i] = s[i]
    BY <2>1, PutFrame
  <2> QED BY <2>2 DEF r, s
<1> HIDE DEF r
<1>7. /\ wal' \in Log /\ wal' # None /\ wal'.salt = wal.salt /\ wal'.ver = now /\ wal'.frames = r
  <2>1. [wal EXCEPT !.ver = now, !.frames = r] \in [salt : Nat, frames : Seq(Frame), ver : Nat]
    BY <1>1, <1>4, <1>6
  <2> QED BY <1>1, <1>2, <2>1 DEF Log
<1>8. new \in Tokens /\ (IF commits THEN None ELSE new) \in Tokens \cup {None}
  BY <1>2, <1>4
<1>9. /\ cursor' \in CursorType /\ cursor'.pos = at /\ cursor'.prev = now /\ ~cursor'.fresh
      /\ cursor'.back = (IF commits THEN <<at, now>> ELSE cursor.back)
      /\ cursor'.pending = (IF commits THEN None ELSE new)
  <2> DEFINE back == IF commits THEN <<at, now>> ELSE cursor.back
             pending == IF commits THEN None ELSE new
  <2>1. back \in Nat \X Nat /\ pending \in Tokens \cup {None} /\ at \in Nat
    BY <1>4, <1>8
  <2>2. cursor' = [cursor EXCEPT !.pos = at, !.prev = now, !.fresh = FALSE,
                                 !.back = back, !.pending = pending]
    BY <1>3
  <2> HIDE DEF back, pending, at, now
  <2>3. /\ cursor' \in CursorType /\ cursor'.pos = at /\ cursor'.prev = now /\ ~cursor'.fresh
        /\ cursor'.back = back /\ cursor'.pending = pending
    BY <1>1, <1>4, <2>1, <2>2
  <2> QED BY <2>3 DEF back, pending
<1>10. committed' = (IF commits THEN new ELSE committed) /\ committed' \in Known
  BY <1>1, <1>2, <1>8 DEF Known
<1>11. SourceTyped'
  BY <1>1, <1>2, <1>4, <1>7, <1>9, <1>10 DEF SourceTyped
<1>12. /\ \A i \in 1..Len(s) : s[i].salt <= writes /\ s[i].prev <= writes
       /\ db.ver \in 1..writes /\ wal.salt <= writes
       /\ cursor.prev <= writes /\ cursor.back[2] <= writes
  BY <1>1 DEF SourceInv, AgesInv, InUse
<1>13. /\ \A i \in 1..cursor.pos : Follows(wal, i)
       /\ cursor.prev = IF cursor.pos = 0 THEN wal.salt ELSE s[cursor.pos].stamp
       /\ cursor.back[2] = IF b = 0 THEN wal.salt ELSE s[b].stamp
       /\ b # 0 => s[b].commits
       /\ \A n \in Sound(wal) : n > b => ~s[n].commits
       /\ cursor.pending # None => cursor.pos > b /\ s[cursor.pos].token = cursor.pending
       /\ Tells(s, b, db.token, committed)
  BY <1>1 DEF SourceInv, LogInv, StampAt
<1>14. /\ at = cursor.pos + 1 /\ now = writes + 1 /\ wal.frames = s /\ b = cursor.back[1]
       /\ f.salt = wal.salt /\ f.prev = cursor.prev /\ f.stamp = now /\ f.token = t
       /\ f.commits = commits
       /\ cursor'.back[1] = (IF commits THEN at ELSE b)
       /\ cursor'.back[2] = (IF commits THEN now ELSE cursor.back[2])
  BY <1>9
<1> HIDE DEF at, now, f, s, b, new
<1>15. AgesInv'
  <2>1. \A i \in 1..Len(r) : r[i].salt <= now /\ r[i].prev <= now
    <3>1. f.salt <= now /\ f.prev <= now
      BY <1>1, <1>4, <1>12, <1>14, SMTT(30)
    <3>2. ASSUME NEW i \in 1..Len(s) PROVE s[i].salt <= now /\ s[i].prev <= now
      <4>1. s[i].salt \in Nat /\ s[i].prev \in Nat
        BY <1>4 DEF Frame
      <4>2. s[i].salt <= writes /\ s[i].prev <= writes
        BY <1>12
      <4>3. now = writes + 1 /\ writes \in Nat
        BY <1>1, <1>14
      <4> QED BY <4>1, <4>2, <4>3
    <3>3. \A i \in 1..Len(r) : i = at \/ i \in 1..Len(s)
      BY <1>4, <1>6
    <3> QED BY <1>6, <3>1, <3>2, <3>3
  <2>2. db.ver \in 1..now /\ wal.salt <= now /\ cursor'.back[2] <= now /\ now \in 1..now
    BY <1>1, <1>4, <1>12, <1>14, SMTT(30)
  <2> QED BY <1>2, <1>4, <1>7, <1>9, <2>1, <2>2 DEF AgesInv
<1>16. DatabaseInv'
  BY <1>1, <1>2, <1>4, <1>7, <1>9 DEF SourceInv, DatabaseInv, InUse
<1>17. \A i \in 1..at : Follows(wal', i)
  <2>1. \A i \in 1..cursor.pos : i \in 1..Len(r) /\ i # at
    BY <1>4, <1>6, <1>14, SMTT(30)
  <2>2. \A i \in 1..cursor.pos : r[i] = s[i]
    BY <1>6, <2>1
  <2>3. ASSUME NEW i \in 1..cursor.pos PROVE Follows(wal', i)
    <3>1. Follows(wal, i) /\ (i # 1 => i - 1 \in 1..cursor.pos)
      BY <1>4, <1>13
    <3> QED BY <1>7, <1>14, <2>2, <3>1 DEF Follows
  <2>4. Follows(wal', at)
    <3>1. at = 1 \/ at - 1 \in 1..cursor.pos
      BY <1>4, <1>14, SMTT(30)
    <3>2. at - 1 = cursor.pos
      BY <1>4, <1>14
    <3> QED BY <1>4, <1>6, <1>7, <1>13, <1>14, <2>2, <3>1, <3>2, SMTT(30) DEF Follows
  <2> QED BY <1>4, <1>14, <2>3, <2>4
<1>18. \A n \in Sound(wal') : n \in 0..at
  <2> SUFFICES ASSUME NEW n \in Sound(wal'), n \notin 0..at PROVE FALSE
    OBVIOUS
  <2>1. n \in 0..Len(r) /\ \A i \in 1..n : Follows(wal', i)
    BY <1>7, SoundIs
  <2>2. at + 1 \in 1..n /\ at + 1 \in 1..Len(s) /\ at + 1 \in 1..Len(r)
    BY <1>4, <1>6, <2>1
  <2>3. r[at + 1] = s[at + 1] /\ at + 1 # 1 /\ (at + 1) - 1 = at
    BY <1>4, <1>6, <2>2
  <2>4. r[at + 1].prev = r[at].stamp
    BY <1>7, <2>1, <2>2, <2>3 DEF Follows
  <2>5. s[at + 1].prev = writes + 1
    BY <1>6, <1>14, <2>3, <2>4
  <2> QED BY <1>1, <1>12, <2>2, <2>5, SMTT(30)
<1>19. ASSUME NEW n \in Sound(wal'), n > cursor'.back[1] PROVE ~r[n].commits
  <2>1. n \in 0..at
    BY <1>18
  <2>2. ~commits /\ n > b
    BY <1>4, <1>14, <1>19, <2>1
  <2>3. CASE n = at
    BY <1>6, <1>14, <2>2, <2>3
  <2>4. CASE n # at
    <3>1. n \in 1..cursor.pos /\ n \in 1..Len(r)
      BY <1>4, <1>6, <1>14, <2>1, <2>2, <2>4, SMTT(30)
    <3>2. n \in Sound(wal)
      BY <1>4, <1>13, <1>14, <3>1, SMTT(30) DEF Sound
    <3> QED BY <1>6, <1>13, <2>2, <2>4, <3>1, <3>2
  <2> QED BY <2>3, <2>4
<1>20. IF cursor'.pending = None THEN cursor'.pos = cursor'.back[1]
       ELSE cursor'.pos > cursor'.back[1] /\ r[cursor'.pos].token = cursor'.pending
  <2>1. new # None /\ (t # None => new = t)
    BY <1>8 DEF new
  <2> QED BY <1>2, <1>4, <1>6, <1>9, <1>14, <2>1
<1>21. \A i \in 1..cursor.pos : r[i] = s[i]
  <2>1. \A i \in 1..cursor.pos : i \in 1..Len(r) /\ i # at
    BY <1>4, <1>6, <1>14, SMTT(30)
  <2> QED BY <1>6, <2>1
<1>22. Tells(r, cursor'.back[1], db'.token, committed')
  <2>1. CASE ~commits
    <3>1. \A i \in 1..b : r[i] = s[i]
      BY <1>4, <1>21
    <3>2. NotTold(s, b) => NotTold(r, b)
      BY <3>1 DEF NotTold
    <3>3. LastTold(s, b, committed) => LastTold(r, b, committed)
      <4> SUFFICES ASSUME LastTold(s, b, committed) PROVE LastTold(r, b, committed)
        OBVIOUS
      <4>1. PICK k \in 1..b : /\ s[k].token = committed /\ committed # None
                             /\ \A i \in (k + 1)..b : s[i].token = None
        BY DEF LastTold
      <4>2. \A i \in (k + 1)..b : i \in 1..b
        BY <1>4, <4>1
      <4>3. r[k].token = committed /\ \A i \in (k + 1)..b : r[i].token = None
        BY <3>1, <4>1, <4>2
      <4> QED BY <4>1, <4>3 DEF LastTold
    <3> QED BY <1>2, <1>10, <1>13, <1>14, <2>1, <3>2, <3>3 DEF Tells
  <2>2. CASE commits /\ t # None
    <3>1. at \in 1..at /\ r[at].token = t /\ new = t /\ \A i \in (at + 1)..at : FALSE
      BY <1>4, <1>6, <1>14, <2>2 DEF new
    <3>2. LastTold(r, at, new)
      BY <2>2, <3>1 DEF LastTold
    <3> QED BY <1>10, <1>14, <2>2, <3>2 DEF Tells
  <2>3. CASE commits /\ t = None
    <3>1. new = cursor.pending /\ new # None
      BY <1>8, <2>3 DEF new
    <3>2. cursor.pos > b /\ s[cursor.pos].token = new
      BY <1>13, <3>1
    <3>3. cursor.pos \in 1..at /\ r[cursor.pos].token = new
      <4>1. cursor.pos \in 1..cursor.pos /\ cursor.pos \in 1..at
        BY <1>4, <1>14, <3>2
      <4> QED BY <1>21, <3>2, <4>1
    <3>4. \A i \in (cursor.pos + 1)..at : i = at
      BY <1>4, <1>14
    <3>5. LastTold(r, at, new)
      BY <1>6, <1>14, <2>3, <3>1, <3>3, <3>4 DEF LastTold
    <3> QED BY <1>10, <1>14, <2>3, <3>5 DEF Tells
  <2> QED BY <2>1, <2>2, <2>3
<1>23. LogInv'
  <2>1. /\ cursor'.back[1] <= cursor'.pos /\ cursor'.pos <= Len(r)
        /\ cursor'.back[1] # 0 => r[cursor'.back[1]].commits
    <3>1. at <= Len(r)
      BY <1>4, <1>6
    <3>2. CASE commits
      <4>1. cursor'.back[1] = at /\ cursor'.pos = at /\ r[at].commits
        BY <1>6, <1>9, <1>14, <3>2
      <4> QED BY <1>4, <3>1, <4>1
    <3>3. CASE ~commits
      <4>1. b <= at /\ (b # 0 => b \in 1..cursor.pos)
        BY <1>4, <1>14
      <4>2. b # 0 => r[b].commits
        BY <1>13, <1>21, <4>1
      <4>3. cursor'.back[1] = b /\ cursor'.pos = at
        BY <1>9, <1>14, <3>3
      <4> QED BY <3>1, <4>1, <4>2, <4>3
    <3> QED BY <3>2, <3>3
  <2>2. cursor'.prev = IF cursor'.pos = 0 THEN wal'.salt ELSE r[cursor'.pos].stamp
    BY <1>4, <1>6, <1>9, <1>14, SMTT(30)
  <2>3. cursor'.back[2] = IF cursor'.back[1] = 0 THEN wal'.salt ELSE r[cursor'.back[1]].stamp
    <3>1. CASE commits
      BY <1>4, <1>6, <1>9, <1>14, <3>1, SMTT(30)
    <3>2. CASE ~commits
      BY <1>4, <1>7, <1>13, <1>14, <1>21, <3>2
    <3> QED BY <3>1, <3>2
  <2> QED BY <1>7, <1>9, <1>17, <1>19, <1>20, <1>22, <2>1, <2>2, <2>3 DEF LogInv, StampAt
<1> QED BY <1>11, <1>15, <1>16, <1>23 DEF SourceInv

LEMMA CursorKeeps == ASSUME SourceInv, CursorStep PROVE SourceInv'
BY BeginLogKeeps, RollBackKeeps, CheckpointKeeps, CloseOrOpenKeeps, JournalStepKeeps, WriteFrameKeeps
DEF CursorStep

\* A file that changes becomes younger than whatever has been captured.
LEMMA CursorFacts ==
  ASSUME SourceInv, CursorStep
  PROVE  /\ writes \in Nat /\ writes' \in Nat /\ writes <= writes' /\ scene' = scene
         /\ UNCHANGED <<dir, held, read, cut>>
         /\ db' = db \/ db'.ver = writes + 1
         /\ wal' = wal \/ wal' = None \/ wal'.ver = writes + 1
<1>1. writes \in Nat /\ wal \in Log \cup {None}
  BY DEF SourceInv, SourceTyped
<1>2. \A w \in Log : \A n, f : [w EXCEPT !.ver = n, !.frames = f].ver = n
  BY DEF Log
<1>3. \A w \in Log : \A n, f : [w EXCEPT !.salt = n, !.ver = n].ver = n
  BY DEF Log
<1>4. CASE BeginLog
  BY <1>1, <1>3, <1>4 DEF BeginLog, Writing, Stamp
<1>5. CASE RollBack
  BY <1>1, <1>5 DEF RollBack
<1>6. CASE Checkpoint
  BY <1>1, <1>6 DEF Checkpoint, Writing, Stamp
<1>7. CASE CloseOrOpen
  BY <1>1, <1>7 DEF CloseOrOpen, Writing, Stamp
<1>8. CASE JournalStep
  BY <1>1, <1>8 DEF JournalStep, Writing, Stamp
<1>9. ASSUME NEW t \in Tokens \cup {None}, NEW commits \in BOOLEAN, WriteFrame(t, commits)
      PROVE  /\ writes \in Nat /\ writes' \in Nat /\ writes <= writes' /\ scene' = scene
             /\ UNCHANGED <<dir, held, read, cut>>
             /\ db' = db \/ db'.ver = writes + 1
             /\ wal' = wal \/ wal' = None \/ wal'.ver = writes + 1
  BY <1>1, <1>2, <1>9 DEF WriteFrame, Writing, Stamp
<1> QED BY <1>4, <1>5, <1>6, <1>7, <1>8, <1>9 DEF CursorStep

\* So a copy outlasts what Cursor does.
LEMMA CopiesOutlast ==
  ASSUME SourceInv, SourceInv', CursorStep, NEW p \in Procs, read[p] \in Read, CopyInv(p)
  PROVE  CopyInv(p)'
<1>1. /\ writes \in Nat /\ writes' \in Nat /\ writes <= writes' /\ scene' = scene
      /\ read' = read
      /\ db' = db \/ db'.ver = writes + 1
      /\ wal' = wal \/ wal' = None \/ wal'.ver = writes + 1
  BY CursorFacts
<1>2. \A f \in Files : read[p].seen[f] \in Nat /\ read[p].seen[f] <= writes
  BY DEF CopyInv, Read
<1>3. Captured(p, "db") <=> read[p].seen["db"] = db.ver
  BY DEF Captured, Identity
<1>4. Captured(p, "db")' <=> read[p].seen["db"] = db'.ver
  BY <1>1 DEF Captured, Identity
<1>5. Captured(p, "wal") <=> read[p].seen["wal"] = IF wal = None THEN 0 ELSE wal.ver
  BY DEF Captured, Identity
<1>6. Captured(p, "wal")' <=> read[p].seen["wal"] = IF wal' = None THEN 0 ELSE wal'.ver
  BY <1>1 DEF Captured, Identity
<1>7. Captured(p, "db")' => db' = db
  BY <1>1, <1>2, <1>4 DEF Files
<1>8. wal' # None /\ Captured(p, "wal")' => wal' = wal
  BY <1>1, <1>2, <1>6 DEF Files
<1>9. \A f \in Files : read'[p].seen[f] <= writes'
  BY <1>1, <1>2
<1>10. read'[p].at \in Copying =>
         read'[p].copy.token \in Known /\ (Captured(p, "db")' => read'[p].copy.token = db'.token)
  BY <1>1, <1>3, <1>4, <1>7 DEF CopyInv
<1>11. wal' # None /\ Captured(p, "wal")' => wal # None /\ Captured(p, "wal")
  BY <1>5, <1>6, <1>8
<1> QED BY <1>1, <1>8, <1>9, <1>10, <1>11 DEF CopyInv

----------------------------------------------------------------------------
(* A step of one read, which leaves the files of Cursor alone.               *)

SnapshotOf(p) ==
  read[p].at \in Copying => There(read[p].on) /\ "db" \in dir[read[p].on].files

\* The read of p becomes t.  It takes free locks and drops its own, when nothing
\* that matters is in the directory; it touches what it has locked or just made;
\* and it turns to no directory that somebody has made and not locked yet.
Becomes(p, t) ==
  /\ t \in Read /\ read' = [read EXCEPT ![p] = t]
  /\ UNCHANGED <<scene, db, wal, journal, cursor, committed, writes>> /\ cut \subseteq cut'
  /\ \A d \in Dirs :
       /\ held'[d] # held[d] => {held[d], held'[d]} \subseteq {p, None}
       /\ held[d] = p /\ held'[d] = None => HasLock(d)'
       /\ held'[d] = p => t.on = d /\ t.at \in Locking
       /\ dir'[d] # dir[d] => /\ \/ held[d] = p
                                 \/ read[p].at = "create" /\ read[p].on = d
                                 \/ dir[d].state = "unused"
                              /\ held'[d] # None \/ dir'[d].files \subseteq {"lock"}
                              /\ held[d] = None /\ dir[d].state # "unused" => HasLock(d)'
                              /\ dir'[d].state # "unused"
       /\ dir'[d].state # "there" => dir'[d].files = {}
  /\ t.on \in {None, read[p].on} \/ dir[t.on].state = "unused" \/ dir[t.on].files # {}
  /\ t.on \in Dirs => dir'[t.on].state # "unused"

LEMMA ReadKeeps ==
  ASSUME IInv, NEW p \in Procs, NEW t, Becomes(p, t), DirsTyped',
         CopyInv(p)', LockInv(p)', SnapshotOf(p)'
  PROVE  IInv'
<1>1. /\ t \in Read /\ read' = [read EXCEPT ![p] = t] /\ read \in [Procs -> Read]
      /\ read' \in [Procs -> Read] /\ read'[p] = t
      /\ UNCHANGED <<scene, db, wal, journal, cursor, committed, writes>>
      /\ dir \in [Dirs -> [state : {"unused", "there", "gone"}, files : SUBSET {"lock", "db", "wal"}]]
      /\ held \in [Dirs -> Procs \cup {None}]
  BY DEF Becomes, IInv, DirsTyped
<1>2. SourceInv'
  BY <1>1 DEF IInv, SourceInv, SourceTyped, AgesInv, DatabaseInv, LogInv, InUse, StampAt
<1>3. \A d \in Dirs : DirInv(d)
  BY DEF IInv
<1>4. ASSUME NEW q \in Procs, q # p PROVE CopyInv(q)' /\ LockInv(q)' /\ SnapshotOf(q)'
  <2>1. read'[q] = read[q] /\ read[q] \in Read
    BY <1>1, <1>4
  <2>2. CopyInv(q) /\ LockInv(q) /\ LockInv(p)
    BY DEF IInv
  <2>3. CopyInv(q)'
    <3>1. \A f \in Files : Captured(q, f)' <=> Captured(q, f)
      BY <1>1, <2>1 DEF Captured, Identity
    <3> QED BY <1>1, <2>1, <2>2, <3>1 DEF CopyInv, Files
  <2>4. \A d \in Dirs : held[d] = q => held'[d] = q /\ dir'[d] = dir[d]
    <3> SUFFICES ASSUME NEW d \in Dirs, held[d] = q PROVE held'[d] = q /\ dir'[d] = dir[d]
      OBVIOUS
    <3>1. held'[d] = q
      BY <1>4 DEF Becomes
    <3>2. dir[d].state # "unused"
      BY <1>3 DEF DirInv
    <3>3. ~(read[p].at = "create" /\ read[p].on = d)
      BY <2>2 DEF LockInv
    <3> QED BY <1>4, <3>1, <3>2, <3>3 DEF Becomes
  <2>5. \A d \in Dirs : HasLock(d) /\ dir'[d] = dir[d] => HasLock(d)'
    BY DEF Becomes, HasLock, There
  <2>6. read[q].at \in Locking => read[q].on \in Dirs /\ held[read[q].on] = q
    BY <2>2 DEF LockInv
  <2>7. ASSUME NEW d \in Dirs, read[q].on = d, read[q].at = "flock", held'[d] = None
        PROVE  HasLock(d)'
    <3>1. held[d] # None \/ HasLock(d)
      BY <2>2, <2>7 DEF LockInv
    <3>2. dir[d].state # "unused"
      BY <1>3, <2>7 DEF DirInv
    <3>3. CASE held[d] # None
      BY <2>7, <3>3 DEF Becomes
    <3>4. CASE held[d] = None
      BY <2>5, <2>7, <3>1, <3>2, <3>4 DEF Becomes
    <3> QED BY <3>3, <3>4
  <2>8. read[q].at = "create" =>
          /\ There(read[q].on)' /\ dir'[read[q].on].files = {} /\ held'[read[q].on] = None
          /\ \A o \in Procs \ {q} : read'[o].on # read[q].on
    <3> SUFFICES ASSUME read[q].at = "create" PROVE <2>8!2
      OBVIOUS
    <3> DEFINE d == read[q].on
    <3>1. /\ d \in Dirs /\ There(d) /\ dir[d].files = {} /\ held[d] = None
          /\ \A o \in Procs \ {q} : read[o].on # d
      BY <2>2 DEF LockInv
    <3> HIDE DEF d
    <3>2. dir'[d] = dir[d]
      BY <1>4, <3>1 DEF Becomes, There
    <3>3. t.on # d
      BY <1>4, <3>1 DEF Becomes, There
    <3>4. held'[d] = None
      BY <1>1, <3>1, <3>3 DEF Becomes
    <3>5. \A o \in Procs \ {q} : read'[o].on # d
      BY <1>1, <3>1, <3>3
    <3> QED BY <2>1, <3>1, <3>2, <3>4, <3>5 DEF There, d
  <2>9. LockInv(q)'
    <3>1. \A d \in Dirs : read[q].on = d /\ read[q].at \in Using => HasLock(d)'
      BY <2>2, <2>4, <2>5, <2>6 DEF LockInv, Using, Locking
    <3>2. read[q].at \in Locking => held'[read[q].on] = q
      BY <2>4, <2>6
    <3>3. read[q].at \in Locking \cup {"lock", "create", "flock"} => read[q].on \in Dirs
      BY <2>2 DEF LockInv
    <3> QED BY <2>1, <2>7, <2>8, <3>1, <3>2, <3>3 DEF LockInv, HasLock, There, Using, Locking
  <2>10. SnapshotOf(q)'
    <3>1. SnapshotOf(q)
      BY DEF IInv, SnapshotKept, SnapshotOf
    <3> QED BY <2>1, <2>4, <2>6, <3>1 DEF SnapshotOf, There, Locking
  <2> QED BY <2>3, <2>9, <2>10
<1>5. ASSUME NEW d \in Dirs PROVE DirInv(d)'
  <2>1. DirInv(d) /\ (held'[d] \in Procs \cup {None})
    BY <1>3 DEF DirsTyped
  <2>2. held'[d] # None => read'[held'[d]].on = d /\ read'[held'[d]].at \in Locking
    <3>1. CASE held'[d] = p
      BY <1>1, <3>1 DEF Becomes
    <3>2. CASE held'[d] # p /\ held'[d] # None
      <4>1. held'[d] = held[d]
        BY <3>2 DEF Becomes
      <4> QED BY <1>1, <2>1, <3>2, <4>1 DEF DirInv
    <3> QED BY <3>1, <3>2
  <2>3. dir'[d].state = "unused" => held'[d] = None /\ \A o \in Procs : read'[o].on # d
    <3> SUFFICES ASSUME dir'[d].state = "unused" PROVE <2>3!2
      OBVIOUS
    <3>1. dir'[d] = dir[d]
      BY DEF Becomes
    <3>2. held[d] = None /\ \A o \in Procs : read[o].on # d
      BY <2>1, <3>1 DEF DirInv
    <3>3. t.on # d
      BY DEF Becomes
    <3>4. held'[d] # p
      BY <3>3 DEF Becomes
    <3>5. held'[d] = None
      BY <3>2, <3>4 DEF Becomes
    <3> QED BY <1>1, <3>2, <3>3, <3>5
  <2> QED BY <2>2, <2>3 DEF DirInv, Becomes
<1>6. CopiesRecoverable'
  <2> SUFFICES ASSUME NEW d \in Dirs, d \notin cut', dir'[d].files \cap {"db", "wal"} # {},
                      held'[d] = None
               PROVE  "lock" \in dir'[d].files
    BY DEF CopiesRecoverable
  <2>1. There(d)'
    BY DEF Becomes, There
  <2>2. dir'[d] = dir[d]
    BY DEF Becomes
  <2>3. held[d] = None \/ held[d] = p
    BY <1>1 DEF Becomes
  <2>4. CASE held[d] = p
    BY <2>1, <2>4 DEF Becomes, HasLock
  <2>5. CASE held[d] = None
    BY <2>2, <2>5 DEF Becomes, IInv, CopiesRecoverable
  <2> QED BY <2>3, <2>4, <2>5
<1>7. \A q \in Procs : CopyInv(q)' /\ LockInv(q)' /\ SnapshotOf(q)'
  BY <1>4
<1>8. SnapshotKept'
  BY <1>7 DEF SnapshotKept, SnapshotOf
<1> QED BY <1>1, <1>2, <1>5, <1>6, <1>7, <1>8 DEF IInv

LEMMA Facts ==
  ASSUME IInv, NEW p \in Procs
  PROVE  /\ read \in [Procs -> Read] /\ read[p] \in Read
         /\ CopyInv(p) /\ LockInv(p) /\ SnapshotOf(p) /\ SourceInv /\ DirsTyped
         /\ \A d \in Dirs : DirInv(d) /\ (held[d] = p => read[p].on = d /\ read[p].at \in Locking)
         /\ writes \in Nat
BY DEF IInv, DirInv, SnapshotKept, SnapshotOf, SourceInv, SourceTyped

\* A step that neither locks nor writes.
LEMMA QuietKeeps ==
  ASSUME IInv, NEW p \in Procs, NEW t \in Read, read' = [read EXCEPT ![p] = t], Reads, Elsewhere,
         CopyInv(p)', LockInv(p)', SnapshotOf(p)',
         \A d \in Dirs : held[d] = p => t.on = d /\ t.at \in Locking,
         t.on \in {None, read[p].on} \/ (t.on \in Dirs /\ dir[t.on].files # {})
  PROVE  IInv'
<1>1. DirsTyped' /\ \A d \in Dirs : dir'[d] = dir[d] /\ held'[d] = held[d]
  BY DEF IInv, DirsTyped, Elsewhere
<1>2. UNCHANGED <<scene, db, wal, journal, cursor, committed, writes>> /\ cut \subseteq cut'
  BY DEF Reads, sourceVars
<1>3. \A d \in Dirs : DirInv(d)
  BY DEF IInv
<1>4. held \in [Dirs -> Procs \cup {None}]
  BY DEF IInv, DirsTyped
<1>5. Becomes(p, t)
  BY <1>1, <1>2, <1>3, <1>4 DEF Becomes, DirInv
<1> QED BY <1>1, <1>5, ReadKeeps

LEMMA NoReadIs == NoRead \in Read /\ NoRead.at = "idle" /\ NoRead.on = None /\ \A f \in Files : NoRead.seen[f] = 0
<1>1. <<>> \in Seq(Frame)
  OBVIOUS
<1> QED BY <1>1 DEF NoRead, Read, Stages, Files

LEMMA IdleKeeps ==
  ASSUME NEW p \in Procs, read'[p] = NoRead, writes' \in Nat
  PROVE  CopyInv(p)' /\ LockInv(p)' /\ SnapshotOf(p)'
BY NoReadIs DEF CopyInv, LockInv, SnapshotOf, Locking, Using, Copying, Past, Copied

\* A read that gives up with nothing locked.
LEMMA GivesUpKeeps ==
  ASSUME IInv, NEW p \in Procs, read[p].at \notin Locking, read' = [read EXCEPT ![p] = NoRead],
         Reads, Elsewhere
  PROVE  IInv'
<1>1. /\ read \in [Procs -> Read] /\ writes \in Nat /\ \A d \in Dirs : held[d] # p
      /\ NoRead \in Read /\ NoRead.on = None
  BY Facts, NoReadIs
<1>2. read'[p] = NoRead /\ writes' \in Nat
  BY <1>1 DEF Reads, sourceVars
<1>3. CopyInv(p)' /\ LockInv(p)' /\ SnapshotOf(p)'
  BY <1>2, IdleKeeps
<1> QED BY <1>1, <1>3, QuietKeeps

\* A step before anything is locked, which keeps what was captured or captures more.
LEMMA CapturesKeeps ==
  ASSUME IInv, NEW p \in Procs, NEW t \in Read, read[p].at \notin Locking, Reads, Elsewhere,
         read' = [read EXCEPT ![p] = t],
         t.on = read[p].on, t.at \in {"wal", "journal", "recover"},
         \A f \in Files : t.seen[f] <= writes,
         t.at = "recover" => t.seen["journal"] = 0
  PROVE  IInv'
<1>1. read \in [Procs -> Read] /\ \A d \in Dirs : held[d] # p
  BY Facts
<1>2. read'[p] = t /\ writes' = writes
  BY <1>1 DEF Reads, sourceVars
<1>3. CopyInv(p)' /\ LockInv(p)' /\ SnapshotOf(p)'
  BY <1>2 DEF CopyInv, LockInv, SnapshotOf, Locking, Using, Copying, Past, Copied
<1> QED BY <1>1, <1>3, QuietKeeps

LEMMA StartKeeps == ASSUME IInv, NEW p \in Procs, Start(p) PROVE IInv'
<1> DEFINE t == [read[p] EXCEPT !.at = "wal", !.seen["db"] = Identity("db")]
<1>1. read \in [Procs -> Read] /\ read[p] \in Read /\ CopyInv(p) /\ SourceInv
  BY Facts
<1>2. Identity("db") \in Nat /\ Identity("db") <= writes
  BY <1>1 DEF Identity, SourceInv, SourceTyped, AgesInv
<1>3. /\ t \in Read /\ t.on = read[p].on /\ t.at = "wal"
      /\ t.seen = [read[p].seen EXCEPT !["db"] = Identity("db")]
  BY <1>1, <1>2 DEF Read, Stages
<1>4. \A f \in Files : t.seen[f] <= writes
  BY <1>1, <1>2, <1>3 DEF CopyInv, Read
<1>5. read' = [read EXCEPT ![p] = t]
  BY DEF Start
<1>6. read[p].at \notin Locking /\ Reads /\ Elsewhere
  BY DEF Start, Locking, Copying
<1> HIDE DEF t
<1> QED BY <1>3, <1>4, <1>5, <1>6, CapturesKeeps

LEMMA CaptureWalKeeps == ASSUME IInv, NEW p \in Procs, CaptureWal(p) PROVE IInv'
<1> DEFINE t == [read[p] EXCEPT !.at = "journal", !.seen["wal"] = Identity("wal")]
<1>1. read \in [Procs -> Read] /\ read[p] \in Read /\ CopyInv(p) /\ SourceInv
  BY Facts
<1>2. Identity("wal") \in Nat /\ Identity("wal") <= writes
  BY <1>1 DEF Identity, SourceInv, SourceTyped, AgesInv
<1>3. /\ t \in Read /\ t.on = read[p].on /\ t.at = "journal"
      /\ t.seen = [read[p].seen EXCEPT !["wal"] = Identity("wal")]
  BY <1>1, <1>2 DEF Read, Stages
<1>4. \A f \in Files : t.seen[f] <= writes
  BY <1>1, <1>2, <1>3 DEF CopyInv, Read
<1>5. read' = [read EXCEPT ![p] = t]
  BY DEF CaptureWal
<1>6. read[p].at \notin Locking /\ Reads /\ Elsewhere
  BY DEF CaptureWal, Locking, Copying
<1> HIDE DEF t
<1> QED BY <1>3, <1>4, <1>5, <1>6, CapturesKeeps

LEMMA CaptureJournalKeeps == ASSUME IInv, NEW p \in Procs, CaptureJournal(p) PROVE IInv'
<1> DEFINE L == {d \in Dirs : There(d)}
           t == [read[p] EXCEPT !.at = "recover", !.seen["journal"] = Identity("journal"),
                                !.list = L]
<1>1. read \in [Procs -> Read] /\ read[p] \in Read /\ CopyInv(p) /\ writes \in Nat
  BY Facts
<1>2. read[p].at \notin Locking /\ Reads /\ Elsewhere
  BY DEF CaptureJournal, Locking, Copying
<1>3. CASE ~JournalAllows
  <2>1. read' = [read EXCEPT ![p] = NoRead]
    BY <1>3 DEF CaptureJournal
  <2> QED BY <1>2, <2>1, GivesUpKeeps
<1>4. CASE JournalAllows
  <2>1. Identity("journal") = 0
    BY <1>4 DEF JournalAllows, Identity
  <2>2. L \in SUBSET Dirs
    OBVIOUS
  <2>3. /\ t \in Read /\ t.on = read[p].on /\ t.at = "recover"
        /\ t.seen = [read[p].seen EXCEPT !["journal"] = Identity("journal")]
    <3> HIDE DEF L
    <3>1. [read[p].seen EXCEPT !["journal"] = Identity("journal")] \in [Files -> Nat]
      <4>1. read[p].seen \in [Files -> Nat]
        BY <1>1 DEF Read
      <4>2. Identity("journal") \in Nat
        BY <2>1
      <4> QED BY <4>1, <4>2
    <3> QED BY <1>1, <2>1, <2>2, <3>1 DEF Read, Stages
  <2>4. t.seen["journal"] = 0 /\ \A f \in Files : t.seen[f] <= writes
    <3>1. read[p].seen \in [Files -> Nat] /\ \A f \in Files : read[p].seen[f] <= writes
      BY <1>1 DEF CopyInv, Read
    <3>2. "journal" \in Files
      BY DEF Files
    <3> HIDE DEF t
    <3> QED BY <1>1, <2>1, <2>3, <3>1, <3>2
  <2>5. read' = [read EXCEPT ![p] = t]
    BY <1>4 DEF CaptureJournal
  <2> HIDE DEF t
  <2> QED BY <1>2, <2>3, <2>4, <2>5, CapturesKeeps
<1> QED BY <1>3, <1>4

\* What was captured stands while directories are looked after.
LEMMA CopyStands ==
  ASSUME NEW p \in Procs, CopyInv(p), Reads, read[p].at \in Past, read'[p].seen = read[p].seen,
         read'[p].at \notin Copying
  PROVE  CopyInv(p)'
BY DEF CopyInv, Reads, sourceVars, Copying, Copied

LEMMA OpenLockKeeps ==
  ASSUME IInv, NEW p \in Procs, NEW d \in Dirs, OpenLock(p, d)
  PROVE  IInv'
<1>1. /\ read \in [Procs -> Read] /\ read[p] \in Read /\ CopyInv(p)
      /\ read[p].at = "recover" /\ read[p].at \notin Locking /\ read[p].at \in Past /\ Reads /\ Elsewhere
      /\ \A e \in Dirs : held[e] # p
  BY Facts DEF OpenLock, Locking, Copying, Past
<1> DEFINE L == read[p].list \ {d}
<1>2. L \in SUBSET Dirs
  BY <1>1 DEF Read
<1> HIDE DEF L
<1>3. CASE There(d) /\ "lock" \in dir[d].files
  <2> DEFINE t == [read[p] EXCEPT !.at = "lock", !.on = d, !.list = L]
  <2>1. t \in Read /\ t.at = "lock" /\ t.on = d /\ t.seen = read[p].seen
    BY <1>1, <1>2 DEF Read, Stages
  <2>2. read' = [read EXCEPT ![p] = t]
    BY <1>3 DEF OpenLock, L
  <2> HIDE DEF t
  <2>3. read'[p] = t
    BY <1>1, <2>2
  <2>4. CopyInv(p)' /\ LockInv(p)' /\ SnapshotOf(p)'
    BY <1>1, <2>1, <2>3, CopyStands DEF LockInv, SnapshotOf, Locking, Using, Copying
  <2> QED BY <1>1, <1>3, <2>1, <2>2, <2>4, QuietKeeps
<1>4. CASE ~(There(d) /\ "lock" \in dir[d].files)
  <2> DEFINE t == [read[p] EXCEPT !.list = L]
  <2>1. t \in Read /\ t.at = "recover" /\ t.on = read[p].on /\ t.seen = read[p].seen
    BY <1>1, <1>2 DEF Read, Stages
  <2>2. read' = [read EXCEPT ![p] = t]
    BY <1>4 DEF OpenLock, L
  <2> HIDE DEF t
  <2>3. read'[p] = t
    BY <1>1, <2>2
  <2>4. CopyInv(p)' /\ LockInv(p)' /\ SnapshotOf(p)'
    BY <1>1, <2>1, <2>3, CopyStands DEF LockInv, SnapshotOf, Locking, Using, Copying
  <2> QED BY <1>1, <2>1, <2>2, <2>4, QuietKeeps
<1> QED BY <1>3, <1>4

\* A read goes from one stage to another and keeps the rest.
LEMMA GoesIs ==
  ASSUME IInv, NEW p \in Procs, NEW at \in Stages, Goes(p, at)
  PROVE  LET t == [read[p] EXCEPT !.at = at]
         IN  /\ t \in Read /\ read' = [read EXCEPT ![p] = t] /\ read'[p] = t /\ t.at = at
             /\ t.on = read[p].on /\ t.seen = read[p].seen /\ t.copy = read[p].copy
             /\ t.got = read[p].got
<1>1. read \in [Procs -> Read] /\ read[p] \in Read
  BY Facts
<1> QED BY <1>1 DEF Goes, Read

LEMMA TryLockKeeps == ASSUME IInv, NEW p \in Procs, TryLock(p) PROVE IInv'
<1> DEFINE d == read[p].on
<1>1. /\ read \in [Procs -> Read] /\ read[p] \in Read /\ CopyInv(p) /\ LockInv(p)
      /\ read[p].at = "lock" /\ read[p].at \notin Locking /\ read[p].at \in Past
      /\ \A e \in Dirs : held[e] # p /\ DirInv(e)
      /\ DirsTyped
  BY Facts DEF TryLock, Locking, Copying, Past
<1>2. d \in Dirs /\ Reads /\ dir' = dir
  BY <1>1 DEF TryLock, LockInv
<1> DEFINE t(at) == [read[p] EXCEPT !.at = at]
<1>3. CASE Goes(p, "recover") /\ UNCHANGED held
  <2>1. /\ t("recover") \in Read /\ read' = [read EXCEPT ![p] = t("recover")]
        /\ read'[p] = t("recover") /\ t("recover").at = "recover"
        /\ t("recover").on = read[p].on /\ t("recover").seen = read[p].seen
    BY <1>3, GoesIs DEF Stages
  <2> HIDE DEF t, d
  <2>2. CopyInv(p)' /\ LockInv(p)' /\ SnapshotOf(p)'
    BY <1>1, <1>2, <2>1, CopyStands DEF LockInv, SnapshotOf, Locking, Using, Copying
  <2> QED BY <1>1, <1>2, <1>3, <2>1, <2>2, QuietKeeps DEF Elsewhere
<1>4. CASE read' = [read EXCEPT ![p] = NoRead] /\ UNCHANGED held
  BY <1>1, <1>2, <1>4, GivesUpKeeps DEF Elsewhere
<1>5. CASE /\ MayRemove(d) /\ There(d)
           /\ Goes(p, "clear") /\ held' = [held EXCEPT ![d] = p]
  <2>1. /\ t("clear") \in Read /\ read' = [read EXCEPT ![p] = t("clear")]
        /\ read'[p] = t("clear") /\ t("clear").at = "clear"
        /\ t("clear").on = d /\ t("clear").seen = read[p].seen
    BY <1>5, GoesIs DEF Stages
  <2>2. held[d] = None
    BY <1>5 DEF MayRemove
  <2> HIDE DEF t, d
  <2>3. /\ held \in [Dirs -> Procs \cup {None}] /\ held'[d] = p
        /\ \A e \in Dirs : e # d => held'[e] = held[e]
    BY <1>1, <1>2, <1>5 DEF DirsTyped
  <2>4. CopyInv(p)' /\ LockInv(p)' /\ SnapshotOf(p)'
    BY <1>1, <1>2, <2>1, <2>3, CopyStands DEF LockInv, SnapshotOf, Locking, Using, Copying
  <2>5. DirsTyped'
    BY <1>1, <1>2, <1>5 DEF DirsTyped
  <2>6. Becomes(p, t("clear"))
    BY <1>1, <1>2, <1>5, <2>1, <2>2, <2>3 DEF Becomes, Reads, sourceVars, Locking, There, DirInv, d
  <2> QED BY <2>4, <2>5, <2>6, ReadKeeps
<1> QED BY <1>3, <1>4, <1>5 DEF TryLock

\* Whoever removes a directory has it locked until it is gone.
LEMMA RemoveKeeps ==
  ASSUME IInv, NEW p \in Procs, NEW t \in Read, read' = [read EXCEPT ![p] = t], Reads,
         NEW d \in Dirs, read[p].on = d, read[p].at \in {"clear", "drop"},
         RemoveFrom(d) \/ (dir' = dir /\ ~There(d)),
         IF Removed(d) THEN Released(d) /\ t.at \in {"idle", "recover"} ELSE held' = held /\ t = read[p],
         t.on \in {None, read[p].on}, t = NoRead \/ t.seen = read[p].seen
  PROVE  IInv'
<1>1. /\ read \in [Procs -> Read] /\ CopyInv(p) /\ LockInv(p) /\ DirsTyped /\ writes \in Nat
      /\ read[p].at \in Locking /\ read[p].at \in Past
      /\ \A e \in Dirs : DirInv(e) /\ (held[e] = p => read[p].on = e)
  BY Facts DEF Locking, Past
<1>2. held[d] = p /\ dir[d].state # "unused"
  BY <1>1 DEF LockInv, DirInv
<1>3. /\ held \in [Dirs -> Procs \cup {None}] /\ read'[p] = t
      /\ dir \in [Dirs -> [state : {"unused", "there", "gone"}, files : SUBSET {"lock", "db", "wal"}]]
  BY <1>1 DEF DirsTyped
<1>4. /\ \A e \in Dirs : e # d => dir'[e] = dir[e]
      /\ dir' \in [Dirs -> [state : {"unused", "there", "gone"}, files : SUBSET {"lock", "db", "wal"}]]
      /\ dir'[d].state \in {"there", "gone"}
      /\ dir'[d].state # "there" => dir'[d].files = {}
  <2>1. CASE dir' = dir /\ ~There(d)
    BY <1>1, <1>2, <1>3, <2>1 DEF DirInv
  <2>2. CASE RemoveFrom(d)
    <3>1. dir[d].files \in SUBSET {"lock", "db", "wal"} /\ dir[d].state \in {"there", "gone"}
      BY <1>2, <1>3
    <3>2. CASE dir[d].files = {} /\ dir' = [dir EXCEPT ![d].state = "gone"]
      BY <1>3, <3>2
    <3>3. CASE \E f \in dir[d].files : dir' = [dir EXCEPT ![d].files = @ \ {f}]
      <4>1. PICK f \in dir[d].files : dir' = [dir EXCEPT ![d].files = @ \ {f}]
        BY <3>3
      <4>2. dir[d].files \ {f} \in SUBSET {"lock", "db", "wal"}
        BY <3>1
      <4>3. dir[d].state = "there"
        BY <1>1, <4>1 DEF DirInv
      <4> QED BY <1>3, <4>1, <4>2, <4>3
    <3> QED BY <2>2, <3>2, <3>3 DEF RemoveFrom
  <2> QED BY <2>1, <2>2
<1>5. /\ held' \in [Dirs -> Procs \cup {None}] /\ \A e \in Dirs : e # d => held'[e] = held[e]
      /\ held'[d] = IF Removed(d) THEN None ELSE p
  BY <1>2, <1>3 DEF Released
<1>6. Removed(d) <=> dir'[d].state = "gone"
  BY DEF Removed
<1>7. DirsTyped'
  BY <1>4, <1>5 DEF DirsTyped
<1>8. Becomes(p, t)
  <2>1. UNCHANGED <<scene, db, wal, journal, cursor, committed, writes>> /\ cut \subseteq cut'
    BY DEF Reads, sourceVars
  <2>2. ~There(d)' \/ held'[d] = p
    BY <1>4, <1>5, <1>6 DEF There
  <2>3. held'[d] = p => t.on = d /\ t.at \in Locking
    BY <1>1, <1>5
  <2>4. \A e \in Dirs : e # d => held[e] # p /\ (dir[e].state # "there" => dir[e].files = {})
    BY <1>1 DEF DirInv
  <2>5. t.on \in Dirs => dir'[t.on].state # "unused"
    BY <1>4
  <2>6. dir'[d].state = "gone" => dir'[d].files = {}
    BY <1>4
  <2> QED BY <1>2, <1>4, <1>5, <1>6, <2>1, <2>2, <2>3, <2>4, <2>5, <2>6 DEF Becomes, HasLock
<1>9. CopyInv(p)' /\ LockInv(p)' /\ SnapshotOf(p)'
  <2>1. CASE t = NoRead
    BY <1>1, <1>3, <2>1, IdleKeeps DEF Reads, sourceVars
  <2>2. CASE t # NoRead
    <3>1. t.at \in {"recover", "clear", "drop", "idle"} /\ t.at \notin Copying
      BY DEF Copying
    <3>2. CopyInv(p)'
      BY <1>1, <1>3, <2>2, <3>1, CopyStands
    <3>3. t.at \in {"clear", "drop"} => held'[d] = p
      BY <1>5
    <3>4. LockInv(p)'
      BY <1>3, <3>1, <3>3 DEF LockInv, Locking, Using, Copying
    <3> QED BY <1>3, <3>1, <3>2, <3>4 DEF SnapshotOf
  <2> QED BY <2>1, <2>2
<1> QED BY <1>7, <1>8, <1>9, ReadKeeps

LEMMA ClearKeeps == ASSUME IInv, NEW p \in Procs, Clear(p) PROVE IInv'
<1> DEFINE d == read[p].on
<1>1. read \in [Procs -> Read] /\ read[p] \in Read /\ LockInv(p)
  BY Facts
<1>2. d \in Dirs /\ read[p].at = "clear" /\ RemoveFrom(d) /\ Reads
  BY <1>1 DEF Clear, LockInv, Locking
<1>3. CASE Removed(d)
  <2> DEFINE t == [read[p] EXCEPT !.at = "recover"]
  <2>1. Goes(p, "recover") /\ Released(d)
    BY <1>3 DEF Clear
  <2>2. /\ t \in Read /\ read' = [read EXCEPT ![p] = t] /\ t.at = "recover"
        /\ t.on = read[p].on /\ t.seen = read[p].seen
    BY <2>1, GoesIs DEF Stages
  <2> HIDE DEF t, d
  <2> QED BY <1>2, <1>3, <2>1, <2>2, RemoveKeeps DEF d
<1>4. CASE ~Removed(d)
  <2>1. read' = [read EXCEPT ![p] = read[p]] /\ held' = held
    BY <1>1, <1>4 DEF Clear
  <2> QED BY <1>1, <1>2, <1>4, <2>1, RemoveKeeps
<1> QED BY <1>3, <1>4

LEMMA DropKeeps == ASSUME IInv, NEW p \in Procs, Drop(p) PROVE IInv'
<1> DEFINE d == read[p].on
<1>1. read \in [Procs -> Read] /\ read[p] \in Read /\ LockInv(p)
  BY Facts
<1>2. d \in Dirs /\ read[p].at = "drop" /\ Reads /\ (RemoveFrom(d) \/ (dir' = dir /\ ~There(d)))
  BY <1>1 DEF Drop, LockInv, Locking
<1>3. CASE Removed(d)
  <2>1. read' = [read EXCEPT ![p] = NoRead] /\ Released(d)
    BY <1>3 DEF Drop
  <2> QED BY <1>2, <1>3, <2>1, NoReadIs, RemoveKeeps
<1>4. CASE ~Removed(d)
  <2>1. read' = [read EXCEPT ![p] = read[p]] /\ held' = held
    BY <1>1, <1>4 DEF Drop
  <2> QED BY <1>1, <1>2, <1>4, <2>1, RemoveKeeps
<1> QED BY <1>3, <1>4

\* A directory of one's own: nobody has heard of it, and nobody finds it before it has
\* its lock file.
LEMMA MakeDirectoryKeeps == ASSUME IInv, NEW p \in Procs, MakeDirectory(p) PROVE IInv'
<1>1. /\ read \in [Procs -> Read] /\ read[p] \in Read /\ CopyInv(p)
      /\ read[p].at = "recover" /\ read[p].at \in Past /\ Reads /\ held' = held
      /\ \A e \in Dirs : DirInv(e) /\ held[e] # p
      /\ DirsTyped /\ scene \in Scenes
  BY Facts DEF MakeDirectory, Locking, Copying, Past, SourceInv, SourceTyped
<1>2. PICK d \in scene.dirs :
        /\ dir[d].state = "unused" /\ dir' = [dir EXCEPT ![d].state = "there"]
        /\ read' = [read EXCEPT ![p].at = "create", ![p].on = d]
  BY DEF MakeDirectory
<1>3. d \in Dirs
  BY <1>1
<1> DEFINE t == [read[p] EXCEPT !.at = "create", !.on = d]
<1>4. t \in Read /\ t.at = "create" /\ t.on = d /\ t.seen = read[p].seen
  BY <1>1, <1>3 DEF Read, Stages
<1>5. read' = [read EXCEPT ![p] = t]
  BY <1>2
<1> HIDE DEF t
<1>6. /\ read'[p] = t
      /\ dir \in [Dirs -> [state : {"unused", "there", "gone"}, files : SUBSET {"lock", "db", "wal"}]]
      /\ held[d] = None /\ dir[d].files = {} /\ \A q \in Procs : read[q].on # d
  BY <1>1, <1>2, <1>3, <1>5 DEF DirsTyped, DirInv
<1>7. /\ dir'[d].state = "there" /\ dir'[d].files = {}
      /\ \A e \in Dirs : e # d => dir'[e] = dir[e]
      /\ dir' \in [Dirs -> [state : {"unused", "there", "gone"}, files : SUBSET {"lock", "db", "wal"}]]
  BY <1>2, <1>3, <1>6
<1>8. DirsTyped'
  BY <1>1, <1>7 DEF DirsTyped
<1>9. CopyInv(p)' /\ LockInv(p)' /\ SnapshotOf(p)'
  <2>1. CopyInv(p)'
    BY <1>1, <1>4, <1>6, CopyStands DEF Copying
  <2>2. \A q \in Procs \ {p} : read'[q].on # d
    BY <1>1, <1>5, <1>6
  <2>3. LockInv(p)'
    BY <1>1, <1>3, <1>4, <1>6, <1>7, <2>2 DEF LockInv, Locking, Using, Copying, There
  <2> QED BY <1>4, <1>6, <2>1, <2>3 DEF SnapshotOf, Copying
<1>10. Becomes(p, t)
  <2>1. UNCHANGED <<scene, db, wal, journal, cursor, committed, writes>> /\ cut \subseteq cut'
    BY <1>1 DEF Reads, sourceVars
  <2>2. \A e \in Dirs : held'[e] = held[e] /\ held[e] # p
    BY <1>1
  <2>3. \A e \in Dirs : dir'[e].state # "there" => dir'[e].files = {}
    BY <1>1, <1>7 DEF DirInv
  <2>4. \A e \in Dirs : dir'[e] # dir[e] => e = d
    BY <1>7
  <2>5. dir[d].state = "unused"
    BY <1>2
  <2> QED BY <1>4, <1>5, <1>7, <2>1, <2>2, <2>3, <2>4, <2>5 DEF Becomes
<1> QED BY <1>8, <1>9, <1>10, ReadKeeps

LEMMA CreateLockKeeps == ASSUME IInv, NEW p \in Procs, CreateLock(p) PROVE IInv'
<1>1. /\ read \in [Procs -> Read] /\ read[p] \in Read /\ CopyInv(p) /\ LockInv(p)
      /\ read[p].at = "create" /\ read[p].at \in Past /\ Reads /\ held' = held
      /\ \A e \in Dirs : DirInv(e) /\ held[e] # p
      /\ DirsTyped
  BY Facts DEF CreateLock, Locking, Copying, Past
<1>2. PICK d \in Dirs : d = read[p].on
  BY <1>1 DEF LockInv
<1> DEFINE t == [read[p] EXCEPT !.at = "flock"]
<1>3. /\ t \in Read /\ read' = [read EXCEPT ![p] = t] /\ read'[p] = t /\ t.at = "flock"
      /\ t.on = d /\ t.seen = read[p].seen
  BY <1>2, GoesIs DEF CreateLock, Stages
<1> HIDE DEF t
<1>4. /\ dir \in [Dirs -> [state : {"unused", "there", "gone"}, files : SUBSET {"lock", "db", "wal"}]]
      /\ held[d] = None /\ dir[d].files = {} /\ dir[d].state = "there"
      /\ dir' = [dir EXCEPT ![d].files = @ \cup {"lock"}]
  BY <1>1, <1>2 DEF DirsTyped, LockInv, CreateLock, Put, There
<1>5. /\ dir'[d].state = "there" /\ dir'[d].files = {"lock"}
      /\ \A e \in Dirs : e # d => dir'[e] = dir[e]
      /\ dir' \in [Dirs -> [state : {"unused", "there", "gone"}, files : SUBSET {"lock", "db", "wal"}]]
  <2>1. dir[d].files \cup {"lock"} \in SUBSET {"lock", "db", "wal"}
    BY <1>4
  <2> QED BY <1>4, <2>1
<1>6. DirsTyped'
  BY <1>1, <1>5 DEF DirsTyped
<1>7. HasLock(d)'
  BY <1>5 DEF HasLock
<1>8. CopyInv(p)' /\ LockInv(p)' /\ SnapshotOf(p)'
  <2>1. CopyInv(p)'
    BY <1>1, <1>3, CopyStands DEF Copying
  <2>2. LockInv(p)'
    BY <1>3, <1>7 DEF LockInv, Locking, Using, Copying, HasLock, There
  <2> QED BY <1>3, <2>1, <2>2 DEF SnapshotOf, Copying
<1>9. Becomes(p, t)
  BY <1>1, <1>2, <1>3, <1>4, <1>5, <1>7 DEF Becomes, Reads, sourceVars, DirInv
<1> QED BY <1>6, <1>8, <1>9, ReadKeeps

LEMMA FlockKeeps == ASSUME IInv, NEW p \in Procs, Flock(p) PROVE IInv'
<1>1. /\ read \in [Procs -> Read] /\ read[p] \in Read /\ CopyInv(p) /\ LockInv(p)
      /\ read[p].at = "flock" /\ read[p].at \in Past /\ read[p].at \notin Locking /\ Reads /\ dir' = dir
      /\ \A e \in Dirs : DirInv(e) /\ held[e] # p
      /\ DirsTyped
  BY Facts DEF Flock, Locking, Copying, Past
<1>2. PICK d \in Dirs : d = read[p].on
  BY <1>1 DEF LockInv
<1>3. CASE held[d] # None
  BY <1>1, <1>2, <1>3, GivesUpKeeps DEF Flock, Elsewhere
<1>4. CASE held[d] = None
  <2> DEFINE t == [read[p] EXCEPT !.at = "read_db"]
  <2>1. /\ t \in Read /\ read' = [read EXCEPT ![p] = t] /\ read'[p] = t /\ t.at = "read_db"
        /\ t.on = d /\ t.seen = read[p].seen
    BY <1>2, <1>4, GoesIs DEF Flock, Stages
  <2> HIDE DEF t
  <2>2. /\ held \in [Dirs -> Procs \cup {None}] /\ held' = [held EXCEPT ![d] = p]
        /\ held'[d] = p /\ \A e \in Dirs : e # d => held'[e] = held[e]
    BY <1>1, <1>2, <1>4 DEF Flock, DirsTyped
  <2>3. DirsTyped'
    BY <1>1, <2>2 DEF DirsTyped
  <2>4. HasLock(d) /\ HasLock(d)'
    BY <1>1, <1>2, <1>4 DEF LockInv, HasLock, There, Reads
  <2>5. CopyInv(p)' /\ LockInv(p)' /\ SnapshotOf(p)'
    <3>1. CopyInv(p)'
      BY <1>1, <2>1, CopyStands DEF Copying
    <3>2. LockInv(p)'
      BY <2>1, <2>2, <2>4 DEF LockInv, Locking, Using, Copying, HasLock, There
    <3> QED BY <2>1, <3>1, <3>2 DEF SnapshotOf, Copying
  <2>6. dir[d].state # "unused"
    BY <1>1, <1>2 DEF DirInv
  <2>7. Becomes(p, t)
    BY <1>1, <1>2, <1>4, <2>1, <2>2, <2>6 DEF Becomes, Reads, sourceVars, DirInv, Locking
  <2> QED BY <2>3, <2>5, <2>7, ReadKeeps
<1> QED BY <1>3, <1>4

----------------------------------------------------------------------------
(* The copying, under the lock of the directory.                            *)

LEMMA StaysKeeps ==
  ASSUME IInv, NEW p \in Procs, NEW t \in Read, read' = [read EXCEPT ![p] = t], Reads, Elsewhere,
         read[p].at \in Using, t.on = read[p].on, t.at \in Copying \cup {"drop"},
         t.at \in Copying => read[p].at \in Copying, CopyInv(p)'
  PROVE  IInv'
<1>1. /\ read \in [Procs -> Read] /\ LockInv(p) /\ SnapshotOf(p)
      /\ \A e \in Dirs : held[e] = p => read[p].on = e
  BY Facts
<1>2. read'[p] = t /\ t.at \in Locking /\ read[p].at \in Locking
  BY <1>1 DEF Locking, Using
<1>3. /\ t.at \in Using => read[p].at \in Using
      /\ t.at \notin {"create", "flock"}
  BY DEF Using, Copying
<1>4. LockInv(p)' /\ SnapshotOf(p)'
  BY <1>1, <1>2, <1>3 DEF LockInv, SnapshotOf, Elsewhere, HasLock, There, Reads
<1> QED BY <1>1, <1>2, <1>4, QuietKeeps

\* What follows when a file is not what it was, or SQLite does not answer.
LEMMA GivesBackKeeps ==
  ASSUME IInv, NEW p \in Procs, Goes(p, "drop"), Reads, Elsewhere, read[p].at \in Using
  PROVE  IInv'
<1> DEFINE t == [read[p] EXCEPT !.at = "drop"]
<1>1. /\ t \in Read /\ read' = [read EXCEPT ![p] = t] /\ read'[p] = t /\ t.at = "drop"
      /\ t.on = read[p].on /\ t.seen = read[p].seen
  BY GoesIs DEF Stages
<1>2. CopyInv(p) /\ read[p].at \in Past /\ "drop" \notin Copying
  BY Facts DEF Past, Using, Copying
<1> HIDE DEF t
<1>3. CopyInv(p)'
  BY <1>1, <1>2, CopyStands
<1> QED BY <1>1, <1>2, <1>3, StaysKeeps

LEMMA CheckKeeps == ASSUME IInv, NEW p \in Procs, Check(p) PROVE IInv'
<1>1. read[p].at = "check" /\ Reads /\ Elsewhere /\ read[p].at \in Using /\ CopyInv(p)
  BY Facts DEF Check, Using, Copying
<1>2. CASE ~RemainsSafe(p)
  BY <1>1, <1>2, GivesBackKeeps DEF Check
<1>3. CASE RemainsSafe(p)
  <2> DEFINE t == [read[p] EXCEPT !.at = "query"]
  <2>0. Goes(p, "query") /\ "query" \in Stages
    BY <1>3 DEF Check, Stages, Copying
  <2>1. /\ t \in Read /\ read' = [read EXCEPT ![p] = t] /\ read'[p] = t /\ t.at = "query"
        /\ t.on = read[p].on /\ t.seen = read[p].seen /\ t.copy = read[p].copy
    BY <2>0, GoesIs
  <2> HIDE DEF t
  <2>2. CopyInv(p)'
    BY <1>1, <2>1 DEF CopyInv, Captured, Identity, Reads, sourceVars, Past, Copying, Copied, Files
  <2> QED BY <1>1, <2>1, <2>2, StaysKeeps DEF Copying
<1> QED BY <1>2, <1>3

\* What SQLite answers of a copy is a token.
LEMMA AnswerTyped ==
  ASSUME IInv, NEW p \in Procs, read[p].at \in Copied
  PROVE  QueryAnswer(read[p].copy) \in Known
<1> DEFINE c == read[p].copy
<1>1. c.frames \in Seq(Frame) /\ c.token \in Known /\ c.frames \in Seq(Frame)
  BY Facts DEF CopyInv, Read, Copied, Copying
<1>2. CASE NotTold(c.frames, Len(c.frames))
  <2>1. Tells(c.frames, Len(c.frames), c.token, c.token)
    BY <1>2 DEF Tells
  <2> HIDE DEF c
  <2>2. QueryAnswer(c) = c.token
    BY <1>1, <2>1, AnswerIs
  <2> QED BY <1>1, <2>2 DEF c
<1>3. CASE \E t \in Tokens : LastTold(c.frames, Len(c.frames), t)
  <2>1. PICK t \in Tokens : LastTold(c.frames, Len(c.frames), t)
    BY <1>3
  <2>2. Tells(c.frames, Len(c.frames), c.token, t)
    BY <2>1 DEF Tells
  <2> HIDE DEF c
  <2>3. QueryAnswer(c) = t
    BY <1>1, <2>2, AnswerIs
  <2> QED BY <2>3 DEF Known, c
<1> QED BY <1>2, <1>3, Facts DEF CopyInv

LEMMA QueryKeeps == ASSUME IInv, NEW p \in Procs, Query(p) PROVE IInv'
<1>1. /\ read[p].at = "query" /\ Reads /\ Elsewhere /\ read[p].at \in Using /\ CopyInv(p)
      /\ read \in [Procs -> Read] /\ read[p] \in Read
  BY Facts DEF Query, Using, Copying
<1>2. CASE Goes(p, "drop")
  BY <1>1, <1>2, GivesBackKeeps
<1>3. CASE read' = [read EXCEPT ![p].at = "again", ![p].got = QueryAnswer(read[p].copy)]
  <2> DEFINE a == QueryAnswer(read[p].copy)
             t == [read[p] EXCEPT !.at = "again", !.got = a]
  <2>1. a \in Known
    BY <1>1, AnswerTyped DEF Copied
  <2> HIDE DEF a
  <2>2. /\ t \in Read /\ t.at = "again" /\ t.on = read[p].on /\ t.seen = read[p].seen
        /\ t.copy = read[p].copy /\ t.got = a
    BY <1>1, <2>1 DEF Read, Stages, Copying
  <2>3. read' = [read EXCEPT ![p] = t]
    BY <1>3 DEF a
  <2> HIDE DEF t
  <2>4. read'[p] = t
    BY <1>1, <2>3
  <2>5. CopyInv(p)'
    BY <1>1, <2>2, <2>4
    DEF CopyInv, Captured, Identity, Reads, sourceVars, Past, Copying, Copied, Files, a
  <2> QED BY <1>1, <2>2, <2>3, <2>5, StaysKeeps DEF Copying
<1> QED BY <1>2, <1>3 DEF Query

LEMMA CheckAgainKeeps == ASSUME IInv, NEW p \in Procs, CheckAgain(p) PROVE IInv'
<1>1. /\ read[p].at = "again" /\ Reads /\ Elsewhere /\ read[p].at \in Using /\ CopyInv(p)
      /\ read[p].at \in Past
      /\ read \in [Procs -> Read] /\ read[p] \in Read
  BY Facts DEF CheckAgain, Using, Copying, Past
<1> DEFINE g == IF RemainsSafe(p) THEN read[p].got ELSE None
           t == [read[p] EXCEPT !.at = "drop", !.got = g]
<1>2. g \in Known \cup {None}
  BY <1>1 DEF Read
<1>3. read' = [read EXCEPT ![p] = t]
  BY <1>1 DEF CheckAgain, Read
<1> HIDE DEF g
<1>4. t \in Read /\ t.at = "drop" /\ t.on = read[p].on /\ t.seen = read[p].seen
  BY <1>1, <1>2 DEF Read, Stages
<1> HIDE DEF t
<1>5. read'[p] = t /\ "drop" \notin Copying
  BY <1>1, <1>3 DEF Copying
<1>6. CopyInv(p)'
  BY <1>1, <1>4, <1>5, CopyStands
<1> QED BY <1>1, <1>3, <1>4, <1>5, <1>6, StaysKeeps

\* A step that puts a file into the directory the read has locked.
LEMMA PutsKeeps ==
  ASSUME IInv, NEW p \in Procs, NEW t \in Read, read' = [read EXCEPT ![p] = t], Reads, held' = held,
         NEW f \in {"db", "wal"}, Put(read[p].on, f), There(read[p].on),
         read[p].at \in Using, t.on = read[p].on, t.at \in Copying,
         f = "db" \/ read[p].at \in Copying, CopyInv(p)'
  PROVE  IInv'
<1>1. /\ read \in [Procs -> Read] /\ LockInv(p) /\ SnapshotOf(p) /\ DirsTyped
      /\ \A e \in Dirs : DirInv(e) /\ (held[e] = p => read[p].on = e)
  BY Facts
<1>2. PICK d \in Dirs : d = read[p].on
  BY <1>1 DEF LockInv, Using, Locking
<1>3. held[d] = p /\ HasLock(d) /\ read'[p] = t /\ t.at \in Locking /\ held[d] # None
  BY <1>1, <1>2 DEF LockInv, Using, Locking
<1>4. /\ dir \in [Dirs -> [state : {"unused", "there", "gone"}, files : SUBSET {"lock", "db", "wal"}]]
      /\ dir[d].state = "there" /\ dir' = [dir EXCEPT ![d].files = @ \cup {f}]
  BY <1>1, <1>2 DEF DirsTyped, Put, There
<1>5. /\ dir'[d].state = "there" /\ dir'[d].files = dir[d].files \cup {f}
      /\ \A e \in Dirs : e # d => dir'[e] = dir[e]
      /\ dir' \in [Dirs -> [state : {"unused", "there", "gone"}, files : SUBSET {"lock", "db", "wal"}]]
  <2>1. dir[d].files \cup {f} \in SUBSET {"lock", "db", "wal"}
    BY <1>4
  <2> QED BY <1>4, <2>1
<1>6. DirsTyped'
  BY <1>1, <1>5 DEF DirsTyped
<1>7. cut' = cut
  BY DEF Reads
<1>8. HasLock(d)'
  BY <1>3, <1>4, <1>5, <1>7 DEF HasLock, There
<1>9. LockInv(p)'
  <2>1. t.at \notin {"create", "flock"} /\ t.on = d /\ held'[d] = p
    BY <1>2, <1>3 DEF Copying
  <2> QED BY <1>2, <1>3, <1>8, <2>1 DEF LockInv, Using, HasLock, There
<1>10. SnapshotOf(p)'
  <2>1. "db" \in dir'[d].files
    BY <1>1, <1>2, <1>5 DEF SnapshotOf
  <2> QED BY <1>2, <1>3, <1>5, <2>1 DEF SnapshotOf, There
<1>11. Becomes(p, t)
  <2>1. \A e \in Dirs : dir'[e].state # "there" => dir'[e].files = {}
    BY <1>1, <1>5 DEF DirInv
  <2>2. \A e \in Dirs : dir'[e] # dir[e] => e = d
    BY <1>5
  <2>3. t.on = d /\ dir'[d].state # "unused"
    BY <1>2, <1>5
  <2> QED BY <1>1, <1>2, <1>3, <1>5, <1>7, <2>1, <2>2, <2>3 DEF Becomes, Reads, sourceVars
<1> QED BY <1>6, <1>9, <1>10, <1>11, ReadKeeps

LEMMA ReadDbKeeps == ASSUME IInv, NEW p \in Procs, ReadDb(p) PROVE IInv'
<1>1. /\ read[p].at = "read_db" /\ Reads /\ held' = held /\ read[p].at \in Using
      /\ read[p].at \in Past
      /\ read \in [Procs -> Read] /\ read[p] \in Read /\ CopyInv(p) /\ SourceInv
  BY Facts DEF ReadDb, Using, Past
<1>2. CASE ~(Captured(p, "db") /\ There(read[p].on))
  BY <1>1, <1>2, GivesBackKeeps DEF ReadDb, Elsewhere
<1>3. CASE Captured(p, "db") /\ There(read[p].on)
  <2> DEFINE c == [read[p].copy EXCEPT !.token = db.token]
             t == [read[p] EXCEPT !.at = "read_wal", !.copy = c]
  <2>1. db.token \in Known
    BY <1>1 DEF SourceInv, SourceTyped
  <2>2. c \in [token : Known \cup {None}, frames : Seq(Frame)] /\ c.token = db.token
    BY <1>1, <2>1 DEF Read
  <2>3. read' = [read EXCEPT ![p] = t]
    BY <1>1, <1>3 DEF ReadDb, Read
  <2> HIDE DEF c
  <2>4. /\ t \in Read /\ t.at = "read_wal" /\ t.on = read[p].on /\ t.seen = read[p].seen
        /\ t.copy = c
    BY <1>1, <2>2 DEF Read, Stages, Copying
  <2> HIDE DEF t
  <2>5. read'[p] = t
    BY <1>1, <2>3
  <2>6. CopyInv(p)'
    BY <1>1, <2>1, <2>2, <2>4, <2>5 DEF CopyInv, Reads, sourceVars, Past, Copied
  <2>7. Put(read[p].on, "db")
    BY <1>3 DEF ReadDb
  <2> QED BY <1>1, <1>3, <2>3, <2>4, <2>6, <2>7, PutsKeeps DEF Copying
<1> QED BY <1>2, <1>3

LEMMA ReadWalKeeps == ASSUME IInv, NEW p \in Procs, ReadWal(p) PROVE IInv'
<1> DEFINE refused == read[p].seen["wal"] # 0 /\ (Captured(p, "wal") => Damaged(wal))
<1>1. /\ read[p].at = "read_wal" /\ Reads /\ held' = held /\ read[p].at \in Using
      /\ read[p].at \in Past /\ read[p].at \in Copying
      /\ read \in [Procs -> Read] /\ read[p] \in Read /\ CopyInv(p) /\ SourceInv /\ SnapshotOf(p)
  BY Facts DEF ReadWal, Using, Past, Copying
<1>2. CASE refused
  BY <1>1, <1>2, GivesBackKeeps DEF ReadWal, Elsewhere
<1>3. CASE ~refused
  <2> DEFINE s == IF read[p].seen["wal"] = 0 THEN <<>> ELSE CopiedFrames(wal)
             c == [read[p].copy EXCEPT !.frames = s]
             t == [read[p] EXCEPT !.at = "check", !.copy = c]
  <2>1. read[p].seen["wal"] # 0 => wal # None
    BY <1>3 DEF Captured, Identity
  <2>2. s \in Seq(Frame)
    BY <1>1, <2>1, CopyTells
  <2>3. NotTold(s, Len(s)) \/ \E u \in Tokens : LastTold(s, Len(s), u)
    <3>1. CASE read[p].seen["wal"] = 0
      BY <3>1 DEF NotTold
    <3>2. CASE read[p].seen["wal"] # 0 /\ ~InUse
      BY <1>1, <2>1, <3>2, CopyTells DEF NotTold
    <3>3. CASE read[p].seen["wal"] # 0 /\ InUse
      <4>1. scene.mode = "wal"
        BY <1>1, <3>3 DEF SourceInv, SourceTyped, DatabaseInv
      <4>2. s = CopiedFrames(wal) /\ Tells(s, Len(s), db.token, committed)
        BY <1>1, <2>1, <3>3, <4>1, CopyTells
      <4> HIDE DEF s
      <4>3. CASE LastTold(s, Len(s), committed)
        <5>1. PICK k \in 1..Len(s) : s[k].token = committed /\ committed # None
          BY <4>3 DEF LastTold
        <5>2. s[k] \in Frame
          BY <2>2
        <5>3. committed \in Tokens
          BY <5>1, <5>2 DEF Frame
        <5> QED BY <4>3, <5>3
      <4> QED BY <4>2, <4>3 DEF Tells
    <3> QED BY <3>1, <3>2, <3>3
  <2>4. wal # None /\ Captured(p, "wal") => s = CopiedFrames(wal)
    <3>1. wal # None => wal.ver # 0
      BY <1>1 DEF SourceInv, AgesInv
    <3> QED BY <3>1 DEF Captured, Identity
  <2>5. read[p].seen["wal"] = 0 => s = <<>>
    OBVIOUS
  <2>6. read' = [read EXCEPT ![p] = t]
    BY <1>1, <1>3 DEF ReadWal, Read
  <2> HIDE DEF s
  <2>7. /\ c \in [token : Known \cup {None}, frames : Seq(Frame)] /\ c.frames = s
        /\ c.token = read[p].copy.token
    BY <1>1, <2>2 DEF Read
  <2> HIDE DEF c
  <2>8. /\ t \in Read /\ t.at = "check" /\ t.on = read[p].on /\ t.seen = read[p].seen
        /\ t.copy = c
    BY <1>1, <2>7 DEF Read, Stages, Copying
  <2> HIDE DEF t
  <2>9. read'[p] = t
    BY <1>1, <2>6
  <2>10. \A f \in Files : Captured(p, f)' <=> Captured(p, f)
    BY <1>1, <2>8, <2>9 DEF Captured, Identity, Reads, sourceVars
  <2>11. CopyInv(p)'
    <3>1. CopiedFrames(wal)' = CopiedFrames(wal) /\ wal' = wal /\ db' = db /\ writes' = writes
      BY <1>1 DEF Reads, sourceVars
    <3> QED BY <1>1, <2>3, <2>4, <2>5, <2>7, <2>8, <2>9, <2>10, <3>1 DEF CopyInv, Past, Copied, Files
  <2>12. CASE scene.mode = "wal"
    <3>1. Put(read[p].on, "wal") /\ There(read[p].on)
      BY <1>1, <1>3, <2>12 DEF ReadWal, SnapshotOf
    <3> QED BY <1>1, <2>6, <2>8, <2>11, <3>1, PutsKeeps DEF Copying
  <2>13. CASE scene.mode # "wal"
    <3>1. Elsewhere
      BY <1>1, <1>3, <2>13 DEF ReadWal, Elsewhere
    <3> QED BY <1>1, <2>6, <2>8, <2>11, <3>1, StaysKeeps DEF Copying
  <2> QED BY <2>12, <2>13
<1> QED BY <1>2, <1>3

\* Whatever a read was doing, its locks go and its directory stays.
LEMMA KillKeeps == ASSUME IInv, NEW p \in Procs, Kill(p) PROVE IInv'
<1>1. /\ read \in [Procs -> Read] /\ LockInv(p) /\ DirsTyped /\ writes \in Nat
      /\ \A e \in Dirs : DirInv(e) /\ (held[e] = p => read[p].on = e /\ read[p].at \in Locking)
      /\ NoRead \in Read /\ NoRead.on = None
  BY Facts, NoReadIs
<1>2. /\ read' = [read EXCEPT ![p] = NoRead] /\ read'[p] = NoRead /\ writes' = writes
      /\ UNCHANGED <<scene, db, wal, journal, cursor, committed, writes>> /\ dir' = dir
      /\ cut' = IF read[p].at \in {"clear", "drop"} THEN cut \cup {read[p].on} ELSE cut
  BY <1>1 DEF Kill, sourceVars
<1>3. /\ held \in [Dirs -> Procs \cup {None}] /\ held' \in [Dirs -> Procs \cup {None}]
      /\ \A e \in Dirs : held'[e] = IF held[e] = p THEN None ELSE held[e]
  BY <1>1 DEF Kill, DirsTyped
<1>4. DirsTyped'
  BY <1>1, <1>2, <1>3 DEF DirsTyped
<1>5. CopyInv(p)' /\ LockInv(p)' /\ SnapshotOf(p)'
  BY <1>1, <1>2, IdleKeeps
<1>6. ASSUME NEW d \in Dirs, held[d] = p PROVE HasLock(d)'
  <2>1. read[p].on = d /\ (read[p].at \in Using \/ read[p].at \in {"clear", "drop"})
    BY <1>1, <1>6 DEF Locking, Using
  <2>2. CASE read[p].at \in Using
    <3>1. HasLock(d) /\ cut \subseteq cut'
      BY <1>1, <1>2, <2>1, <2>2 DEF LockInv
    <3> QED BY <1>2, <3>1 DEF HasLock, There
  <2>3. CASE read[p].at \in {"clear", "drop"}
    BY <1>2, <2>1, <2>3 DEF HasLock
  <2> QED BY <2>1, <2>2, <2>3
<1>7. Becomes(p, NoRead)
  BY <1>1, <1>2, <1>3, <1>6 DEF Becomes, DirInv
<1> QED BY <1>4, <1>5, <1>7, ReadKeeps

----------------------------------------------------------------------------
(* The theorems.                                                            *)

LEMMA CursorStepKeeps == ASSUME IInv, CursorStep PROVE IInv'
<1>1. SourceInv' /\ UNCHANGED <<dir, held, read, cut>>
  BY CursorKeeps, CursorFacts DEF IInv
<1>2. \A p \in Procs : CopyInv(p)'
  BY <1>1, CopiesOutlast DEF IInv
<1>3. \A p \in Procs : LockInv(p)'
  BY <1>1 DEF IInv, LockInv, HasLock, There
<1>4. \A d \in Dirs : DirInv(d)'
  BY <1>1 DEF IInv, DirInv
<1>5. DirsTyped' /\ SnapshotKept' /\ CopiesRecoverable'
  BY <1>1 DEF IInv, DirsTyped, SnapshotKept, CopiesRecoverable, There
<1> QED BY <1>1, <1>2, <1>3, <1>4, <1>5 DEF IInv

LEMMA UnchangedKeeps == ASSUME IInv, UNCHANGED vars PROVE IInv'
<1>1. /\ UNCHANGED <<scene, db, wal, journal, cursor, committed, writes>>
      /\ UNCHANGED <<dir, held, read, cut>>
  BY DEF vars, sourceVars
<1>2. SourceInv'
  BY <1>1 DEF IInv, SourceInv, SourceTyped, AgesInv, DatabaseInv, LogInv, InUse, StampAt
<1>3. \A p \in Procs : CopyInv(p)'
  BY <1>1 DEF IInv, CopyInv, Captured, Identity
<1>4. \A p \in Procs : LockInv(p)'
  BY <1>1 DEF IInv, LockInv, HasLock, There
<1>5. \A d \in Dirs : DirInv(d)'
  BY <1>1 DEF IInv, DirInv
<1>6. DirsTyped' /\ SnapshotKept' /\ CopiesRecoverable'
  BY <1>1 DEF IInv, DirsTyped, SnapshotKept, CopiesRecoverable, There
<1> QED BY <1>1, <1>2, <1>3, <1>4, <1>5, <1>6 DEF IInv

LEMMA ReadStepKeeps == ASSUME IInv, NEW p \in Procs, ReadStep(p) PROVE IInv'
BY StartKeeps, CaptureWalKeeps, CaptureJournalKeeps, OpenLockKeeps, TryLockKeeps, ClearKeeps,
   MakeDirectoryKeeps, CreateLockKeeps, FlockKeeps, ReadDbKeeps, ReadWalKeeps, CheckKeeps,
   QueryKeeps, CheckAgainKeeps, DropKeeps
DEF ReadStep

LEMMA InitInv == Init => IInv
<1> SUFFICES ASSUME Init PROVE IInv
  OBVIOUS
<1>1. SourceInv
  BY InitSource
<1>2. read \in [Procs -> Read] /\ \A p \in Procs : read[p] = NoRead
  BY NoReadIs DEF Init
<1>3. DirsTyped
  BY DEF Init, DirsTyped
<1>4. \A p \in Procs : CopyInv(p) /\ LockInv(p)
  BY <1>1, <1>2, NoReadIs
  DEF CopyInv, LockInv, Locking, Using, Copying, Past, Copied, SourceInv, SourceTyped
<1>5. \A d \in Dirs : DirInv(d)
  BY <1>2, NoReadIs DEF Init, DirInv
<1>6. SnapshotKept /\ CopiesRecoverable
  BY <1>2, NoReadIs DEF Init, SnapshotKept, CopiesRecoverable, Copying
<1> QED BY <1>1, <1>2, <1>3, <1>4, <1>5, <1>6 DEF IInv

\* Whatever Cursor writes and whoever is killed, the copies are of the files as they
\* are captured and directories belong to whoever has their locks: catalog/oauth_editors.rs.
THEOREM Inductive == Spec => []IInv
<1>1. IInv /\ [Next]_vars => IInv'
  <2> SUFFICES ASSUME IInv, [Next]_vars PROVE IInv'
    OBVIOUS
  <2>1. CASE CursorStep
    BY <2>1, CursorStepKeeps
  <2>2. ASSUME NEW p \in Procs, ReadStep(p) PROVE IInv'
    BY <2>2, ReadStepKeeps
  <2>3. ASSUME NEW p \in Procs, Kill(p) PROVE IInv'
    BY <2>3, KillKeeps
  <2>4. CASE UNCHANGED vars
    BY <2>4, UnchangedKeeps
  <2> QED BY <2>1, <2>2, <2>3, <2>4 DEF Next
<1> QED BY <1>1, InitInv, PTL DEF Spec

\* A lock is held by a read that uses or removes its directory, and directories that
\* do not exist are empty: open_cursor_database_at_with_hooks, recover_cursor_snapshots.
THEOREM TypeCorrect == Spec => []TypeOK
<1>1. IInv => TypeOK
  <2> SUFFICES ASSUME IInv PROVE TypeOK
    OBVIOUS
  <2>1. committed \in Tokens \cup {Old} /\ writes \in Nat
    BY DEF IInv, SourceInv, SourceTyped, Known
  <2>2. \A d \in Dirs :
          /\ dir[d].state \in {"unused", "there", "gone"}
          /\ dir[d].files \subseteq {"lock", "db", "wal"}
          /\ held[d] = None \/ held[d] \in Procs
    BY DEF IInv, DirsTyped
  <2>3. \A d \in Dirs :
          /\ dir[d].state # "there" => dir[d].files = {}
          /\ held[d] # None => read[held[d]].on = d /\ read[held[d]].at \in Locking
    BY DEF IInv, DirInv
  <2>4. \A p \in Procs : read[p].got \in Tokens \cup {None, Old}
    BY DEF IInv, Read, Known
  <2> QED BY <2>1, <2>2, <2>3, <2>4 DEF TypeOK, Locking
<1> QED BY <1>1, Inductive, PTL

\* No other process removes a snapshot that a read is using: recover_cursor_snapshots.
THEOREM SnapshotsAreKept == Spec => []SnapshotKept
<1>1. IInv => SnapshotKept
  BY DEF IInv
<1> QED BY <1>1, Inductive, PTL

\* The user's tokens are copied into no directory that later reads cannot remove,
\* unless a removal was itself cut short: recover_cursor_snapshots.
THEOREM CopiesCanBeRemoved == Spec => []CopiesRecoverable
<1>1. IInv => CopiesRecoverable
  BY DEF IInv
<1> QED BY <1>1, Inductive, PTL

\* What SQLite answered of a copy is committed, if the files are what they were.
LEMMA AnswerIsCommitted ==
  ASSUME IInv, NEW p \in Procs, read[p].at = "again", RemainsSafe(p)
  PROVE  read[p].got = committed
<1> DEFINE c == read[p].copy
<1>1. /\ read[p] \in Read /\ CopyInv(p) /\ SourceInv
      /\ Captured(p, "db") /\ Captured(p, "wal") /\ Captured(p, "journal")
  BY Facts DEF RemainsSafe, Files
<1>2. /\ read[p].got = QueryAnswer(c) /\ c.token = db.token /\ c.frames \in Seq(Frame)
      /\ read[p].seen["wal"] = 0 => c.frames = <<>>
      /\ wal # None => c.frames = CopiedFrames(wal)
      /\ journal = 0
  BY <1>1 DEF CopyInv, Copying, Copied, Past, Read, Captured, Identity
<1>3. wal = None => c.frames = <<>>
  BY <1>1, <1>2 DEF Captured, Identity
<1>4. wal \in Log \cup {None} /\ scene.mode \in {"wal", "journal"}
  BY <1>1 DEF SourceInv, SourceTyped
<1>5. Tells(c.frames, Len(c.frames), c.token, committed)
  <2>1. CASE scene.mode = "wal" /\ wal # None
    BY <1>1, <1>2, <2>1, CopyTells
  <2>2. CASE scene.mode # "wal" \/ wal = None
    <3>1. ~InUse
      BY <1>1, <1>4, <2>2 DEF SourceInv, DatabaseInv, InUse
    <3>2. c.frames = <<>>
      BY <1>1, <1>2, <1>3, <3>1, CopyTells
    <3>3. db.token = committed
      BY <1>1, <1>2, <1>4, <3>1 DEF SourceInv, DatabaseInv
    <3> QED BY <1>2, <3>2, <3>3 DEF Tells, NotTold
  <2> QED BY <2>1, <2>2
<1> HIDE DEF c
<1>6. QueryAnswer(c) = committed
  BY <1>2, <1>5, AnswerIs
<1> QED BY <1>2, <1>6

\* A read ends with a token only where the files are compared for the last time.
LEMMA OnlyCheckAgainComes ==
  ASSUME IInv, [Next]_vars, NEW p \in Procs, Comes(p)
  PROVE  CheckAgain(p)
<1>1. read[p].at = "again" /\ read'[p].at = "drop" /\ read'[p].at # read[p].at
  BY DEF Comes
<1>2. read \in [Procs -> Read]
  BY DEF IInv
<1>3. ~CursorStep /\ ~(UNCHANGED vars)
  BY <1>1, CursorFacts DEF IInv, vars
<1>4. ASSUME NEW q \in Procs, ReadStep(q), q # p PROVE FALSE
  <2>1. read'[p] = read[p]
    BY <1>2, <1>4 DEF ReadStep, Start, CaptureWal, CaptureJournal, OpenLock, TryLock, Clear,
       MakeDirectory, CreateLock, Flock, ReadDb, ReadWal, Check, Query, CheckAgain, Drop, Goes
  <2> QED BY <1>1, <2>1
<1>5. ASSUME NEW q \in Procs, Kill(q) PROVE FALSE
  <2>1. read'[p] = read[p] \/ read'[p] = NoRead
    BY <1>2, <1>5 DEF Kill
  <2> QED BY <1>1, <2>1, NoReadIs
<1>6. ReadStep(p)
  BY <1>3, <1>4, <1>5 DEF Next
<1> QED BY <1>1, <1>6 DEF ReadStep, Start, CaptureWal, CaptureJournal, OpenLock, TryLock, Clear,
    MakeDirectory, CreateLock, Flock, ReadDb, ReadWal, Check, Query, Drop

\* The token that a read comes by is the one that Cursor had committed when its files
\* were compared for the last time, whatever Cursor wrote, rolled back, checkpointed or
\* closed during the read: cursor_database_remains_safe.
THEOREM TokensAreCommitted == Spec => TokenCommitted
<1>1. IInv /\ [Next]_vars => (\A p \in Procs : Comes(p) => read'[p].got = committed)
  <2> SUFFICES ASSUME IInv, [Next]_vars, NEW p \in Procs, Comes(p) PROVE read'[p].got = committed
    OBVIOUS
  <2>1. CheckAgain(p) /\ read'[p].got # None /\ read[p].at = "again"
    BY OnlyCheckAgainComes DEF Comes
  <2>2. read \in [Procs -> Read] /\ read[p] \in Read
    BY DEF IInv
  <2>3. read'[p].got = IF RemainsSafe(p) THEN read[p].got ELSE None
    BY <2>1, <2>2 DEF CheckAgain, Read
  <2> QED BY <2>1, <2>3, AnswerIsCommitted
<1> QED BY <1>1, Inductive, PTL DEF Spec, TokenCommitted

==============================================================================
