---------------------------- MODULE UsageCacheProofs ----------------------------
(****************************************************************************)
(* The disk cache of usage, for every set of readers and logins.  The argument *)
(* is what the lock of an entry is for: from the read of the entry to its      *)
(* replacement only its holder touches it, so that what the holder has read is *)
(* what is there, and the logins it asks for before and after are the only     *)
(* ones that matter.                                                          *)
(****************************************************************************)
EXTENDS UsageCache, TLAPS

USE NoneIsNothing

----------------------------------------------------------------------------
(* The inductive invariant: one part per question, each said of one reader.  *)

Entry   == {"read", "verify", "confirm", "open_temp", "fill_temp", "rename"}
Writing == {"open_temp", "fill_temp", "rename"}

\* A reader with an entry holds its lock, and no other, until it returns.
HeldInv(r) ==
  /\ \A stage \in Entry \cup {"lock"} : At(r, stage) => req[r].identity # None
  /\ \A stage \in Entry \cup {"fetch"} :
       At(r, stage) /\ req[r].identity # None => holder[req[r].identity] = r

Locking(t) == t # None /\ t.at \in Entry \cup {"fetch"}
OnlyInv(r) ==
  \A l \in Logins : holder[l] = r =>
    Locking(req[r]) /\ req[r].identity \in {l, None}

\* What is fetched is of the login of the entry, unless that login is away, or was
\* and came back; and what is written is what was fetched.
FetchedInv(r) ==
  /\ At(r, "confirm") /\ req[r].got # None =>
       /\ req[r].got.usage.whole
       /\ req[r].got.vouched => \/ req[r].got.usage.owner = req[r].identity
                                \/ req[r].identity \in cameBack
                                \/ login # req[r].identity
  /\ \A stage \in Writing : At(r, stage) =>
       /\ req[r].got # None /\ req[r].got.usage.whole
       /\ req[r].got.usage.owner = req[r].identity \/ req[r].identity \in cameBack
  /\ At(r, "rename") => temp[req[r].identity] = req[r].got.usage

\* The login of the moment is among those the reader has to account for.
SinceInv(r) ==
  /\ \A stage \in {"read", "verify", "confirm"} : At(r, stage) => login \in req[r].since
  /\ At(r, "done") /\ req[r].cached # None /\ req[r].reply # None
       => req[r].cached \in req[r].since

\* Past the recheck a fresh entry is there only for a reader that was forced to
\* fetch, or that has no time left to.
IsFresh(l) == file[l] # None /\ file[l].fresh
OnceInv(r) ==
  /\ At(r, "verify") => req[r].snapshot = file[req[r].identity]
  /\ At(r, "fetch") /\ req[r].identity # None /\ IsFresh(req[r].identity)
       => req[r].force \/ Stopped(r)
  /\ At(r, "confirm") /\ req[r].got # None /\ IsFresh(req[r].identity) => req[r].force
  /\ \A stage \in Writing : At(r, stage) /\ IsFresh(req[r].identity) => req[r].force

ReaderInv(r) == HeldInv(r) /\ FetchedInv(r) /\ SinceInv(r) /\ OnceInv(r)

IInv == TypeOK /\ OwnUsage /\ \A r \in Readers : ReaderInv(r) /\ OnlyInv(r)

LEMMA InitInv == Init => IInv
BY DEF Init, IInv, TypeOK, OwnUsage, ReaderInv, HeldInv, OnlyInv, FetchedInv, SinceInv, OnceInv, At

----------------------------------------------------------------------------
(* A step of one reader.                                                    *)

\* The request of r becomes t; the lock of an entry is what lets r at it.
Becomes(r, t) ==
  /\ t \in Request \cup {None}
  /\ req' = [req EXCEPT ![r] = t]
  /\ UNCHANGED <<login, cameBack>>
  /\ \A l \in Logins : /\ holder'[l] = holder[l] \/ {holder[l], holder'[l]} \subseteq {r, None}
                       /\ holder[l] = r \/ (file'[l] = file[l] /\ temp'[l] = temp[l])

TypedFiles ==
  /\ file \in [Logins -> Usage \cup {None}]
  /\ temp \in [Logins -> Usage \cup {None}]
  /\ holder \in [Logins -> Readers \cup {None}]

LEMMA StepKeeps ==
  ASSUME IInv, NEW r \in Readers, NEW t, Becomes(r, t), TypedFiles', OwnUsage', ReaderInv(r)',
         OnlyInv(r)'
  PROVE  IInv'
<1>1. /\ t \in Request \cup {None} /\ req' = [req EXCEPT ![r] = t] /\ login' = login
      /\ cameBack' = cameBack /\ req \in [Readers -> Request \cup {None}]
  BY DEF Becomes, IInv, TypeOK
<1>2. TypeOK'
  BY <1>1 DEF IInv, TypeOK, TypedFiles
<1>3. ASSUME NEW q \in Readers, q # r PROVE ReaderInv(q)' /\ OnlyInv(q)'
  <2>1. req'[q] = req[q] /\ (req[q] # None => req[q].identity \in Logins \cup {None})
    BY <1>1, <1>3 DEF Request
  <2>2. \A stage : At(q, stage)' <=> At(q, stage)
    BY <2>1 DEF At
  <2>3. ReaderInv(q)
    BY DEF IInv
  <2>4. \A l \in Logins : holder[l] = q =>
          holder'[l] = q /\ file'[l] = file[l] /\ temp'[l] = temp[l]
    BY <1>3 DEF Becomes
  <2>5. \A stage \in Entry \cup {"fetch"} : At(q, stage) /\ req[q].identity # None =>
          req[q].identity \in Logins /\ holder[req[q].identity] = q
    BY <2>1, <2>3 DEF ReaderInv, HeldInv, At
  <2>6. HeldInv(q)'
    BY <2>1, <2>2, <2>3, <2>4, <2>5 DEF ReaderInv, HeldInv
  <2>7. \A stage \in Entry : At(q, stage) => req[q].identity # None
    BY <2>3 DEF ReaderInv, HeldInv
  <2>8. FetchedInv(q)'
    BY <1>1, <2>1, <2>2, <2>3, <2>4, <2>5, <2>7 DEF ReaderInv, FetchedInv, Entry, Writing
  <2>9. SinceInv(q)'
    BY <1>1, <2>1, <2>2, <2>3 DEF ReaderInv, SinceInv
  <2>10. OnceInv(q)'
    BY <1>1, <2>1, <2>2, <2>3, <2>4, <2>5, <2>7
    DEF ReaderInv, OnceInv, IsFresh, Entry, Writing, Stopped
  <2>11. OnlyInv(q)'
    <3>1. OnlyInv(q) /\ \A l \in Logins : holder'[l] = q => holder[l] = q
      BY <1>3, NoneIsNothing DEF Becomes, IInv
    <3> QED BY <2>1, <3>1 DEF OnlyInv
  <2> QED BY <2>6, <2>8, <2>9, <2>10, <2>11 DEF ReaderInv
<1> QED BY <1>2, <1>3 DEF IInv

LEMMA NewIsRequest ==
  ASSUME NEW force \in BOOLEAN
  PROVE  NewRequest(force) \in Request /\ NewRequest(force).at = "prepare"
BY DEF NewRequest, Request, Stages

\* A return keeps what it says of itself.
LEMMA ReturnKeeps ==
  ASSUME IInv, NEW r \in Readers, req[r] # None, NEW reply \in Usage \cup {None},
         NEW cached \in Logins \cup {None}, Return(r, reply, cached),
         cached # None /\ reply # None => cached \in req[r].since,
         UNCHANGED <<login, cameBack>>, OwnUsage',
         file' \in [Logins -> Usage \cup {None}], temp' \in [Logins -> Usage \cup {None}],
         \A l \in Logins : holder[l] = r \/ (file'[l] = file[l] /\ temp'[l] = temp[l])
  PROVE  IInv'
<1> DEFINE s == IF cached # None THEN req[r].since ELSE {}
           t == [NewRequest(req[r].force) EXCEPT !.at = "done", !.reply = reply,
                                                 !.cached = cached, !.since = s]
<1>1. /\ req \in [Readers -> Request \cup {None}] /\ req[r] \in Request
      /\ holder \in [Logins -> Readers \cup {None}]
  BY DEF IInv, TypeOK
<1>2. s \in SUBSET (Logins \cup {None}) /\ req[r].force \in BOOLEAN
  BY <1>1 DEF Request
<1>3. /\ t \in Request /\ t.at = "done" /\ t.reply = reply /\ t.cached = cached /\ t.since = s
  <2> HIDE DEF s
  <2> QED BY <1>2, NewIsRequest, SMTT(30), ZenonT(40) DEF Request, Stages
<1>4. req' = [req EXCEPT ![r] = t] /\ holder' = [l \in Logins |-> IF holder[l] = r THEN None ELSE holder[l]]
  BY DEF Return, Unlock
<1> HIDE DEF t
<1>5. Becomes(r, t)
  BY <1>3, <1>4 DEF Becomes
<1>6. TypedFiles'
  BY <1>1, <1>4 DEF TypedFiles
<1>7. req'[r] = t
  BY <1>1, <1>4
<1>8. ReaderInv(r)'
  <2>1. req'[r].at = "done"
        /\ (req'[r].cached # None /\ req'[r].reply # None => req'[r].cached \in req'[r].since)
    BY <1>3, <1>7
  <2> QED BY <2>1 DEF ReaderInv, HeldInv, FetchedInv, SinceInv, OnceInv, At, Entry, Writing
<1>9. OnlyInv(r)'
  BY <1>4, <1>1 DEF OnlyInv
<1> QED BY <1>5, <1>6, <1>8, <1>9, StepKeeps

\* A step that leaves the files and the locks alone.
LEMMA QuietKeeps ==
  ASSUME IInv, NEW r \in Readers, NEW t \in Request \cup {None}, req' = [req EXCEPT ![r] = t],
         UNCHANGED <<login, cameBack, file, temp, holder>>, ReaderInv(r)',
         Locking(req[r]) => Locking(t) /\ t.identity \in {req[r].identity, None}
  PROVE  IInv'
<1>1. Becomes(r, t)
  BY DEF Becomes
<1>2. TypedFiles' /\ OwnUsage'
  BY DEF IInv, TypeOK, TypedFiles, OwnUsage
<1>3. OnlyInv(r)'
  BY DEF IInv, TypeOK, OnlyInv
<1> QED BY <1>1, <1>2, <1>3, StepKeeps

LEMMA CallKeeps == ASSUME IInv, NEW r \in Readers, Call(r), cameBack' = cameBack PROVE IInv'
<1>1. PICK force \in BOOLEAN : req' = [req EXCEPT ![r] = NewRequest(force)]
  BY DEF Call
<1>2. req'[r] = NewRequest(force)
  BY <1>1 DEF IInv, TypeOK
<1>3. NewRequest(force) \in Request /\ req'[r].at = "prepare"
  BY <1>2, NewIsRequest
<1>4. ReaderInv(r)'
  BY <1>3 DEF ReaderInv, HeldInv, FetchedInv, SinceInv, OnceInv, At, Entry, Writing
<1> QED BY <1>1, <1>3, <1>4, QuietKeeps DEF Call, Locking

LEMMA IdentifyKeeps ==
  ASSUME IInv, NEW r \in Readers, Identify(r), cameBack' = cameBack
  PROVE  IInv'
<1> DEFINE t == [req[r] EXCEPT !.identity = login, !.at = "lock"]
<1>1. req \in [Readers -> Request \cup {None}] /\ req[r] \in Request /\ login \in Logins
  BY DEF Identify, At, IInv, TypeOK
<1>2. t \in Request /\ t.at = "lock" /\ t.identity = login
  BY <1>1 DEF Request, Stages
<1>3. req' = [req EXCEPT ![r] = t]
  BY <1>1 DEF Identify, Request
<1> HIDE DEF t
<1>4. req'[r] = t
  BY <1>1, <1>3
<1>5. ReaderInv(r)'
  BY <1>1, <1>2, <1>4 DEF ReaderInv, HeldInv, FetchedInv, SinceInv, OnceInv, At, Entry, Writing
<1> QED BY <1>2, <1>3, <1>5, QuietKeeps DEF Identify, At, Locking, Entry

LEMMA BypassKeeps ==
  ASSUME IInv, NEW r \in Readers, Bypass(r) \/ PrepareFails(r), cameBack' = cameBack
  PROVE  IInv'
<1> DEFINE t == [req[r] EXCEPT !.identity = None, !.at = "fetch"]
<1>1. req \in [Readers -> Request \cup {None}] /\ req[r] \in Request
  BY DEF Bypass, PrepareFails, At, IInv, TypeOK
<1>2. t \in Request /\ t.at = "fetch" /\ t.identity = None
  BY <1>1 DEF Request, Stages
<1>3. req' = [req EXCEPT ![r] = t]
  BY <1>1 DEF Bypass, PrepareFails, DoBypass, Request
<1> HIDE DEF t
<1>4. req'[r] = t
  BY <1>1, <1>3
<1>5. ReaderInv(r)'
  BY <1>2, <1>4 DEF ReaderInv, HeldInv, FetchedInv, SinceInv, OnceInv, At, Entry, Writing
<1> QED BY <1>2, <1>3, <1>5, QuietKeeps DEF Bypass, PrepareFails, DoBypass, Locking

LEMMA LockEntryKeeps ==
  ASSUME IInv, NEW r \in Readers, LockEntry(r), cameBack' = cameBack
  PROVE  IInv'
<1> DEFINE t == [req[r] EXCEPT !.at = "read", !.since = {login}]
           i == req[r].identity
<1>1. /\ req \in [Readers -> Request \cup {None}] /\ req[r] \in Request
      /\ login \in Logins \cup {None} /\ holder \in [Logins -> Readers \cup {None}]
  BY DEF LockEntry, At, IInv, TypeOK
<1>2. i \in Logins /\ holder[i] = None
  BY <1>1 DEF LockEntry, MayLock, LockUnheld, IInv, ReaderInv, HeldInv, Request
<1>3. t \in Request /\ t.at = "read" /\ t.identity = i /\ t.since = {login}
  BY <1>1 DEF Request, Stages
<1>4. req' = [req EXCEPT ![r] = t] /\ holder' = [holder EXCEPT ![i] = r]
  BY <1>1 DEF LockEntry, Request
<1> HIDE DEF t, i
<1>5. Becomes(r, t)
  BY <1>1, <1>2, <1>3, <1>4 DEF Becomes, LockEntry
<1>6. TypedFiles' /\ OwnUsage'
  <2>1. TypedFiles'
    <3>1. UNCHANGED <<file, temp>> /\ TypedFiles
      BY DEF LockEntry, IInv, TypeOK, TypedFiles
    <3> QED BY <1>4, <3>1 DEF TypedFiles
  <2>2. OwnUsage'
    BY DEF LockEntry, IInv, OwnUsage
  <2> QED BY <2>1, <2>2
<1>7. req'[r] = t /\ holder'[i] = r
  BY <1>1, <1>2, <1>4
<1>8. ReaderInv(r)'
  BY <1>2, <1>3, <1>7
  DEF LockEntry, ReaderInv, HeldInv, FetchedInv, SinceInv, OnceInv, At, Entry, Writing
<1>9. OnlyInv(r)'
  <2>1. \A l \in Logins : holder[l] # r
    BY DEF LockEntry, At, IInv, OnlyInv, Locking, Entry
  <2> QED BY <1>1, <1>3, <1>4, <1>7, <2>1 DEF OnlyInv, Locking, Entry
<1> QED BY <1>5, <1>6, <1>8, <1>9, StepKeeps

LEMMA ReadEntryKeeps ==
  ASSUME IInv, NEW r \in Readers, ReadEntry(r), cameBack' = cameBack
  PROVE  IInv'
<1> DEFINE i == req[r].identity
           t == [req[r] EXCEPT !.at = "verify", !.snapshot = file[i]]
<1>1. /\ req \in [Readers -> Request \cup {None}] /\ req[r] \in Request /\ req[r].at = "read"
      /\ file \in [Logins -> Usage \cup {None}]
  BY DEF ReadEntry, At, IInv, TypeOK
<1>2. i \in Logins /\ holder[i] = r /\ login \in req[r].since
  BY <1>1 DEF ReadEntry, At, IInv, ReaderInv, HeldInv, SinceInv, Entry, Request
<1>3. (IF file[i] # None /\ file[i].whole THEN file[i] ELSE None) = file[i]
  BY <1>2 DEF IInv, OwnUsage
<1>4. /\ t \in Request /\ t.at = "verify" /\ t.identity = i /\ t.snapshot = file[i]
      /\ t.since = req[r].since
  BY <1>1, <1>2 DEF Request, Stages
<1>5. req' = [req EXCEPT ![r] = t]
  BY <1>1, <1>3 DEF ReadEntry, Request
<1> HIDE DEF t, i
<1>6. req'[r] = t
  BY <1>1, <1>5
<1>7. ReaderInv(r)'
  BY <1>2, <1>4, <1>6
  DEF ReadEntry, ReaderInv, HeldInv, FetchedInv, SinceInv, OnceInv, At, Entry, Writing
<1> QED BY <1>4, <1>5, <1>7, QuietKeeps DEF ReadEntry, Locking, Entry, i

LEMMA VerifyKeeps ==
  ASSUME IInv, NEW r \in Readers, Verify(r), cameBack' = cameBack
  PROVE  IInv'
<1> DEFINE i == req[r].identity
<1>1. /\ req \in [Readers -> Request \cup {None}] /\ req[r] \in Request /\ req[r].at = "verify"
      /\ file \in [Logins -> Usage \cup {None}] /\ temp \in [Logins -> Usage \cup {None}]
      /\ UNCHANGED <<login, file, temp, cameBack>>
  BY DEF Verify, At, IInv, TypeOK
<1>2. /\ i \in Logins /\ holder[i] = r /\ login \in req[r].since
      /\ req[r].snapshot = file[i] /\ req[r].snapshot \in Usage \cup {None}
  BY <1>1 DEF At, IInv, ReaderInv, HeldInv, SinceInv, OnceInv, Entry, Request
<1>3. PICK same \in CheckBefore(r) :
        LET snapshot == IF same THEN req[r].snapshot ELSE None IN
        IF ~req[r].force /\ req[r].stopped # "late" /\ snapshot # None /\ snapshot.fresh
        THEN Return(r, snapshot, req[r].identity)
        ELSE /\ req' = [req EXCEPT ![r].at = "fetch", ![r].snapshot = snapshot,
                                   ![r].identity = IF same THEN @ ELSE None]
             /\ UNCHANGED holder
  BY DEF Verify
<1>4. same = TRUE \/ same = FALSE
  BY <1>3 DEF CheckBefore, Checked
<1>5. same => login = i
  BY <1>3 DEF CheckBefore, Checked
<1>6. OwnUsage'
  BY <1>1 DEF IInv, OwnUsage
<1> DEFINE s == IF same THEN req[r].snapshot ELSE None
<1>7. s \in Usage \cup {None}
  BY <1>2
<1>8. CASE ~req[r].force /\ req[r].stopped # "late" /\ s # None /\ s.fresh
  <2>1. same /\ Return(r, s, i)
    BY <1>3, <1>8
  <2>2. i \in req[r].since
    BY <1>2, <1>5, <2>1
  <2> HIDE DEF s, i
  <2> QED BY <1>1, <1>2, <1>6, <1>7, <2>1, <2>2, ReturnKeeps
<1>9. CASE ~(~req[r].force /\ req[r].stopped # "late" /\ s # None /\ s.fresh)
  <2> DEFINE j == IF same THEN i ELSE None
             t == [req[r] EXCEPT !.at = "fetch", !.snapshot = s, !.identity = j]
  <2>1. req' = [req EXCEPT ![r].at = "fetch", ![r].snapshot = s,
                           ![r].identity = IF same THEN @ ELSE None] /\ holder' = holder
    BY <1>3, <1>9
  <2>2. j \in Logins \cup {None}
    BY <1>2
  <2>3. req' = [req EXCEPT ![r] = t]
    <3> HIDE DEF s
    <3> QED BY <1>1, <2>1 DEF Request
  <2>4. /\ t \in Request /\ t.at = "fetch" /\ t.identity = j
        /\ t.force = req[r].force /\ t.stopped = req[r].stopped
    <3> HIDE DEF s, j
    <3> QED BY <1>1, <1>7, <2>2 DEF Request, Stages
  <2>5. j # None => (IsFresh(j) => req[r].force \/ req[r].stopped # "no") /\ holder[j] = r
    BY <1>2, <1>9 DEF IsFresh
  <2> HIDE DEF t, j, s
  <2>6. req'[r] = t
    BY <1>1, <2>3
  <2>7. ReaderInv(r)'
    BY <1>1, <2>1, <2>4, <2>5, <2>6
    DEF ReaderInv, HeldInv, FetchedInv, SinceInv, OnceInv, At, Entry, Writing, IsFresh, Stopped
  <2>8. Locking(t) /\ t.identity \in {req[r].identity, None}
    BY <2>4 DEF Locking, i, j
  <2> QED BY <1>1, <2>1, <2>3, <2>4, <2>7, <2>8, QuietKeeps
<1> QED BY <1>8, <1>9

LEMMA FetchKeeps ==
  ASSUME IInv, NEW r \in Readers, Fetch(r), cameBack' = cameBack
  PROVE  IInv'
<1> DEFINE i == req[r].identity
<1>1. /\ req \in [Readers -> Request \cup {None}] /\ req[r] \in Request /\ req[r].at = "fetch"
      /\ file \in [Logins -> Usage \cup {None}] /\ temp \in [Logins -> Usage \cup {None}]
      /\ UNCHANGED <<login, file, temp, cameBack>> /\ login \in Logins \cup {None}
  BY DEF Fetch, At, IInv, TypeOK
<1>2. i \in Logins \cup {None} /\ req[r].snapshot \in Usage \cup {None}
  BY <1>1 DEF Request
<1>3. PICK got \in Outcomes(r) :
        IF req[r].identity # None
        THEN /\ req' = [req EXCEPT ![r].at = "confirm", ![r].got = got, ![r].since = {login},
                                   ![r].snapshot = IF got = None THEN @ ELSE None]
             /\ UNCHANGED holder
        ELSE Return(r, IF got = None THEN None ELSE got.usage, None)
  BY DEF Fetch
<1>4. got # None =>
        /\ ~Stopped(r) /\ got \in Fetched
        /\ got.usage.whole /\ got.usage \in Usage /\ (got.vouched => got.usage.owner = login)
  <2> SUFFICES ASSUME got # None PROVE <1>4!2
    OBVIOUS
  <2>1. ~Stopped(r)
    BY <1>3 DEF Outcomes, Answers
  <2>2. PICK o \in Logins : got = [usage   |-> [owner |-> o, fresh |-> TRUE, whole |-> TRUE],
                                   vouched |-> Vouches(o)]
    BY <1>3, <2>1 DEF Outcomes, Answers
  <2>3. [owner |-> o, fresh |-> TRUE, whole |-> TRUE] \in Usage
    BY DEF Usage
  <2>4. Vouches(o) \in BOOLEAN /\ (Vouches(o) => o = login)
    BY DEF Vouches
  <2> QED BY <2>1, <2>2, <2>3, <2>4 DEF Fetched
<1>5. CASE i = None
  <2> DEFINE u == IF got = None THEN None ELSE got.usage
  <2>1. Return(r, u, None) /\ u \in Usage \cup {None}
    BY <1>3, <1>4, <1>5
  <2>2. OwnUsage'
    BY <1>1 DEF IInv, OwnUsage
  <2> HIDE DEF u
  <2> QED BY <1>1, <2>1, <2>2, ReturnKeeps
<1>6. CASE i # None
  <2> DEFINE s == IF got = None THEN req[r].snapshot ELSE None
             t == [req[r] EXCEPT !.at = "confirm", !.got = got, !.since = {login}, !.snapshot = s]
  <2>1. holder[i] = r
    BY <1>1, <1>6 DEF At, IInv, ReaderInv, HeldInv
  <2>2. IsFresh(i) => req[r].force \/ Stopped(r)
    BY <1>1, <1>6 DEF At, IInv, ReaderInv, OnceInv
  <2>3. s \in Usage \cup {None} /\ got \in Fetched \cup {None}
    BY <1>2, <1>4
  <2>4. holder' = holder /\ req' = [req EXCEPT ![r] = t]
    <3>1. /\ req' = [req EXCEPT ![r].at = "confirm", ![r].got = got, ![r].since = {login},
                                ![r].snapshot = IF got = None THEN @ ELSE None]
          /\ holder' = holder
      BY <1>3, <1>6
    <3> QED BY <1>1, <3>1 DEF Request
  <2>5. /\ t \in Request /\ t.at = "confirm" /\ t.identity = i /\ t.since = {login}
        /\ t.got = got /\ t.force = req[r].force
    <3> HIDE DEF s, i
    <3> QED BY <1>1, <2>3, SMTT(30), ZenonT(40) DEF Request, Stages, i
  <2> HIDE DEF t, s, i
  <2>6. req'[r] = t
    BY <1>1, <2>4
  <2>7. HeldInv(r)' /\ SinceInv(r)'
    BY <1>1, <1>6, <2>1, <2>4, <2>5, <2>6 DEF HeldInv, SinceInv, At, Entry
  <2>8. FetchedInv(r)'
    BY <1>1, <1>4, <2>5, <2>6 DEF FetchedInv, At, Writing
  <2>9. OnceInv(r)'
    BY <1>1, <1>4, <2>2, <2>5, <2>6 DEF OnceInv, At, Writing, IsFresh
  <2>10. Locking(t) /\ t.identity = req[r].identity
    BY <2>5 DEF Locking, Entry, i
  <2> QED BY <1>1, <2>4, <2>5, <2>7, <2>8, <2>9, <2>10, QuietKeeps DEF ReaderInv
<1> QED BY <1>5, <1>6

LEMMA ConfirmKeeps ==
  ASSUME IInv, NEW r \in Readers, Confirm(r), cameBack' = cameBack
  PROVE  IInv'
<1> DEFINE i == req[r].identity
           got == req[r].got
<1>1. /\ req \in [Readers -> Request \cup {None}] /\ req[r] \in Request /\ req[r].at = "confirm"
      /\ file \in [Logins -> Usage \cup {None}] /\ temp \in [Logins -> Usage \cup {None}]
      /\ UNCHANGED <<login, file, temp, cameBack>>
  BY DEF Confirm, At, IInv, TypeOK
<1>2. /\ i \in Logins /\ holder[i] = r /\ login \in req[r].since
      /\ req[r].snapshot \in Usage \cup {None} /\ got \in Fetched \cup {None}
  BY <1>1 DEF At, IInv, ReaderInv, HeldInv, SinceInv, Entry, Request
<1>3. PICK same \in CheckAfter(r) :
        IF same /\ got # None /\ got.vouched
        THEN req' = [req EXCEPT ![r].at = "open_temp", ![r].since = {}] /\ UNCHANGED holder
        ELSE IF same /\ got = None
        THEN Return(r, req[r].snapshot, req[r].identity)
        ELSE Return(r, IF got = None THEN None ELSE got.usage, None)
  BY DEF Confirm
<1>4. same \in BOOLEAN /\ (same => login = i)
  BY <1>3 DEF CheckAfter, CheckedAgain
<1>5. OwnUsage'
  BY <1>1 DEF IInv, OwnUsage
<1>6. CASE same /\ got # None /\ got.vouched
  <2> DEFINE t == [req[r] EXCEPT !.at = "open_temp", !.since = {}]
  <2>1. holder' = holder /\ req' = [req EXCEPT ![r] = t]
    BY <1>1, <1>3, <1>6 DEF Request
  <2>2. /\ t \in Request /\ t.at = "open_temp" /\ t.identity = i /\ t.got = got
        /\ t.force = req[r].force
    BY <1>1 DEF Request, Stages
  <2>3. /\ got.usage.whole /\ (got.usage.owner = i \/ i \in cameBack)
        /\ (IsFresh(i) => req[r].force)
    BY <1>1, <1>4, <1>6 DEF At, IInv, ReaderInv, FetchedInv, OnceInv
  <2> HIDE DEF t, i, got
  <2>4. req'[r] = t
    BY <1>1, <2>1
  <2>5. ReaderInv(r)'
    BY <1>1, <1>2, <1>6, <2>1, <2>2, <2>3, <2>4
    DEF ReaderInv, HeldInv, FetchedInv, SinceInv, OnceInv, At, Entry, Writing, IsFresh
  <2>6. Locking(t) /\ t.identity = req[r].identity
    BY <2>2 DEF Locking, Entry, i
  <2> QED BY <1>1, <2>1, <2>2, <2>5, <2>6, QuietKeeps
<1>7. CASE same /\ got = None
  <2>1. Return(r, req[r].snapshot, i) /\ i \in req[r].since
    BY <1>2, <1>3, <1>4, <1>7
  <2> HIDE DEF i, got
  <2> QED BY <1>1, <1>2, <1>5, <2>1, ReturnKeeps
<1>8. CASE ~(same /\ got = None) /\ ~(same /\ got # None /\ got.vouched)
  <2> DEFINE u == IF got = None THEN None ELSE got.usage
  <2>1. Return(r, u, None)
    BY <1>3, <1>8
  <2>2. u \in Usage \cup {None}
    BY <1>2 DEF Fetched
  <2> HIDE DEF i, got, u
  <2> QED BY <1>1, <1>5, <2>1, <2>2, ReturnKeeps
<1> QED BY <1>6, <1>7, <1>8

\* What the holder of a lock has got to write.
LEMMA WriterFacts ==
  ASSUME IInv, NEW r \in Readers, NEW stage \in Writing, At(r, stage)
  PROVE  /\ req \in [Readers -> Request \cup {None}] /\ req[r] \in Request /\ req[r].at = stage
         /\ req[r].identity \in Logins /\ holder[req[r].identity] = r
         /\ req[r].got # None /\ req[r].got.usage \in Usage /\ req[r].got.usage.whole
         /\ req[r].got.usage.owner = req[r].identity \/ req[r].identity \in cameBack
         /\ IsFresh(req[r].identity) => req[r].force
<1>1. req \in [Readers -> Request \cup {None}] /\ req[r] \in Request /\ req[r].at = stage
  BY DEF At, IInv, TypeOK
<1>2. /\ req[r].identity # None /\ holder[req[r].identity] = r
      /\ req[r].got # None /\ req[r].got.usage.whole
      /\ req[r].got.usage.owner = req[r].identity \/ req[r].identity \in cameBack
      /\ IsFresh(req[r].identity) => req[r].force
  BY DEF IInv, ReaderInv, HeldInv, FetchedInv, OnceInv, Entry, Writing
<1>3. req[r].identity \in Logins /\ req[r].got \in Fetched
  BY <1>1, <1>2 DEF Request
<1> QED BY <1>1, <1>2, <1>3 DEF Fetched

LEMMA WriteFailsKeeps ==
  ASSUME IInv, NEW r \in Readers, WriteFails(r), cameBack' = cameBack
  PROVE  IInv'
<1> DEFINE i == req[r].identity
<1>1. PICK stage \in Writing : At(r, stage)
  BY DEF WriteFails, Writing
<1>2. req[r] # None /\ i \in Logins /\ holder[i] = r /\ req[r].got.usage \in Usage
  BY <1>1, WriterFacts
<1>3. /\ temp' = [temp EXCEPT ![i] = None] /\ UNCHANGED <<login, file>>
      /\ Return(r, req[r].got.usage, None)
  BY DEF WriteFails
<1>4. /\ file' \in [Logins -> Usage \cup {None}] /\ temp' \in [Logins -> Usage \cup {None}]
      /\ \A l \in Logins : holder[l] = r \/ (file'[l] = file[l] /\ temp'[l] = temp[l])
  BY <1>2, <1>3 DEF IInv, TypeOK
<1>5. OwnUsage'
  BY <1>3 DEF IInv, OwnUsage
<1> QED BY <1>2, <1>3, <1>4, <1>5, ReturnKeeps

LEMMA RenameKeeps ==
  ASSUME IInv, NEW r \in Readers, Rename(r), cameBack' = cameBack
  PROVE  IInv'
<1> DEFINE i == req[r].identity
           u == req[r].got.usage
<1>1. At(r, "rename")
  BY DEF Rename
<1>2. /\ req[r] # None /\ i \in Logins /\ holder[i] = r /\ u \in Usage /\ u.whole
      /\ u.owner = i \/ i \in cameBack
  BY <1>1, WriterFacts DEF Writing
<1>3. temp[i] = u
  BY <1>1 DEF IInv, ReaderInv, FetchedInv
<1>4. /\ file' = [file EXCEPT ![i] = u] /\ temp' = [temp EXCEPT ![i] = None]
      /\ login' = login /\ Return(r, u, None)
  BY <1>3 DEF Rename
<1> HIDE DEF u, i
<1>5. /\ file' \in [Logins -> Usage \cup {None}] /\ temp' \in [Logins -> Usage \cup {None}]
      /\ \A l \in Logins : holder[l] = r \/ (file'[l] = file[l] /\ temp'[l] = temp[l])
  BY <1>2, <1>4 DEF IInv, TypeOK
<1>6. OwnUsage'
  BY <1>2, <1>4 DEF IInv, TypeOK, OwnUsage
<1> QED BY <1>2, <1>4, <1>5, <1>6, ReturnKeeps

LEMMA TempKeeps ==
  ASSUME IInv, NEW r \in Readers, OpenTemp(r) \/ FillTemp(r), cameBack' = cameBack
  PROVE  IInv'
<1> DEFINE i == req[r].identity
           u == req[r].got.usage
           stage == IF OpenTemp(r) THEN "fill_temp" ELSE "rename"
           v == IF OpenTemp(r) THEN [u EXCEPT !.whole = FALSE] ELSE u
           t == [req[r] EXCEPT !.at = stage]
<1>1. PICK before \in Writing : At(r, before)
  BY DEF OpenTemp, FillTemp, Writing
<1>2. /\ req \in [Readers -> Request \cup {None}] /\ req[r] \in Request
      /\ i \in Logins /\ holder[i] = r /\ req[r].got # None /\ u \in Usage /\ u.whole
      /\ u.owner = i \/ i \in cameBack
      /\ IsFresh(i) => req[r].force
  BY <1>1, WriterFacts
<1>3. v \in Usage /\ (stage = "rename" => v = u) /\ stage \in {"fill_temp", "rename"}
  BY <1>2 DEF Usage
<1>4. /\ temp' = [temp EXCEPT ![i] = v] /\ UNCHANGED <<login, file, holder>>
      /\ req' = [req EXCEPT ![r].at = stage]
  BY DEF OpenTemp, FillTemp
<1>5. t \in Request /\ t.at = stage /\ t.identity = i /\ t.got = req[r].got /\ t.force = req[r].force
  <2> HIDE DEF stage
  <2> QED BY <1>2, <1>3 DEF Request, Stages
<1>6. req' = [req EXCEPT ![r] = t]
  <2> HIDE DEF stage
  <2> QED BY <1>2, <1>4 DEF Request
<1> HIDE DEF t, stage, v
<1>7. /\ temp \in [Logins -> Usage \cup {None}] /\ file \in [Logins -> Usage \cup {None}]
      /\ holder \in [Logins -> Readers \cup {None}]
  BY DEF IInv, TypeOK
<1>8. TypedFiles' /\ OwnUsage'
  <2>1. TypedFiles'
    <3> HIDE DEF i
    <3> QED BY <1>2, <1>3, <1>4, <1>7 DEF TypedFiles
  <2>2. OwnUsage'
    BY <1>4 DEF IInv, OwnUsage
  <2> QED BY <2>1, <2>2
<1>9. Becomes(r, t)
  <2> HIDE DEF i
  <2> QED BY <1>2, <1>4, <1>5, <1>6, <1>7 DEF Becomes
<1>10. req'[r] = t /\ temp'[i] = v
  BY <1>2, <1>4, <1>6, <1>7
<1> HIDE DEF i
<1>11. HeldInv(r)' /\ SinceInv(r)'
  BY <1>2, <1>3, <1>4, <1>5, <1>10 DEF HeldInv, SinceInv, At
<1>12. FetchedInv(r)'
  BY <1>2, <1>3, <1>5, <1>10 DEF FetchedInv, At, Writing
<1>13. OnceInv(r)'
  BY <1>2, <1>3, <1>4, <1>5, <1>10 DEF OnceInv, At, Writing, IsFresh
<1>14. OnlyInv(r)'
  <2>1. OnlyInv(r)
    BY DEF IInv
  <2> QED BY <1>3, <1>4, <1>5, <1>10, <2>1 DEF OnlyInv, Locking, Entry, i
<1> QED BY <1>8, <1>9, <1>11, <1>12, <1>13, <1>14, StepKeeps DEF ReaderInv

\* The request goes: answered, or with its process and all that it holds.
LEMMA GoneKeeps ==
  ASSUME IInv, NEW r \in Readers, Answer(r) \/ Kill(r), cameBack' = cameBack
  PROVE  IInv'
<1>1. /\ req' = [req EXCEPT ![r] = None] /\ UNCHANGED <<login, file>>
      /\ req \in [Readers -> Request \cup {None}]
      /\ temp \in [Logins -> Usage \cup {None}] /\ file \in [Logins -> Usage \cup {None}]
      /\ holder \in [Logins -> Readers \cup {None}]
  BY DEF Answer, Kill, IInv, TypeOK
<1>2. /\ holder' \in {holder, [l \in Logins |-> IF holder[l] = r THEN None ELSE holder[l]]}
      /\ temp' \in {temp, [l \in Logins |-> IF holder[l] = r THEN None ELSE temp[l]]}
  BY DEF Answer, Kill, Unlock
<1>3. TypedFiles'
  BY <1>1, <1>2 DEF TypedFiles
<1>4. OwnUsage'
  BY <1>1 DEF IInv, OwnUsage
<1>5. Becomes(r, None)
  BY <1>1, <1>2 DEF Becomes
<1>6. req'[r] = None
  BY <1>1
<1>7. ReaderInv(r)'
  BY <1>6 DEF ReaderInv, HeldInv, FetchedInv, SinceInv, OnceInv, At, Entry, Writing
<1>8. \A l \in Logins : holder'[l] # r
  <2>1. CASE Answer(r)
    BY <1>1, <2>1 DEF Answer, At, IInv, OnlyInv, Locking, Entry
  <2>2. CASE Kill(r)
    BY <1>1, <2>2 DEF Kill, Unlock
  <2> QED BY <2>1, <2>2
<1> QED BY <1>3, <1>4, <1>5, <1>7, <1>8, StepKeeps DEF OnlyInv

LEMMA StoppedKeeps ==
  ASSUME IInv, NEW r \in Readers, Late(r) \/ Cancel(r), cameBack' = cameBack
  PROVE  IInv'
<1>1. PICK how \in {"late", "cancelled"} : req' = [req EXCEPT ![r].stopped = how]
  BY DEF Late, Cancel
<1> DEFINE t == [req[r] EXCEPT !.stopped = how]
<1>2. req \in [Readers -> Request \cup {None}] /\ req[r] \in Request
  BY DEF Late, Cancel, At, IInv, TypeOK
<1>3. /\ t \in Request /\ t.stopped = how
      /\ t.at = req[r].at /\ t.identity = req[r].identity /\ t.got = req[r].got
      /\ t.snapshot = req[r].snapshot /\ t.since = req[r].since /\ t.force = req[r].force
      /\ t.cached = req[r].cached /\ t.reply = req[r].reply
  BY <1>2 DEF Request
<1>4. req' = [req EXCEPT ![r] = t]
  BY <1>1, <1>2 DEF Request
<1>5. UNCHANGED <<login, file, temp, holder>>
  BY DEF Late, Cancel
<1> HIDE DEF t
<1>6. req'[r] = t /\ \A stage : At(r, stage)' <=> At(r, stage)
  BY <1>2, <1>3, <1>4 DEF At
<1>7. ReaderInv(r)
  BY DEF IInv
<1>8. HeldInv(r)' /\ FetchedInv(r)' /\ SinceInv(r)'
  BY <1>3, <1>5, <1>6, <1>7 DEF ReaderInv, HeldInv, FetchedInv, SinceInv
<1>9. OnceInv(r)'
  BY <1>3, <1>5, <1>6, <1>7 DEF ReaderInv, OnceInv, IsFresh, Stopped
<1> QED BY <1>3, <1>4, <1>5, <1>8, <1>9, QuietKeeps DEF ReaderInv, Locking, Entry

----------------------------------------------------------------------------
(* What happens around the readers.                                         *)

\* A login goes and another comes: who has seen the one that comes back is told.
LEMMA SwitchKeeps ==
  ASSUME IInv, NEW l \in Logins \cup {None}, Switch(l)
  PROVE  IInv'
<1>1. /\ req \in [Readers -> Request \cup {None}] /\ cameBack \subseteq Logins
      /\ login' = l /\ UNCHANGED <<file, temp, holder>>
      /\ req' = [r \in Readers |-> IF req[r] = None \/ req[r].since = {} THEN req[r]
                                   ELSE [req[r] EXCEPT !.since = @ \cup {l}]]
      /\ cameBack' = cameBack \cup (IF l # None /\ SeenBy(l) # {} THEN {l} ELSE {})
  BY DEF Switch, IInv, TypeOK
<1>2. cameBack \subseteq cameBack' /\ cameBack' \subseteq Logins
  BY <1>1
<1>3. \A r \in Readers : req[r] # None /\ req[r].identity = l /\ l # None => l \in cameBack'
  BY <1>1 DEF SeenBy
<1>4. ASSUME NEW r \in Readers PROVE req'[r] \in Request \cup {None} /\ ReaderInv(r)' /\ OnlyInv(r)'
  <2>1. ReaderInv(r) /\ OnlyInv(r) /\ req[r] \in Request \cup {None}
    BY <1>1 DEF IInv
  <2>2. CASE req[r] = None
    <3>1. req'[r] = None
      BY <1>1, <2>2
    <3> QED BY <1>1, <2>1, <2>2, <3>1
            DEF ReaderInv, HeldInv, FetchedInv, SinceInv, OnceInv, At, OnlyInv, Locking, Writing
  <2>3. CASE req[r] # None
    <3> DEFINE s == IF req[r].since = {} THEN {} ELSE req[r].since \cup {l}
               t == [req[r] EXCEPT !.since = s]
    <3>1. req[r] \in Request
      BY <2>1, <2>3
    <3>2. s \in SUBSET (Logins \cup {None}) /\ req[r].since \subseteq s
          /\ (req[r].since # {} => l \in s)
      BY <3>1 DEF Request
    <3> HIDE DEF s
    <3>3. /\ t \in Request /\ t.since = s
          /\ t.at = req[r].at /\ t.identity = req[r].identity /\ t.got = req[r].got
          /\ t.snapshot = req[r].snapshot /\ t.stopped = req[r].stopped
          /\ t.force = req[r].force /\ t.cached = req[r].cached /\ t.reply = req[r].reply
      BY <3>1, <3>2 DEF Request
    <3>4. req'[r] = t
      BY <1>1, <2>3, <3>1 DEF Request, s
    <3> HIDE DEF t
    <3>5. \A stage : At(r, stage)' <=> At(r, stage)
      BY <2>3, <3>3, <3>4 DEF At
    <3>6. HeldInv(r)' /\ OnlyInv(r)'
      BY <1>1, <2>1, <2>3, <3>3, <3>4, <3>5 DEF ReaderInv, HeldInv, OnlyInv, Locking
    <3>7. FetchedInv(r)'
      <4>1. req[r].identity # None /\ req[r].identity = l => l \in cameBack'
        BY <1>3, <2>3
      <4>2. At(r, "confirm") => req[r].identity # None
        BY <2>1 DEF ReaderInv, HeldInv, Entry
      <4> QED BY <1>1, <1>2, <2>1, <3>3, <3>4, <3>5, <4>1, <4>2 DEF ReaderInv, FetchedInv
    <3>8. SinceInv(r)'
      BY <1>1, <2>1, <3>2, <3>3, <3>4, <3>5 DEF ReaderInv, SinceInv
    <3>9. OnceInv(r)'
      BY <1>1, <2>1, <3>3, <3>4, <3>5 DEF ReaderInv, OnceInv, IsFresh, Stopped
    <3> QED BY <3>3, <3>4, <3>6, <3>7, <3>8, <3>9 DEF ReaderInv
  <2> QED BY <2>2, <2>3
<1>5. TypeOK'
  <2>1. req' \in [Readers -> Request \cup {None}]
    BY <1>1, <1>4
  <2> QED BY <1>1, <1>2, <2>1 DEF IInv, TypeOK
<1>6. OwnUsage'
  BY <1>1, <1>2 DEF IInv, OwnUsage
<1> QED BY <1>4, <1>5, <1>6 DEF IInv

\* Time passes for the entry and for what its holder has read of it.
LEMMA ExpireKeeps ==
  ASSUME IInv, NEW l \in Logins, Expire(l), cameBack' = cameBack
  PROVE  IInv'
<1>1. /\ req \in [Readers -> Request \cup {None}] /\ file \in [Logins -> Usage \cup {None}]
      /\ file[l] # None
      /\ UNCHANGED <<login, temp, holder>>
      /\ file' = [file EXCEPT ![l] = Aged(file[l])]
      /\ req' = [r \in Readers |-> IF req[r] # None /\ holder[l] = r
                                   THEN [req[r] EXCEPT !.snapshot = Aged(req[r].snapshot)]
                                   ELSE req[r]]
  <2>1. req' = [r \in Readers |-> IF req[r] # None /\ holder[l] = r
                                  THEN [req[r] EXCEPT !.snapshot = Aged(@)] ELSE req[r]]
    BY DEF Expire
  <2> QED BY <2>1 DEF Expire, IInv, TypeOK
<1>2. \A u \in Usage \cup {None} :
        /\ Aged(u) \in Usage \cup {None} /\ (u = None <=> Aged(u) = None)
        /\ u # None => Aged(u).owner = u.owner /\ Aged(u).whole = u.whole /\ ~Aged(u).fresh
  BY DEF Aged, Usage
<1>3. \A m \in Logins :
        /\ file'[m] \in Usage \cup {None} /\ (file[m] = None <=> file'[m] = None)
        /\ file[m] # None => file'[m].owner = file[m].owner /\ file'[m].whole = file[m].whole
        /\ IsFresh(m)' => IsFresh(m)
        /\ m # l => file'[m] = file[m]
  BY <1>1, <1>2 DEF IsFresh
<1>4. ASSUME NEW r \in Readers PROVE req'[r] \in Request \cup {None} /\ ReaderInv(r)' /\ OnlyInv(r)'
  <2>1. ReaderInv(r) /\ OnlyInv(r) /\ req[r] \in Request \cup {None}
    BY <1>1 DEF IInv
  <2>2. CASE req[r] = None
    <3>1. req'[r] = None
      BY <1>1, <2>2
    <3> QED BY <1>1, <2>1, <2>2, <3>1
            DEF ReaderInv, HeldInv, FetchedInv, SinceInv, OnceInv, At, OnlyInv, Locking, Writing
  <2>3. CASE req[r] # None
    <3> DEFINE s == IF holder[l] = r THEN Aged(req[r].snapshot) ELSE req[r].snapshot
               t == [req[r] EXCEPT !.snapshot = s]
    <3>1. req[r] \in Request
      BY <2>1, <2>3
    <3>2. s \in Usage \cup {None}
      BY <1>2, <3>1 DEF Request
    <3>3. req'[r] = t
      <4>1. CASE holder[l] = r
        BY <1>1, <2>3, <4>1
      <4>2. CASE holder[l] # r
        <5>1. t = req[r]
          BY <3>1, <4>2 DEF Request
        <5> QED BY <1>1, <4>2, <5>1
      <4> QED BY <4>1, <4>2
    <3>4. /\ t \in Request /\ t.snapshot = s
          /\ t.at = req[r].at /\ t.identity = req[r].identity /\ t.got = req[r].got
          /\ t.since = req[r].since /\ t.stopped = req[r].stopped
          /\ t.force = req[r].force /\ t.cached = req[r].cached /\ t.reply = req[r].reply
      <4> HIDE DEF s
      <4> QED BY <3>1, <3>2 DEF Request
    <3>5. At(r, "verify") => s = file'[req[r].identity]
      <4> SUFFICES ASSUME At(r, "verify") PROVE s = file'[req[r].identity]
        OBVIOUS
      <4>1. /\ req[r].identity \in Logins /\ holder[req[r].identity] = r
            /\ req[r].snapshot = file[req[r].identity]
        BY <2>1, <3>1 DEF ReaderInv, HeldInv, OnceInv, Entry, Request
      <4>2. holder[l] = r => req[r].identity = l
        BY <2>1, <4>1 DEF OnlyInv
      <4> QED BY <1>1, <4>1, <4>2
    <3> HIDE DEF t, s
    <3>6. \A stage : At(r, stage)' <=> At(r, stage)
      BY <2>3, <3>3, <3>4 DEF At
    <3>7. HeldInv(r)' /\ OnlyInv(r)'
      BY <1>1, <2>1, <2>3, <3>3, <3>4, <3>6 DEF ReaderInv, HeldInv, OnlyInv, Locking
    <3>8. FetchedInv(r)' /\ SinceInv(r)'
      BY <1>1, <2>1, <3>3, <3>4, <3>6 DEF ReaderInv, FetchedInv, SinceInv
    <3>9. OnceInv(r)'
      <4>1. req[r].identity \in Logins /\ file'[req[r].identity] # None
              /\ file'[req[r].identity].fresh => IsFresh(req[r].identity)
        BY <1>3 DEF IsFresh
      <4>2. req[r].identity = None \/ req[r].identity \in Logins
        BY <3>1 DEF Request
      <4>3. \A stage \in Writing \cup {"confirm"} : At(r, stage) => req[r].identity # None
        BY <2>1 DEF ReaderInv, HeldInv, Writing, Entry
      <4>4. req'[r].identity = req[r].identity /\ req'[r].force = req[r].force
            /\ req'[r].got = req[r].got /\ (Stopped(r)' <=> Stopped(r))
        BY <3>3, <3>4 DEF Stopped
      <4> QED BY <2>1, <3>3, <3>4, <3>5, <3>6, <4>1, <4>2, <4>3, <4>4
              DEF ReaderInv, OnceInv, IsFresh
    <3> QED BY <3>3, <3>4, <3>7, <3>8, <3>9 DEF ReaderInv
  <2> QED BY <2>2, <2>3
<1>5. TypeOK'
  <2>1. req' \in [Readers -> Request \cup {None}]
    BY <1>1, <1>4
  <2>2. file' \in [Logins -> Usage \cup {None}]
    BY <1>1, <1>3
  <2> QED BY <1>1, <2>1, <2>2 DEF IInv, TypeOK
<1>6. OwnUsage'
  BY <1>1, <1>3 DEF IInv, OwnUsage
<1> QED BY <1>4, <1>5, <1>6 DEF IInv

----------------------------------------------------------------------------
(* The theorems.                                                            *)

LEMMA NextKeeps == IInv /\ [Next]_vars => IInv'
<1> SUFFICES ASSUME IInv, [Next]_vars PROVE IInv'
  OBVIOUS
<1>1. CASE UNCHANGED vars
  <2>1. UNCHANGED <<login, file, temp, holder, req, cameBack>>
    BY <1>1 DEF vars
  <2>2. TypeOK' /\ OwnUsage'
    BY <2>1 DEF IInv, TypeOK, OwnUsage
  <2>3. ASSUME NEW r \in Readers PROVE ReaderInv(r)' /\ OnlyInv(r)'
    <3>1. ReaderInv(r) /\ OnlyInv(r)
      BY DEF IInv
    <3> QED BY <2>1, <3>1 DEF ReaderInv, HeldInv, FetchedInv, SinceInv, OnceInv, At, IsFresh, Stopped, OnlyInv
  <2> QED BY <2>2, <2>3 DEF IInv
<1>2. ASSUME NEW r \in Readers, cameBack' = cameBack,
             Call(r) \/ Step(r) \/ PrepareFails(r) \/ WriteFails(r) \/ Late(r) \/ Cancel(r) \/ Kill(r)
      PROVE  IInv'
  BY <1>2, CallKeeps, IdentifyKeeps, BypassKeeps, LockEntryKeeps, ReadEntryKeeps, VerifyKeeps,
     FetchKeeps, ConfirmKeeps, TempKeeps, RenameKeeps, WriteFailsKeeps, GoneKeeps, StoppedKeeps
  DEF Step
<1>3. ASSUME NEW l \in Logins, Expire(l), cameBack' = cameBack PROVE IInv'
  BY <1>3, ExpireKeeps
<1>4. ASSUME NEW l \in Logins \cup {None}, Switch(l) PROVE IInv'
  BY <1>4, SwitchKeeps
<1> QED BY <1>1, <1>2, <1>3, <1>4 DEF Next

\* The parts hold together of every reachable state: neither the owner of an entry
\* nor a single refresh can be had without the locks and what was seen under them.
THEOREM Inductive == Spec => []IInv
<1> QED BY InitInv, NextKeeps, PTL DEF Spec

\* Every variable of the cache keeps its type.
THEOREM TypeCorrect == Spec => []TypeOK
<1>1. IInv => TypeOK
  BY DEF IInv
<1> QED BY <1>1, Inductive, PTL

\* LockedEntry::write never leaves a torn entry, nor one of another login than its
\* name says, unless that login came back while the usage was fetched.
THEOREM EntriesAreOwn == Spec => []OwnUsage
<1>1. IInv => OwnUsage
  BY DEF IInv
<1> QED BY <1>1, Inductive, PTL

\* UsageCache::one answers from an entry only for a login there was after the entry
\* was locked, or after the fetch failed.
THEOREM RepliesAreInTime == Spec => []ServedInTime
<1>1. IInv => ServedInTime
  BY DEF IInv, ReaderInv, SinceInv, ServedInTime
<1> QED BY <1>1, Inductive, PTL

\* Of the readers that found an entry expired one replaces it; any other replaces a
\* fresh entry only because --force told it to.
THEOREM OneRefreshIsEnough == Spec => []RefreshedOnce
<1>1. IInv => RefreshedOnce
  BY DEF IInv, ReaderInv, OnceInv, RefreshedOnce, IsFresh, Writing
<1> QED BY <1>1, Inductive, PTL

==============================================================================
