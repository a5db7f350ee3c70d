------------------------------- MODULE UsageCache -------------------------------
(****************************************************************************)
(* The disk cache of normalized usage, shared by every quotio process.       *)
(*                                                                          *)
(* One native provider whose login the user may change at any time: the      *)
(* provider's own application owns it, and quotio only asks who is logged in *)
(* (cache_identity) and what the quota is (fetch).  The login is part of the *)
(* entry's file name, so there is one entry, one lock file and one temporary *)
(* file per login.  A reader (a CLI run, a server refresh or a client query) *)
(* locks the entry of the login it saw, reads it, asks again who is logged   *)
(* in, serves the entry if it is fresh, and otherwise fetches, asks a third  *)
(* time, and writes.  Its deadline may pass, it may be cancelled, and its    *)
(* process may be killed, between any two of these.                          *)
(*                                                                          *)
(* A snapshot is abstracted to the login it describes, whether it is younger *)
(* than the time to live, and whether the file holds all of it.              *)
(****************************************************************************)
EXTENDS Naturals, FiniteSets

CONSTANTS Readers,   \* UsageCache::one calls, in any process
          Logins,
          None,      \* nobody logged in; no entry, request, identity or usage
          MaxBack    \* logins that come back while a request that saw them runs

Usage == [owner : Logins, fresh : BOOLEAN, whole : BOOLEAN]

\* `vouched`: the adapter says the usage is of the login it identified.
Fetched == [usage : Usage, vouched : BOOLEAN]

Stages == {"prepare", "lock", "read", "verify", "fetch", "confirm",
           "open_temp", "fill_temp", "rename", "done"}

\* `identity`: the login verified last, None once it could not be verified.
\* `cached`, `since`: whose entry the reply came out of, None if it was fetched,
\* and the logins there were since the lock was taken or the fetch ended.
Request == [at : Stages, force : BOOLEAN, stopped : {"no", "late", "cancelled"},
            identity : Logins \cup {None}, snapshot : Usage \cup {None},
            got : Fetched \cup {None}, reply : Usage \cup {None}, cached : Logins \cup {None},
            since : SUBSET (Logins \cup {None})]

ASSUME NoneIsNothing == None \notin Logins \cup Readers \cup Usage \cup Fetched \cup Request

ASSUME BackInBounds == MaxBack \in 0..Cardinality(Logins)

VARIABLES
  login,    \* who is logged in to the provider's application
  file,     \* per login, its entry
  temp,     \* per login, the temporary file its entry is renamed from
  holder,   \* per login, the reader holding the lock of its entry
  req,      \* per reader, its call
  cameBack  \* logins that came back while a request that had seen them ran

vars == <<login, file, temp, holder, req, cameBack>>

\* Faulty variants, named for what they get wrong, stand before the definition
\* they vary; the mutation runs put them in its place.

Init ==
  /\ login \in Logins \cup {None}
  /\ file = [l \in Logins |-> None]
  /\ temp = [l \in Logins |-> None]
  /\ holder = [l \in Logins |-> None]
  /\ req = [r \in Readers |-> None]
  /\ cameBack = {}

NewRequest(force) ==
  [at |-> "prepare", force |-> force, stopped |-> "no", identity |-> None,
   snapshot |-> None, got |-> None, reply |-> None, cached |-> None, since |-> {}]

At(r, stage) == req[r] # None /\ req[r].at = stage
Stopped(r)   == req[r].stopped # "no"

Unlock(r) == holder' = [l \in Logins |-> IF holder[l] = r THEN None ELSE holder[l]]

\* Returning drops the entry, and with it the lock.
Return(r, reply, cached) ==
  /\ req' = [req EXCEPT ![r] = [NewRequest(req[r].force) EXCEPT
                !.at = "done", !.reply = reply, !.cached = cached,
                !.since = IF cached # None THEN req[r].since ELSE {}]]
  /\ Unlock(r)

----------------------------------------------------------------------------
(* UsageCache::one, from its call to its return.                            *)

Call(r) ==
  /\ req[r] = None
  /\ \E force \in BOOLEAN : req' = [req EXCEPT ![r] = NewRequest(force)]
  /\ UNCHANGED <<login, file, temp, holder>>

\* The identity names the entry; without one the cache is left aside.
Identify(r) ==
  /\ At(r, "prepare")
  /\ ~Stopped(r) /\ login # None
  /\ req' = [req EXCEPT ![r].identity = login, ![r].at = "lock"]
  /\ UNCHANGED <<login, file, temp, holder>>

LockUnheld(r) == holder[req[r].identity] = None
LockAnyway(r) == TRUE
MayLock(r) == LockUnheld(r)

\* LockedEntry::open, tried every 20 ms until it succeeds or time is up.
LockEntry(r) ==
  /\ At(r, "lock")
  /\ ~Stopped(r) /\ MayLock(r)
  /\ holder' = [holder EXCEPT ![req[r].identity] = r]
  /\ req' = [req EXCEPT ![r].at = "read", ![r].since = {login}]
  /\ UNCHANGED <<login, file, temp>>

\* Nobody verified, no time left, or cancelled: fetch without an entry.
GiveUp(r) == Stopped(r) \/ (At(r, "prepare") /\ login = None)
DoBypass(r) ==
  /\ req' = [req EXCEPT ![r].identity = None, ![r].at = "fetch"]
  /\ UNCHANGED <<login, file, temp, holder>>
Bypass(r) == (At(r, "prepare") \/ At(r, "lock")) /\ GiveUp(r) /\ DoBypass(r)

\* The provider's application does not answer, or the lock cannot be opened.
PrepareFails(r) == (At(r, "prepare") \/ At(r, "lock")) /\ DoBypass(r)

\* read: a missing or torn file is no snapshot.
ReadEntry(r) ==
  LET found == file[req[r].identity] IN
  /\ At(r, "read")
  /\ req' = [req EXCEPT ![r].at = "verify",
                       ![r].snapshot = IF found # None /\ found.whole THEN found ELSE None]
  /\ UNCHANGED <<login, file, temp, holder>>

\* checked_identity: the login may differ, or not be told in time.
Checked(r)     == {FALSE} \cup {login = req[r].identity /\ ~Stopped(r)}
NotChecked(r)  == {FALSE, TRUE}
CheckBefore(r) == Checked(r)

\* Recheck after waiting for another process and before serving a snapshot.
Verify(r) ==
  /\ At(r, "verify")
  /\ \E same \in CheckBefore(r) :
       LET snapshot == IF same THEN req[r].snapshot ELSE None IN
       IF ~req[r].force /\ req[r].stopped # "late" /\ snapshot # None /\ snapshot.fresh
       THEN Return(r, snapshot, req[r].identity)
       ELSE /\ req' = [req EXCEPT ![r].at = "fetch", ![r].snapshot = snapshot,
                                  ![r].identity = IF same THEN @ ELSE None]
            /\ UNCHANGED holder
  /\ UNCHANGED <<login, file, temp>>

\* Collector::collect of this one adapter: the usage of whoever is logged in; or
\* of whatever login a local service has, which the adapter does not vouch for;
\* or a failure, the only outcome once the deadline has passed.  An answer without
\* a window is a failure too.
Vouches(o)    == o = login
Answers(r) ==
  {None} \cup
  (IF Stopped(r) THEN {}
   ELSE {[usage   |-> [owner |-> o, fresh |-> TRUE, whole |-> TRUE],
          vouched |-> Vouches(o)] : o \in Logins})
AnswersUnchecked(r) == Answers(r) \cup {[usage |-> None, vouched |-> TRUE]}
Outcomes(r) == Answers(r)

Fetch(r) ==
  /\ At(r, "fetch")
  /\ \E got \in Outcomes(r) :
       IF req[r].identity # None
       THEN /\ req' = [req EXCEPT ![r].at = "confirm", ![r].got = got, ![r].since = {login},
                                  ![r].snapshot = IF got = None THEN @ ELSE None]
            /\ UNCHANGED holder
       ELSE Return(r, IF got = None THEN None ELSE got.usage, None)
  /\ UNCHANGED <<login, file, temp>>

\* "A login change during fetch must never populate the previous login's entry."
\* This check has a deadline of its own.
CheckedAgain(r) == {FALSE} \cup {login = req[r].identity /\ req[r].stopped # "cancelled"}
CheckAfter(r)   == CheckedAgain(r)

Confirm(r) ==
  LET got == req[r].got IN
  /\ At(r, "confirm")
  /\ \E same \in CheckAfter(r) :
       IF same /\ got # None /\ got.vouched
       THEN req' = [req EXCEPT ![r].at = "open_temp", ![r].since = {}] /\ UNCHANGED holder
       ELSE IF same /\ got = None
       THEN Return(r, req[r].snapshot, req[r].identity)
       ELSE Return(r, IF got = None THEN None ELSE got.usage, None)
  /\ UNCHANGED <<login, file, temp>>

----------------------------------------------------------------------------
(* LockedEntry::write.                                                      *)

\* A write that fails removes the temporary file; the fetched usage is returned.
WriteFails(r) ==
  /\ At(r, "open_temp") \/ At(r, "fill_temp") \/ At(r, "rename")
  /\ temp' = [temp EXCEPT ![req[r].identity] = None]
  /\ Return(r, req[r].got.usage, None)
  /\ UNCHANGED <<login, file>>

OpenTemp(r) ==
  /\ At(r, "open_temp")
  /\ temp' = [temp EXCEPT ![req[r].identity] = [req[r].got.usage EXCEPT !.whole = FALSE]]
  /\ req' = [req EXCEPT ![r].at = "fill_temp"]
  /\ UNCHANGED <<login, file, holder>>

\* Written, flushed and synced before the rename.
FillTemp(r) ==
  /\ At(r, "fill_temp")
  /\ temp' = [temp EXCEPT ![req[r].identity] = req[r].got.usage]
  /\ req' = [req EXCEPT ![r].at = "rename"]
  /\ UNCHANGED <<login, file, holder>>

Rename(r) ==
  /\ At(r, "rename")
  /\ temp[req[r].identity] # None
  /\ file' = [file EXCEPT ![req[r].identity] = temp[req[r].identity]]
  /\ temp' = [temp EXCEPT ![req[r].identity] = None]
  /\ Return(r, req[r].got.usage, None)
  /\ UNCHANGED login

Answer(r) ==
  /\ At(r, "done")
  /\ req' = [req EXCEPT ![r] = None]
  /\ UNCHANGED <<login, file, temp, holder>>

----------------------------------------------------------------------------
(* Around the readers.                                                      *)

\* The deadline of a request passes (nothing looks at it after the fetch), or all
\* a process is doing is cancelled (nothing looks at that during the write).
Late(r) ==
  /\ \E s \in {"prepare", "lock", "read", "verify", "fetch"} : At(r, s)
  /\ req[r].stopped = "no"
  /\ req' = [req EXCEPT ![r].stopped = "late"]
  /\ UNCHANGED <<login, file, temp, holder>>

Cancel(r) ==
  /\ \E s \in {"prepare", "lock", "read", "verify", "fetch", "confirm"} : At(r, s)
  /\ req[r].stopped # "cancelled"
  /\ req' = [req EXCEPT ![r].stopped = "cancelled"]
  /\ UNCHANGED <<login, file, temp, holder>>

\* The operating system drops the locks of a killed process; what it leaves of a
\* temporary file is nobody's, since the next writer truncates it.
Kill(r) ==
  /\ req[r] # None
  /\ req' = [req EXCEPT ![r] = None]
  /\ temp' = [l \in Logins |-> IF holder[l] = r THEN None ELSE temp[l]]
  /\ Unlock(r)
  /\ UNCHANGED <<login, file>>

SeenBy(l) == {r \in Readers : req[r] # None /\ req[r].identity = l}
Switch(l) ==
  /\ login # l
  /\ cameBack' = cameBack \cup (IF l # None /\ SeenBy(l) # {} THEN {l} ELSE {})
  /\ Cardinality(cameBack') <= MaxBack
  /\ login' = l
  /\ req' = [r \in Readers |-> IF req[r] = None \/ req[r].since = {} THEN req[r]
                               ELSE [req[r] EXCEPT !.since = @ \cup {l}]]
  /\ UNCHANGED <<file, temp, holder>>

\* `fresh`: the time to live of an entry, and of every copy read of it, passes.
Aged(u) == IF u = None THEN None ELSE [u EXCEPT !.fresh = FALSE]
Expire(l) ==
  /\ file[l] # None /\ file[l].fresh
  /\ file' = [file EXCEPT ![l] = Aged(@)]
  /\ req' = [r \in Readers |->
               IF req[r] # None /\ holder[l] = r
               THEN [req[r] EXCEPT !.snapshot = Aged(@)] ELSE req[r]]
  /\ UNCHANGED <<login, temp, holder>>

Step(r) == \/ Identify(r) \/ LockEntry(r) \/ Bypass(r) \/ ReadEntry(r) \/ Verify(r)
           \/ Fetch(r) \/ Confirm(r) \/ OpenTemp(r) \/ FillTemp(r) \/ Rename(r)
           \/ Answer(r)

Next ==
  \/ /\ \/ \E r \in Readers : \/ Call(r) \/ Step(r) \/ PrepareFails(r) \/ WriteFails(r)
                                 \/ Late(r) \/ Cancel(r) \/ Kill(r)
        \/ \E l \in Logins : Expire(l)
     /\ UNCHANGED cameBack
  \/ \E l \in Logins \cup {None} : Switch(l)

Spec == Init /\ [][Next]_vars

----------------------------------------------------------------------------
(* Properties.                                                              *)

\* Every variable keeps its type.
TypeOK ==
  /\ login \in Logins \cup {None}
  /\ file \in [Logins -> Usage \cup {None}]
  /\ temp \in [Logins -> Usage \cup {None}]
  /\ holder \in [Logins -> Readers \cup {None}]
  /\ req \in [Readers -> Request \cup {None}]
  /\ cameBack \subseteq Logins

\* "A login change during fetch must never populate the previous login's entry"
\* (cache.rs:252): an entry is a whole snapshot, never the half-written file of a
\* killed, a failed or a concurrent writer, and of the login it is named for; the
\* two checks miss no change but that of a login which comes back between them.
OwnUsage ==
  \A l \in Logins : file[l] # None => file[l].whole /\ (file[l].owner = l \/ l \in cameBack)

\* A snapshot out of the cache is of a login there was after the reader got
\* the entry's lock (a fresh one) or after its fetch had failed (a retained
\* one), however long it waited for the lock or the provider before.
ServedInTime ==
  \A r \in Readers :
    At(r, "done") /\ req[r].cached # None /\ req[r].reply # None
      => req[r].cached \in req[r].since

\* Concurrent readers refresh an expired entry once: whoever is about to replace
\* a fresh entry was asked to with --force.
RefreshedOnce ==
  \A r \in Readers : \A stage \in {"open_temp", "fill_temp", "rename"} :
    At(r, stage) /\ file[req[r].identity] # None /\ file[req[r].identity].fresh
      => req[r].force
=============================================================================
