-------------------------- MODULE IdempotentMutations --------------------------
(****************************************************************************)
(* Account writes of the management API: one Idempotency-Key, one effect.    *)
(*                                                                          *)
(* A write is first looked up among the receipts of the vault document, then *)
(* entered in the in-memory operation ledger of the server, then done by a   *)
(* background job that looks the key up again and commits the mutation       *)
(* together with its receipt.  Clients retry, disconnect, and race each      *)
(* other under one key; servers (several may share the vault) are killed and *)
(* restarted, which empties their ledgers; a vault write may fail, or become *)
(* visible without being durable and be undone by a power loss.             *)
(*                                                                          *)
(* A mutation is abstracted to the account it touches and to how often it    *)
(* was applied: `times` travels with the document, so that a lost write      *)
(* loses its effect and its receipt alike.  What add, patch and remove do to *)
(* the accounts is AccountDocument.  A vault transaction (commit_once) is    *)
(* one step: the vault lock is held from begin to the end of the write, and  *)
(* every other read or write of the document takes it.                       *)
(* Bounds: MaxKeys (4096), MaxRunning (128) and MaxReceipts (4096) are the   *)
(* program's; account ids are drawn from Ids, once each.                     *)
(****************************************************************************)
EXTENDS Naturals, FiniteSets

CONSTANTS Servers,      \* processes sharing the vault
          Clients,      \* HTTP requests in flight
          Keys,         \* idempotency keys
          Creations,    \* bodies that add an account
          Ids,          \* account ids
          None,         \* no receipt, entry, job, call or account
          MaxKeys, MaxRunning, MaxReceipts

\* A body is a creation or the removal (or change) of one account.
Bodies == Creations \cup Ids

Receipt  == [body : Bodies, account : Ids]
Entry    == [body : Bodies, status : {"running", "completed", "failed"},
             account : Ids \cup {None}]
Job      == [found : Ids \cup {None}, at : {"work", "applied", "replayed", "uncertain", "failed"},
             account : Ids \cup {None}]
Call     == [server : Servers, key : Keys, body : Bodies, found : Ids \cup {None},
             at : {"looked_up", "refused"}]
Document == [accounts : SUBSET Ids,
             receipts : [Keys -> Receipt \cup {None}],
             times    : [Keys -> Nat]]

ASSUME NoneIsNothing ==
  None \notin Receipt \cup Entry \cup Job \cup Call \cup Ids

ASSUME BodiesDiffer == Creations \cap Ids = {}

ASSUME BoundsAreCounts ==
  MaxKeys \in Nat /\ MaxRunning \in Nat /\ MaxReceipts \in Nat

VARIABLES
  disk,      \* the vault document
  synced,    \* the document a power loss may bring back
  entry,     \* per server and key, its entry in the operation ledger
  job,       \* per server and key, the background job of that entry
  call,      \* per client, its request between two awaits of `mutate`
  drawn,     \* account ids drawn so far
  acks,      \* <<key, body, account, own>>: writes reported completed, own
             \* when the server reporting it made the write
  orphans    \* <<server, key>>: entries whose handler left before finishing them

vars == <<disk, synced, entry, job, call, drawn, acks, orphans>>

\* Faulty variants, named for what they get wrong, stand before the definition
\* they vary; the mutation runs put them in its place.

EmptyDocument == [accounts |-> {},
                  receipts |-> [k \in Keys |-> None],
                  times    |-> [k \in Keys |-> 0]]

Receipts(d) == {k \in Keys : d.receipts[k] # None}
Running(s)  == {k \in Keys : entry[s][k] # None /\ entry[s][k].status = "running"}
Known(s)    == {k \in Keys : entry[s][k] # None}

\* MutationIntent::receipt: no receipt, a receipt of this body, or a conflict.
ConflictingReceipt(d, k, b) == d.receipts[k] # None /\ d.receipts[k].body # b
FoundReceipt(d, k) == d.receipts[k]
Found(d, k) == IF d.receipts[k] = None THEN None ELSE d.receipts[k].account

Init ==
  /\ disk = EmptyDocument /\ synced = EmptyDocument
  /\ entry = [s \in Servers |-> [k \in Keys |-> None]]
  /\ job = [s \in Servers |-> [k \in Keys |-> None]]
  /\ call = [c \in Clients |-> None]
  /\ drawn = {} /\ acks = {} /\ orphans = {}

----------------------------------------------------------------------------
(* The request handler, `mutate`.                                           *)

SetEntry(s, k, e) == entry' = [entry EXCEPT ![s][k] = e]
SetJob(s, k, j)   == job' = [job EXCEPT ![s][k] = j]
EndCall(c)        == call' = [call EXCEPT ![c] = None]

\* mutation_receipt; a conflicting receipt answers 409 and leaves no trace.
LookUp(c, s, k, b) ==
  /\ call[c] = None
  /\ ~ConflictingReceipt(disk, k, b)
  /\ call' = [call EXCEPT ![c] = [server |-> s, key |-> k, body |-> b,
                                  found |-> Found(disk, k), at |-> "looked_up"]]
  /\ UNCHANGED <<disk, synced, entry, job, drawn, acks, orphans>>

\* Operations::start answers with the entry of the key, or with an error
\* (conflict, ledger full, too many running), and nothing changes; or it enters
\* the key, and the job is spawned unless the tracker is full (128 jobs of any
\* kind, so that from here it may happen at any time).
MayEnter(s, k) ==
  /\ entry[s][k] = None
  /\ Cardinality(Known(s)) < MaxKeys
  /\ Cardinality(Running(s)) < MaxRunning
Start(c) ==
  LET s == call[c].server
      k == call[c].key
  IN
  /\ call[c] # None /\ call[c].at = "looked_up"
  /\ IF MayEnter(s, k)
     THEN /\ SetEntry(s, k, [body |-> call[c].body, status |-> "running", account |-> None])
          /\ \/ /\ SetJob(s, k, [found |-> call[c].found, at |-> "work", account |-> None])
                /\ EndCall(c)
             \/ call' = [call EXCEPT ![c].at = "refused"] /\ UNCHANGED job
     ELSE EndCall(c) /\ UNCHANGED <<entry, job>>
  /\ UNCHANGED <<disk, synced, drawn, acks, orphans>>

RefuseSilently(c) ==
  /\ call[c] # None /\ call[c].at = "refused"
  /\ EndCall(c)
  /\ UNCHANGED <<disk, synced, entry, job, drawn, acks, orphans>>

\* Spawning was refused: the entry fails with server_busy, and keeps the key.
Refuse(c) ==
  /\ call[c] # None /\ call[c].at = "refused"
  /\ SetEntry(call[c].server, call[c].key,
              [body |-> call[c].body, status |-> "failed", account |-> None])
  /\ EndCall(c)
  /\ UNCHANGED <<disk, synced, job, drawn, acks, orphans>>

\* The client disconnects and its handler is dropped at an await.
Disconnect(c) ==
  /\ call[c] # None
  /\ orphans' = IF call[c].at = "refused"
                THEN orphans \cup {<<call[c].server, call[c].key>>} ELSE orphans
  /\ EndCall(c)
  /\ UNCHANGED <<disk, synced, entry, job, drawn, acks>>

----------------------------------------------------------------------------
(* The job.                                                                 *)

\* A receipt found by the handler is the result: nothing is validated or done.
Replay(s, k) ==
  /\ job[s][k] # None /\ job[s][k].at = "work" /\ job[s][k].found # None
  /\ SetJob(s, k, [job[s][k] EXCEPT !.at = "replayed", !.account = job[s][k].found])
  /\ UNCHANGED <<disk, synced, entry, call, drawn, acks, orphans>>

\* Validation, the mutation guard, the vault or the mutation itself refuses.
Fail(s, k) ==
  /\ job[s][k] # None /\ job[s][k].at = "work" /\ job[s][k].found = None
  /\ SetJob(s, k, [job[s][k] EXCEPT !.at = "failed"])
  /\ UNCHANGED <<disk, synced, entry, call, drawn, acks, orphans>>

\* commit_once finds a receipt written since the handler looked.
FindReceipt(s, k) ==
  LET b == entry[s][k].body IN
  /\ job[s][k] # None /\ job[s][k].at = "work" /\ job[s][k].found = None
  /\ disk.receipts[k] # None
  /\ SetJob(s, k, IF ConflictingReceipt(disk, k, b)
                  THEN [job[s][k] EXCEPT !.at = "failed"]
                  ELSE [job[s][k] EXCEPT !.at = "replayed", !.account = Found(disk, k)])
  /\ UNCHANGED <<disk, synced, entry, call, drawn, acks, orphans>>

\* The mutation and its receipt, in one document.
WithEffect(d, k, b, a) ==
  [accounts |-> IF b \in Creations THEN d.accounts \cup {a} ELSE d.accounts \ {a},
   receipts |-> [d.receipts EXCEPT ![k] = [body |-> b, account |-> a]],
   times    |-> [d.times EXCEPT ![k] = @ + 1]]

Touches(b, a) ==
  IF b \in Creations THEN a \in Ids \ drawn ELSE a = b /\ a \in disk.accounts

MayCommitBlindly(s, k) == Cardinality(Receipts(disk)) < MaxReceipts
MayCommit(s, k) ==
  /\ disk.receipts[k] = None
  /\ Cardinality(Receipts(disk)) < MaxReceipts

CommitOptimistically(s, k, a) ==
  LET b == entry[s][k].body IN
  /\ job[s][k] # None /\ job[s][k].at = "work" /\ job[s][k].found = None
  /\ MayCommit(s, k)
  /\ Touches(b, a)
  /\ drawn' = drawn \cup {a}
  /\ disk' = WithEffect(disk, k, b, a) /\ synced' \in {disk', synced}
  /\ SetJob(s, k, [job[s][k] EXCEPT !.at = "applied", !.account = a])
  /\ UNCHANGED <<entry, call, acks, orphans>>

\* commit_once writes; the write succeeds, fails, or becomes visible and is not
\* known to be durable (CommitUncertain).
Commit(s, k, a) ==
  LET b == entry[s][k].body IN
  /\ job[s][k] # None /\ job[s][k].at = "work" /\ job[s][k].found = None
  /\ MayCommit(s, k)
  /\ Touches(b, a)
  /\ drawn' = drawn \cup {a}
  /\ \/ /\ disk' = WithEffect(disk, k, b, a) /\ synced' = disk'
        /\ SetJob(s, k, [job[s][k] EXCEPT !.at = "applied", !.account = a])
     \/ /\ disk' = WithEffect(disk, k, b, a) /\ UNCHANGED synced
        /\ SetJob(s, k, [job[s][k] EXCEPT !.at = "uncertain"])
     \/ /\ UNCHANGED <<disk, synced>>
        /\ SetJob(s, k, [job[s][k] EXCEPT !.at = "failed"])
  /\ UNCHANGED <<entry, call, acks, orphans>>

\* Operations::finish.  What a client reads from here on is the final word.
Finish(s, k) ==
  LET j == job[s][k]
      b == entry[s][k].body
  IN
  /\ j # None /\ j.at # "work"
  /\ IF j.at \in {"applied", "replayed"}
     THEN /\ SetEntry(s, k, [body |-> b, status |-> "completed", account |-> j.account])
          /\ acks' = acks \cup {<<k, b, j.account, j.at = "applied">>}
     ELSE /\ SetEntry(s, k, [body |-> b, status |-> "failed", account |-> None])
          /\ UNCHANGED acks
  /\ SetJob(s, k, None)
  /\ UNCHANGED <<disk, synced, call, drawn, orphans>>

----------------------------------------------------------------------------
(* The environment.                                                         *)

Forget(S) ==
  /\ entry' = [s \in Servers |-> IF s \in S THEN [k \in Keys |-> None] ELSE entry[s]]
  /\ job' = [s \in Servers |-> IF s \in S THEN [k \in Keys |-> None] ELSE job[s]]
  /\ call' = [c \in Clients |->
                IF call[c] # None /\ call[c].server \in S THEN None ELSE call[c]]
  /\ orphans' = {o \in orphans : o[1] \notin S}
  /\ UNCHANGED <<drawn, acks>>

\* A server is stopped or killed, and started again.
Restart(s) == Forget({s}) /\ UNCHANGED <<disk, synced>>

\* All of them, and a rename that was never synced may be undone.
PowerLoss ==
  /\ disk' \in {disk, synced} /\ synced' = disk'
  /\ Forget(Servers)

\* An account command, or a credential refresh, writes the document too; a
\* write that succeeds syncs what an uncertain one left.
OtherWrite ==
  /\ \E gone \in SUBSET disk.accounts :
       disk' = [disk EXCEPT !.accounts = disk.accounts \ gone]
  /\ synced' = disk'
  /\ UNCHANGED <<entry, job, call, drawn, acks, orphans>>

JobStep(s, k) ==
  \/ Replay(s, k) \/ Fail(s, k) \/ FindReceipt(s, k)
  \/ \E a \in Ids : Commit(s, k, a)
  \/ Finish(s, k)

Next ==
  \/ \E c \in Clients, s \in Servers, k \in Keys, b \in Bodies : LookUp(c, s, k, b)
  \/ \E c \in Clients : Start(c) \/ Refuse(c) \/ Disconnect(c)
  \/ \E s \in Servers, k \in Keys : JobStep(s, k)
  \/ \E s \in Servers : Restart(s)
  \/ PowerLoss
  \/ OtherWrite

Spec == Init /\ [][Next]_vars

----------------------------------------------------------------------------
(* Properties.                                                              *)

\* Every variable keeps its type.
TypeOK ==
  /\ disk \in Document /\ synced \in Document
  /\ entry \in [Servers -> [Keys -> Entry \cup {None}]]
  /\ job \in [Servers -> [Keys -> Job \cup {None}]]
  /\ call \in [Clients -> Call \cup {None}]
  /\ drawn \subseteq Ids
  /\ acks \subseteq Keys \X Bodies \X Ids \X BOOLEAN
  /\ orphans \subseteq Servers \X Keys

\* Whatever is retried, restarted or lost, no key has two effects, and an effect
\* is in the document exactly when its receipt is (commit_once; "retrying a key
\* cannot repeat a write", local-http-api.md:247).
AppliedAtMostOnce ==
  \A k \in Keys : disk.times[k] = IF disk.receipts[k] = None THEN 0 ELSE 1

\* A write reported completed by the server that made it is on stable storage,
\* and stays there under that body and account.
CompletedIsDurable ==
  \A r \in acks : r[4] =>
    \A d \in {disk, synced} : d.receipts[r[1]] = [body |-> r[2], account |-> r[3]]

\* A running operation always has somebody who will end it - its job, or the
\* handler being refused - unless the client of that handler left: then it stays
\* running until the server restarts, and blocks its key.
Refusing(s, k) ==
  \E c \in Clients : call[c] # None /\ call[c].at = "refused" /\ call[c].server = s /\ call[c].key = k

OperationsAttended ==
  \A s \in Servers, k \in Keys :
    k \in Running(s) => job[s][k] # None \/ Refusing(s, k) \/ <<s, k>> \in orphans

\* Whatever servers, retries, restarts and lost replies there are, all that can be
\* seen of the keys is what Effects says (a retry returns the original result without
\* "applying the mutation again", local-http-api.md:254, and "No receipt is evicted
\* silently").
EffectsOf(d) == [k \in Keys |-> [receipt |-> d.receipts[k], times |-> d.times[k]]]
Abstract == INSTANCE Effects WITH effect <- EffectsOf(disk), kept <- EffectsOf(synced),
                                  reported <- acks
ImplementsEffects == Abstract!Spec

----------------------------------------------------------------------------
(* The inductive invariant: both versions of the document pair effects with  *)
(* receipts, and a write reported or about to be reported as made here is in *)
(* both of them.                                                            *)

Paired(d) == \A k \in Keys : d.times[k] = IF d.receipts[k] = None THEN 0 ELSE 1

JobInv ==
  \A s \in Servers, k \in Keys : job[s][k] # None =>
    /\ entry[s][k] # None
    /\ job[s][k].at \in {"applied", "replayed"} => job[s][k].account \in Ids
    /\ job[s][k].at = "applied" =>
         \A d \in {disk, synced} :
           d.receipts[k] = [body |-> entry[s][k].body, account |-> job[s][k].account]

\* A handler being refused owns the entry it made.
RefusedInv ==
  \A c \in Clients : call[c] # None /\ call[c].at = "refused" =>
    /\ entry[call[c].server][call[c].key] # None
    /\ entry[call[c].server][call[c].key].body = call[c].body

\* What a handler or a job has found or done is in the visible document: only a
\* power loss undoes it, and ends them too.
Recorded(d, k, b, a) == d.receipts[k] = [body |-> b, account |-> a]
CallRight(d, x) == x.found # None => Recorded(d, x.key, x.body, x.found)
JobRight(d, x, k, b) ==
  /\ x.found # None => Recorded(d, k, b, x.found)
  /\ x.at \in {"applied", "replayed"} => Recorded(d, k, b, x.account)
FoundInv ==
  /\ \A c \in Clients : call[c] # None => CallRight(disk, call[c])
  /\ \A s \in Servers, k \in Keys :
       job[s][k] # None => JobRight(disk, job[s][k], k, entry[s][k].body)

IInv ==
  /\ TypeOK
  /\ Paired(disk) /\ Paired(synced)
  /\ JobInv /\ RefusedInv
  /\ CompletedIsDurable
==============================================================================
