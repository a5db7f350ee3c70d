----------------------- MODULE IdempotentMutationsProofs -----------------------
(****************************************************************************)
(* The safety of IdempotentMutations for every set of servers, clients, keys *)
(* and accounts and every bound: IInv is inductive, and implies that a key   *)
(* has one effect at most and that a completed write is durable.             *)
(****************************************************************************)
EXTENDS IdempotentMutations, TLAPS

USE NoneIsNothing, BodiesDiffer DEF Bodies

\* Initially nothing is recorded anywhere.
LEMMA InitIInv == Init => IInv
  BY DEF Init, IInv, TypeOK, Paired, JobInv, RefusedInv, CompletedIsDurable, EmptyDocument,
         Document, Receipt, Entry, Job, Call

\* An effect keeps a document well-typed and paired, when its key had none.
LEMMA EffectPairs ==
  ASSUME NEW d \in Document, NEW k \in Keys, NEW b \in Bodies, NEW a \in Ids,
         Paired(d), d.receipts[k] = None
  PROVE  /\ WithEffect(d, k, b, a) \in Document
         /\ Paired(WithEffect(d, k, b, a))
         /\ WithEffect(d, k, b, a).receipts = [d.receipts EXCEPT ![k] = [body |-> b, account |-> a]]
<1> DEFINE new == WithEffect(d, k, b, a)
<1>1. /\ new.receipts = [d.receipts EXCEPT ![k] = [body |-> b, account |-> a]]
      /\ new.times = [d.times EXCEPT ![k] = @ + 1]
      /\ new.accounts = IF b \in Creations THEN d.accounts \cup {a} ELSE d.accounts \ {a}
  BY DEF WithEffect
<1>2. [body |-> b, account |-> a] \in Receipt
  BY DEF Receipt
<1>3. new \in Document
  BY <1>2 DEF WithEffect, Document
<1>4. Paired(new)
  <2> SUFFICES ASSUME NEW q \in Keys
               PROVE  new.times[q] = IF new.receipts[q] = None THEN 0 ELSE 1
    BY DEF Paired
  <2>1. d.times[q] = IF d.receipts[q] = None THEN 0 ELSE 1
    BY DEF Paired
  <2>2. CASE q = k
    BY <2>1, <2>2, <1>1, <1>2 DEF Document
  <2>3. CASE q # k
    BY <2>1, <2>3, <1>1 DEF Document
  <2> QED BY <2>2, <2>3
<1> QED BY <1>1, <1>3, <1>4

----------------------------------------------------------------------------
(* The handler.                                                             *)

LEMMA LookUpStep ==
  ASSUME IInv, NEW c \in Clients, NEW s \in Servers, NEW k \in Keys, NEW b \in Bodies,
         LookUp(c, s, k, b)
  PROVE  IInv'
<1> DEFINE x == [server |-> s, key |-> k, body |-> b, found |-> Found(disk, k), at |-> "looked_up"]
<1>1. Found(disk, k) \in Ids \cup {None}
  BY DEF IInv, TypeOK, Document, Found, Receipt
<1>2. x \in Call /\ call' = [call EXCEPT ![c] = x]
  BY <1>1 DEF LookUp, Call
<1>3. UNCHANGED <<disk, synced, entry, job, drawn, acks, orphans>>
  BY DEF LookUp
<1>4. TypeOK'
  BY <1>2, <1>3 DEF IInv, TypeOK
<1>5. RefusedInv'
  BY <1>2, <1>3 DEF IInv, TypeOK, RefusedInv
<1> QED BY <1>3, <1>4, <1>5 DEF IInv, Paired, JobInv, CompletedIsDurable

LEMMA StartStep ==
  ASSUME IInv, NEW c \in Clients, Start(c)
  PROVE  IInv'
<1> DEFINE s == call[c].server
           k == call[c].key
           e == [body |-> call[c].body, status |-> "running", account |-> None]
           j == [found |-> call[c].found, at |-> "work", account |-> None]
           r == [call[c] EXCEPT !.at = "refused"]
<1>1. call[c] \in Call /\ s \in Servers /\ k \in Keys /\ call[c].at = "looked_up"
  BY DEF IInv, TypeOK, Start, Call
<1>2. e \in Entry /\ j \in Job /\ r \in Call /\ r.server = s /\ r.key = k /\ r.body = e.body
  BY <1>1 DEF Entry, Job, Call
<1>3. UNCHANGED <<disk, synced, drawn, acks, orphans>>
  BY DEF Start
<1>4. CASE MayEnter(s, k)
  <2>1. entry[s][k] = None /\ job[s][k] = None
    BY <1>1, <1>4 DEF IInv, JobInv, MayEnter
  <2>2. entry' = [entry EXCEPT ![s][k] = e]
    BY <1>4 DEF Start, SetEntry
  <2>3. \/ job' = [job EXCEPT ![s][k] = j] /\ call' = [call EXCEPT ![c] = None]
        \/ job' = job /\ call' = [call EXCEPT ![c] = r]
    BY <1>4 DEF Start, SetJob, EndCall
  <2>4. TypeOK'
    <3>1. entry' \in [Servers -> [Keys -> Entry \cup {None}]]
      BY <1>1, <1>2, <2>2 DEF IInv, TypeOK
    <3>2. job' \in [Servers -> [Keys -> Job \cup {None}]]
      <4>1. job \in [Servers -> [Keys -> Job \cup {None}]]
        BY DEF IInv, TypeOK
      <4> HIDE DEF j, s, k
      <4> QED BY <1>1, <1>2, <2>3, <4>1, SMTT(30)
    <3>3. call' \in [Clients -> Call \cup {None}]
      BY <1>2, <2>3 DEF IInv, TypeOK
    <3> QED BY <1>3, <3>1, <3>2, <3>3 DEF IInv, TypeOK
  <2>5. JobInv'
    <3>1. \A t \in Servers, q \in Keys :
             job'[t][q] # None => (job'[t][q] = job[t][q] /\ entry'[t][q] = entry[t][q])
                                  \/ (job'[t][q] = j /\ entry'[t][q] = e)
      BY <1>1, <2>1, <2>2, <2>3 DEF IInv, TypeOK
    <3>2. j.at = "work" /\ e # None
      BY <1>2
    <3> QED BY <1>3, <3>1, <3>2 DEF IInv, JobInv
  <2>6. RefusedInv'
    <3>1. \A t \in Servers, q \in Keys :
             entry[t][q] # None => entry'[t][q] = entry[t][q]
      BY <1>1, <2>1, <2>2 DEF IInv, TypeOK
    <3>2. entry'[s][k] = e /\ e # None
      BY <1>1, <1>2, <2>2 DEF IInv, TypeOK
    <3>3. \A d \in Clients : call'[d] = call[d] \/ call'[d] = None \/ call'[d] = r
      BY <2>3 DEF IInv, TypeOK
    <3>4. \A d \in Clients : call[d] # None => call[d].server \in Servers /\ call[d].key \in Keys
      BY DEF IInv, TypeOK, Call
    <3> HIDE DEF s, k, e, r
    <3> QED BY <1>1, <1>2, <3>1, <3>2, <3>3, <3>4 DEF IInv, RefusedInv
  <2> QED BY <1>3, <2>4, <2>5, <2>6 DEF IInv, Paired, CompletedIsDurable
<1>5. CASE ~MayEnter(s, k)
  <2>1. UNCHANGED <<entry, job>> /\ call' = [call EXCEPT ![c] = None]
    BY <1>5 DEF Start, EndCall
  <2>2. TypeOK' /\ RefusedInv'
    BY <1>3, <2>1 DEF IInv, TypeOK, RefusedInv
  <2> QED BY <1>3, <2>1, <2>2 DEF IInv, Paired, JobInv, CompletedIsDurable
<1> QED BY <1>4, <1>5

LEMMA RefuseStep ==
  ASSUME IInv, NEW c \in Clients, Refuse(c)
  PROVE  IInv'
<1> DEFINE s == call[c].server
           k == call[c].key
           e == [body |-> call[c].body, status |-> "failed", account |-> None]
<1>1. call[c] \in Call /\ s \in Servers /\ k \in Keys /\ call[c].at = "refused"
  BY DEF IInv, TypeOK, Refuse, Call
<1>2. e \in Entry /\ entry[s][k] # None /\ e.body = entry[s][k].body
  BY <1>1 DEF IInv, RefusedInv, Refuse, Entry, Call
<1>3. entry' = [entry EXCEPT ![s][k] = e] /\ call' = [call EXCEPT ![c] = None]
  BY DEF Refuse, SetEntry, EndCall
<1>4. UNCHANGED <<disk, synced, job, drawn, acks, orphans>>
  BY DEF Refuse
<1>5. \A t \in Servers, q \in Keys :
        entry[t][q] # None => entry'[t][q] # None /\ entry'[t][q].body = entry[t][q].body
  BY <1>1, <1>2, <1>3 DEF IInv, TypeOK
<1>6. TypeOK'
  BY <1>1, <1>2, <1>3, <1>4 DEF IInv, TypeOK
<1>7. JobInv'
  <2> SUFFICES ASSUME NEW t \in Servers, NEW q \in Keys, job[t][q] # None
               PROVE  /\ entry'[t][q] # None
                      /\ job[t][q].at \in {"applied", "replayed"} => job[t][q].account \in Ids
                      /\ job[t][q].at = "applied" => \A d \in {disk, synced} :
                           d.receipts[q] = [body |-> entry'[t][q].body, account |-> job[t][q].account]
    BY <1>4 DEF JobInv
  <2>1. entry[t][q] # None
    BY DEF IInv, JobInv
  <2>2. entry'[t][q] # None /\ entry'[t][q].body = entry[t][q].body
    BY <1>5, <2>1
  <2> QED BY <2>2 DEF IInv, JobInv
<1>8. RefusedInv'
  <2> SUFFICES ASSUME NEW d \in Clients, call'[d] # None, call'[d].at = "refused"
               PROVE  /\ entry'[call'[d].server][call'[d].key] # None
                      /\ entry'[call'[d].server][call'[d].key].body = call'[d].body
    BY DEF RefusedInv
  <2>1. call'[d] = call[d]
    BY <1>3 DEF IInv, TypeOK
  <2>2. call[d].server \in Servers /\ call[d].key \in Keys
    BY <2>1 DEF IInv, TypeOK, Call
  <2>3. /\ entry[call[d].server][call[d].key] # None
        /\ entry[call[d].server][call[d].key].body = call[d].body
    BY <2>1 DEF IInv, RefusedInv
  <2> QED BY <1>5, <2>1, <2>2, <2>3
<1> QED BY <1>4, <1>6, <1>7, <1>8 DEF IInv, Paired, CompletedIsDurable

LEMMA DisconnectStep ==
  ASSUME IInv, NEW c \in Clients, Disconnect(c)
  PROVE  IInv'
<1>1. call[c] \in Call /\ call' = [call EXCEPT ![c] = None]
  BY DEF IInv, TypeOK, Disconnect, EndCall
<1>2. UNCHANGED <<disk, synced, entry, job, drawn, acks>> /\ orphans' \subseteq Servers \X Keys
  BY <1>1 DEF IInv, TypeOK, Disconnect, Call
<1>3. TypeOK' /\ RefusedInv'
  BY <1>1, <1>2 DEF IInv, TypeOK, RefusedInv
<1> QED BY <1>2, <1>3 DEF IInv, Paired, JobInv, CompletedIsDurable

----------------------------------------------------------------------------
(* The job.                                                                 *)

\* A step that only moves a job on, to a state of which JobInv asks no more than
\* an account.
LEMMA JobMoves ==
  ASSUME IInv, NEW s \in Servers, NEW k \in Keys, NEW j \in Job,
         job[s][k] # None, j.at # "applied", j.at = "replayed" => j.account \in Ids,
         SetJob(s, k, j),
         UNCHANGED <<disk, synced, entry, call, drawn, acks, orphans>>
  PROVE  IInv'
<1>1. job' = [job EXCEPT ![s][k] = j]
  BY DEF SetJob
<1>2. TypeOK'
  BY <1>1 DEF IInv, TypeOK
<1>3. \A t \in Servers, q \in Keys :
        job'[t][q] = job[t][q] \/ (job'[t][q] = j /\ t = s /\ q = k)
  BY <1>1 DEF IInv, TypeOK
<1>4. entry[s][k] # None
  BY DEF IInv, JobInv
<1>5. JobInv'
  BY <1>3, <1>4 DEF IInv, JobInv
<1> QED BY <1>2, <1>5 DEF IInv, Paired, RefusedInv, CompletedIsDurable

LEMMA ReplayStep ==
  ASSUME IInv, NEW s \in Servers, NEW k \in Keys, Replay(s, k)
  PROVE  IInv'
<1> DEFINE j == [job[s][k] EXCEPT !.at = "replayed", !.account = job[s][k].found]
<1>1. job[s][k] \in Job /\ job[s][k].found \in Ids
  BY DEF IInv, TypeOK, Replay, Job
<1>2. j \in Job /\ j.at = "replayed" /\ j.account \in Ids
  BY <1>1 DEF Job
<1>3. SetJob(s, k, j) /\ job[s][k] # None
  BY DEF Replay
<1>4. UNCHANGED <<disk, synced, entry, call, drawn, acks, orphans>>
  BY DEF Replay
<1> HIDE DEF j
<1> QED BY <1>2, <1>3, <1>4, JobMoves

LEMMA FailStep ==
  ASSUME IInv, NEW s \in Servers, NEW k \in Keys, Fail(s, k)
  PROVE  IInv'
<1> DEFINE j == [job[s][k] EXCEPT !.at = "failed"]
<1>1. job[s][k] \in Job
  BY DEF IInv, TypeOK, Fail
<1>2. j \in Job /\ j.at = "failed"
  BY <1>1 DEF Job
<1>3. SetJob(s, k, j) /\ job[s][k] # None
  BY DEF Fail
<1>4. UNCHANGED <<disk, synced, entry, call, drawn, acks, orphans>>
  BY DEF Fail
<1> HIDE DEF j
<1> QED BY <1>2, <1>3, <1>4, JobMoves

LEMMA FindReceiptStep ==
  ASSUME IInv, NEW s \in Servers, NEW k \in Keys, FindReceipt(s, k)
  PROVE  IInv'
<1> DEFINE f == [job[s][k] EXCEPT !.at = "failed"]
           g == [job[s][k] EXCEPT !.at = "replayed", !.account = Found(disk, k)]
<1>1. job[s][k] \in Job /\ Found(disk, k) \in Ids
  BY DEF IInv, TypeOK, FindReceipt, Found, Document, Receipt
<1>2. f \in Job /\ f.at = "failed" /\ g \in Job /\ g.at = "replayed" /\ g.account \in Ids
  BY <1>1 DEF Job
<1>3. (SetJob(s, k, f) \/ SetJob(s, k, g)) /\ job[s][k] # None
  BY DEF FindReceipt
<1>4. UNCHANGED <<disk, synced, entry, call, drawn, acks, orphans>>
  BY DEF FindReceipt
<1> HIDE DEF f, g
<1> QED BY <1>2, <1>3, <1>4, JobMoves

\* Neither version of the document loses a receipt by Commit: the key has none.
LEMMA CommitStep ==
  ASSUME IInv, NEW s \in Servers, NEW k \in Keys, NEW a \in Ids, Commit(s, k, a)
  PROVE  IInv'
<1> DEFINE b == entry[s][k].body
           new == WithEffect(disk, k, b, a)
           applied == [job[s][k] EXCEPT !.at = "applied", !.account = a]
           uncertain == [job[s][k] EXCEPT !.at = "uncertain"]
           failed == [job[s][k] EXCEPT !.at = "failed"]
<1>1. job[s][k] \in Job /\ job[s][k] # None /\ entry[s][k] \in Entry /\ b \in Bodies
  <2>1. job[s][k] \in Job /\ job[s][k] # None
    BY DEF IInv, TypeOK, Commit
  <2>2. entry[s][k] # None
    BY <2>1 DEF IInv, JobInv
  <2>3. entry[s][k] \in Entry
    BY <2>2 DEF IInv, TypeOK
  <2> QED BY <2>1, <2>3 DEF Entry
<1>2. applied \in Job /\ uncertain \in Job /\ failed \in Job
      /\ applied.at = "applied" /\ applied.account = a
      /\ uncertain.at = "uncertain" /\ failed.at = "failed"
  BY <1>1 DEF Job
<1>3. disk.receipts[k] = None /\ disk \in Document /\ Paired(disk)
  BY DEF Commit, MayCommit, IInv, TypeOK
<1>4. /\ new \in Document /\ Paired(new)
      /\ new.receipts = [disk.receipts EXCEPT ![k] = [body |-> b, account |-> a]]
  BY <1>1, <1>3, EffectPairs
<1>5. /\ new.receipts[k] = [body |-> b, account |-> a]
      /\ \A q \in Keys : disk.receipts[q] # None => new.receipts[q] = disk.receipts[q]
  BY <1>3, <1>4 DEF Document
<1>6. UNCHANGED <<entry, call, acks, orphans>> /\ drawn' = drawn \cup {a}
  BY DEF Commit
<1>7. \/ disk' = new /\ synced' = new /\ SetJob(s, k, applied)
      \/ disk' = new /\ synced' = synced /\ SetJob(s, k, uncertain)
      \/ disk' = disk /\ synced' = synced /\ SetJob(s, k, failed)
  BY DEF Commit
<1> HIDE DEF b, new, applied, uncertain, failed
<1>8. PICK j \in Job :
        /\ job' = [job EXCEPT ![s][k] = j]
        /\ j.at \in {"applied", "replayed"} => j.account \in Ids
        /\ j.at = "applied" =>
             j.account = a /\ disk' = new /\ synced' = new
  BY <1>2, <1>7 DEF SetJob
<1>9. TypeOK'
  BY <1>4, <1>6, <1>7, <1>8 DEF IInv, TypeOK
<1>10. Paired(disk)' /\ Paired(synced)'
  <2>1. disk' \in {disk, new} /\ synced' \in {synced, new}
    BY <1>7
  <2> QED BY <2>1, <1>4 DEF IInv, Paired
<1>11. /\ \A q \in Keys : disk.receipts[q] # None => disk'.receipts[q] = disk.receipts[q]
       /\ \A q \in Keys : disk.receipts[q] # None /\ synced.receipts[q] = disk.receipts[q] =>
            synced'.receipts[q] = disk.receipts[q]
  BY <1>5, <1>7
<1>12. \A x \in Keys, y \in Bodies, z \in Ids : [body |-> y, account |-> z] # None
  BY DEF Receipt
<1>13. JobInv'
  <2> SUFFICES ASSUME NEW t \in Servers, NEW q \in Keys, job'[t][q] # None
               PROVE  /\ entry[t][q] # None
                      /\ job'[t][q].at \in {"applied", "replayed"} => job'[t][q].account \in Ids
                      /\ job'[t][q].at = "applied" =>
                           /\ disk'.receipts[q] =
                                [body |-> entry[t][q].body, account |-> job'[t][q].account]
                           /\ synced'.receipts[q] =
                                [body |-> entry[t][q].body, account |-> job'[t][q].account]
    BY <1>6 DEF JobInv
  <2>1. CASE t = s /\ q = k
    <3>1. job'[t][q] = j
      BY <2>1, <1>8 DEF IInv, TypeOK
    <3> QED BY <2>1, <3>1, <1>1, <1>5, <1>8 DEF b, IInv, JobInv
  <2>2. CASE ~(t = s /\ q = k)
    <3>1. job'[t][q] = job[t][q]
      BY <2>2, <1>8 DEF IInv, TypeOK
    <3>2. entry[t][q] # None /\ (entry[t][q] \in Entry => entry[t][q].body \in Bodies)
      BY <3>1, SMTT(30), ZenonT(40) DEF IInv, JobInv, Entry
    <3>3. entry[t][q] \in Entry
      BY <3>2 DEF IInv, TypeOK
    <3> QED BY <3>1, <3>2, <3>3, <1>11, <1>12 DEF IInv, JobInv
  <2> QED BY <2>1, <2>2
<1>14. CompletedIsDurable'
  <2> SUFFICES ASSUME NEW r \in acks, r[4]
               PROVE  /\ disk'.receipts[r[1]] = [body |-> r[2], account |-> r[3]]
                      /\ synced'.receipts[r[1]] = [body |-> r[2], account |-> r[3]]
    BY <1>6 DEF CompletedIsDurable
  <2>1. r[1] \in Keys /\ r[2] \in Bodies /\ r[3] \in Ids
    BY DEF IInv, TypeOK
  <2>2. /\ disk.receipts[r[1]] = [body |-> r[2], account |-> r[3]]
        /\ synced.receipts[r[1]] = [body |-> r[2], account |-> r[3]]
    BY DEF IInv, CompletedIsDurable
  <2> QED BY <2>1, <2>2, <1>11, <1>12
<1> QED BY <1>6, <1>9, <1>10, <1>13, <1>14 DEF IInv, RefusedInv

\* What a client is told as made here is what JobInv says of the job.
LEMMA FinishStep ==
  ASSUME IInv, NEW s \in Servers, NEW k \in Keys, Finish(s, k)
  PROVE  IInv'
<1> DEFINE j == job[s][k]
           b == entry[s][k].body
           done == [body |-> b, status |-> "completed", account |-> j.account]
           failed == [body |-> b, status |-> "failed", account |-> None]
           ack == <<k, b, j.account, j.at = "applied">>
<1>1. j \in Job /\ j # None
  BY DEF IInv, TypeOK, Finish
<1>2. entry[s][k] # None
  BY <1>1 DEF IInv, JobInv
<1>3. entry[s][k] \in Entry /\ b \in Bodies
  <2>1. entry[s][k] \in Entry
    BY <1>2 DEF IInv, TypeOK
  <2> QED BY <2>1 DEF Entry
<1>4. UNCHANGED <<disk, synced, call, drawn, orphans>> /\ job' = [job EXCEPT ![s][k] = None]
  BY DEF Finish, SetJob
<1>5. \/ /\ j.at \in {"applied", "replayed"}
         /\ entry' = [entry EXCEPT ![s][k] = done] /\ acks' = acks \cup {ack}
      \/ entry' = [entry EXCEPT ![s][k] = failed] /\ acks' = acks
  BY DEF Finish, SetEntry
<1>6. failed \in Entry /\ failed.body = b
  BY <1>3 DEF Entry
<1>7. j.at \in {"applied", "replayed"} =>
        /\ j.account \in Ids
        /\ done \in Entry /\ done.body = b
        /\ ack \in Keys \X Bodies \X Ids \X BOOLEAN
  <2> SUFFICES ASSUME j.at \in {"applied", "replayed"}
               PROVE  /\ j.account \in Ids
                      /\ done \in Entry /\ done.body = b
                      /\ ack \in Keys \X Bodies \X Ids \X BOOLEAN
    OBVIOUS
  <2>1. j.account \in Ids
    BY <1>1 DEF IInv, JobInv
  <2> QED BY <1>3, <2>1 DEF Entry
<1>8. j.at = "applied" => \A d \in {disk, synced} : d.receipts[k] = [body |-> b, account |-> j.account]
  BY <1>1 DEF IInv, JobInv
<1>9. PICK e \in Entry : e.body = b /\ entry' = [entry EXCEPT ![s][k] = e]
  BY <1>5, <1>6, <1>7
<1>10. TypeOK'
  <2>1. entry' \in [Servers -> [Keys -> Entry \cup {None}]]
    BY <1>9 DEF IInv, TypeOK
  <2>2. job' \in [Servers -> [Keys -> Job \cup {None}]]
    BY <1>4 DEF IInv, TypeOK
  <2>3. acks' \subseteq Keys \X Bodies \X Ids \X BOOLEAN
    BY <1>5, <1>7 DEF IInv, TypeOK
  <2> QED BY <1>4, <2>1, <2>2, <2>3 DEF IInv, TypeOK
<1>11. JobInv'
  <2>1. \A t \in Servers, q \in Keys : job'[t][q] # None =>
           job'[t][q] = job[t][q] /\ entry'[t][q] = entry[t][q]
    BY <1>4, <1>9 DEF IInv, TypeOK
  <2> QED BY <1>4, <2>1 DEF IInv, JobInv
<1>12. RefusedInv'
  <2>1. \A t \in Servers, q \in Keys :
           entry[t][q] # None => entry'[t][q] # None /\ entry'[t][q].body = entry[t][q].body
    BY <1>9 DEF IInv, TypeOK
  <2>2. \A c \in Clients : call[c] # None => call[c].server \in Servers /\ call[c].key \in Keys
    BY DEF IInv, TypeOK, Call
  <2> QED BY <1>4, <2>1, <2>2 DEF IInv, RefusedInv
<1>13. CompletedIsDurable'
  <2> SUFFICES ASSUME NEW r \in acks', r[4], NEW d \in {disk, synced}
               PROVE  d.receipts[r[1]] = [body |-> r[2], account |-> r[3]]
    BY <1>4 DEF CompletedIsDurable
  <2>1. CASE r \in acks
    BY <2>1 DEF IInv, CompletedIsDurable
  <2>2. CASE r \notin acks
    <3>1. r = ack
      BY <2>2, <1>5
    <3> QED BY <3>1, <1>8
  <2> QED BY <2>1, <2>2
<1> QED BY <1>4, <1>10, <1>11, <1>12, <1>13 DEF IInv, Paired

----------------------------------------------------------------------------
(* The environment.                                                         *)

\* Emptying the ledgers of any servers forgets jobs, and no receipt.
LEMMA ForgetStep ==
  ASSUME IInv, NEW S \in SUBSET Servers, Forget(S),
         disk' \in {disk, synced}, synced' \in {disk, synced}
  PROVE  IInv'
<1>1. \A t \in Servers, q \in Keys :
        /\ entry'[t][q] = IF t \in S THEN None ELSE entry[t][q]
        /\ job'[t][q] = IF t \in S THEN None ELSE job[t][q]
  BY DEF Forget
<1>2. \A c \in Clients : call'[c] = IF call[c] # None /\ call[c].server \in S THEN None ELSE call[c]
  BY DEF Forget
<1>3. UNCHANGED <<drawn, acks>>
  BY DEF Forget
<1>4. TypeOK'
  <2>1. entry' \in [Servers -> [Keys -> Entry \cup {None}]]
    BY DEF IInv, TypeOK, Forget
  <2>2. job' \in [Servers -> [Keys -> Job \cup {None}]]
    BY DEF IInv, TypeOK, Forget
  <2>3. call' \in [Clients -> Call \cup {None}]
    BY DEF IInv, TypeOK, Forget
  <2>4. orphans' \subseteq Servers \X Keys
    BY DEF IInv, TypeOK, Forget
  <2> QED BY <1>3, <2>1, <2>2, <2>3, <2>4 DEF IInv, TypeOK
<1>5. Paired(disk)' /\ Paired(synced)'
  BY DEF IInv, Paired
<1>6. JobInv'
  BY <1>1 DEF IInv, JobInv
<1>7. RefusedInv'
  <2>1. \A c \in Clients : call[c] # None => call[c].server \in Servers /\ call[c].key \in Keys
    BY DEF IInv, TypeOK, Call
  <2> QED BY <1>1, <1>2, <2>1, SMTT(30) DEF IInv, RefusedInv
<1>8. CompletedIsDurable'
  BY <1>3 DEF IInv, CompletedIsDurable
<1> QED BY <1>4, <1>5, <1>6, <1>7, <1>8 DEF IInv

LEMMA OtherWriteStep ==
  ASSUME IInv, OtherWrite
  PROVE  IInv'
<1>1. PICK gone \in SUBSET disk.accounts :
        disk' = [disk EXCEPT !.accounts = disk.accounts \ gone]
  BY DEF OtherWrite
<1>2. disk' \in Document /\ disk'.receipts = disk.receipts /\ disk'.times = disk.times
  BY <1>1 DEF IInv, TypeOK, Document
<1>3. synced' = disk' /\ UNCHANGED <<entry, job, call, drawn, acks, orphans>>
  BY DEF OtherWrite
<1>4. TypeOK'
  BY <1>2, <1>3 DEF IInv, TypeOK
<1>5. Paired(disk)' /\ Paired(synced)'
  BY <1>2, <1>3 DEF IInv, Paired
<1>6. JobInv' /\ RefusedInv' /\ CompletedIsDurable'
  BY <1>2, <1>3 DEF IInv, JobInv, RefusedInv, CompletedIsDurable
<1> QED BY <1>4, <1>5, <1>6 DEF IInv

----------------------------------------------------------------------------
(* Nobody's operation is left running unattended.                           *)

\* A step that leaves the entries that run, their jobs and the refused handlers
\* alone, or replaces a job by another one.
LEMMA StaysAttended ==
  ASSUME OperationsAttended,
         \A s \in Servers, k \in Keys :
           /\ k \in Running(s)' => k \in Running(s)
           /\ k \in Running(s)' /\ job[s][k] # None => job'[s][k] # None
           /\ k \in Running(s)' /\ <<s, k>> \in orphans => <<s, k>> \in orphans'
           /\ k \in Running(s)' /\ Refusing(s, k) => Refusing(s, k)' \/ <<s, k>> \in orphans'
  PROVE  OperationsAttended'
  BY DEF OperationsAttended

LEMMA StartAttended ==
  ASSUME IInv, OperationsAttended, NEW c \in Clients, Start(c)
  PROVE  OperationsAttended'
<1> DEFINE s == call[c].server
           k == call[c].key
           e == [body |-> call[c].body, status |-> "running", account |-> None]
           j == [found |-> call[c].found, at |-> "work", account |-> None]
           r == [call[c] EXCEPT !.at = "refused"]
<1>1. call[c] \in Call /\ s \in Servers /\ k \in Keys /\ call[c].at = "looked_up"
  BY DEF IInv, TypeOK, Start, Call
<1>2. orphans' = orphans
  BY DEF Start
<1>3. \A t \in Servers, q \in Keys, d \in Clients :
        call[d] # None /\ call[d].at = "refused" => d # c
  BY <1>1
<1>4. CASE MayEnter(s, k)
  <2>1. entry' = [entry EXCEPT ![s][k] = e]
    BY <1>4 DEF Start, SetEntry
  <2>2. \/ job' = [job EXCEPT ![s][k] = j] /\ call' = [call EXCEPT ![c] = None]
        \/ job' = job /\ call' = [call EXCEPT ![c] = r]
    BY <1>4 DEF Start, SetJob, EndCall
  <2>3. j # None /\ r # None /\ r.at = "refused" /\ r.server = s /\ r.key = k
    <3>1. j \in Job /\ r \in Call
      BY <1>1 DEF Job, Call
    <3> QED BY <1>1, <3>1 DEF Call
  <2> SUFFICES ASSUME NEW t \in Servers, NEW q \in Keys, q \in Running(t)'
               PROVE  job'[t][q] # None \/ Refusing(t, q)' \/ <<t, q>> \in orphans'
    BY DEF OperationsAttended
  <2>4. CASE t = s /\ q = k
    <3>1. CASE job' = [job EXCEPT ![s][k] = j]
      <4>1. job'[s][k] = j
        BY <1>1, <3>1 DEF IInv, TypeOK
      <4> QED BY <2>3, <2>4, <4>1
    <3>2. CASE call' = [call EXCEPT ![c] = r]
      <4>1. call'[c] = r
        BY <3>2 DEF IInv, TypeOK
      <4> QED BY <2>3, <2>4, <4>1 DEF Refusing
    <3> QED BY <2>2, <3>1, <3>2
  <2>5. CASE ~(t = s /\ q = k)
    <3>1. entry'[t][q] = entry[t][q] /\ job'[t][q] = job[t][q]
      BY <2>1, <2>2, <2>5 DEF IInv, TypeOK
    <3>2. q \in Running(t)
      BY <3>1 DEF Running
    <3>3. Refusing(t, q) => Refusing(t, q)'
      BY <1>1, <2>2 DEF Refusing, IInv, TypeOK
    <3> QED BY <1>2, <3>1, <3>2, <3>3 DEF OperationsAttended
  <2> QED BY <2>4, <2>5
<1>5. CASE ~MayEnter(s, k)
  <2>1. UNCHANGED <<entry, job>> /\ call' = [call EXCEPT ![c] = None]
    BY <1>5 DEF Start, EndCall
  <2>2. \A t \in Servers, q \in Keys : Refusing(t, q) => Refusing(t, q)'
    BY <1>1, <2>1 DEF Refusing, IInv, TypeOK
  <2> QED BY <1>2, <2>1, <2>2, StaysAttended DEF Running
<1> QED BY <1>4, <1>5

\* The handler fails the entry it was refused, or leaves it an orphan.
LEMMA HandlerAttended ==
  ASSUME IInv, OperationsAttended, NEW c \in Clients, Refuse(c) \/ Disconnect(c)
  PROVE  OperationsAttended'
<1>1. call[c] \in Call /\ call' = [call EXCEPT ![c] = None] /\ job' = job
  BY DEF IInv, TypeOK, Refuse, Disconnect, EndCall
<1>2. \A t \in Servers, q \in Keys :
        Refusing(t, q) => \/ Refusing(t, q)'
                          \/ call[c].at = "refused" /\ t = call[c].server /\ q = call[c].key
  BY <1>1 DEF Refusing, IInv, TypeOK
<1>3. CASE Refuse(c)
  <2> DEFINE e == [body |-> call[c].body, status |-> "failed", account |-> None]
  <2>1. entry' = [entry EXCEPT ![call[c].server][call[c].key] = e] /\ orphans' = orphans
    BY <1>3 DEF Refuse, SetEntry
  <2>2. call[c].server \in Servers /\ call[c].key \in Keys
    BY <1>1 DEF Call
  <2>3. \A t \in Servers, q \in Keys :
          entry'[t][q] = IF t = call[c].server /\ q = call[c].key THEN e ELSE entry[t][q]
    BY <2>1, <2>2 DEF IInv, TypeOK
  <2>4. \A t \in Servers, q \in Keys : q \in Running(t)' =>
          q \in Running(t) /\ ~(t = call[c].server /\ q = call[c].key)
    BY <2>3 DEF Running
  <2> QED BY <1>1, <1>2, <2>1, <2>4, StaysAttended
<1>4. CASE Disconnect(c)
  <2>1. UNCHANGED entry
    BY <1>4 DEF Disconnect
  <2>2. orphans \subseteq orphans'
    BY <1>4 DEF Disconnect
  <2>3. call[c].at = "refused" => <<call[c].server, call[c].key>> \in orphans'
    BY <1>4 DEF Disconnect
  <2> QED BY <1>1, <1>2, <2>1, <2>2, <2>3, StaysAttended DEF Running
<1> QED BY <1>3, <1>4

\* A job stays until it ends its entry.
LEMMA JobAttended ==
  ASSUME IInv, OperationsAttended, NEW s \in Servers, NEW k \in Keys, JobStep(s, k)
  PROVE  OperationsAttended'
<1>1. UNCHANGED <<call, orphans>>
  BY DEF JobStep, Replay, Fail, FindReceipt, Commit, Finish
<1>2. \A t \in Servers, q \in Keys : Refusing(t, q) => Refusing(t, q)'
  BY <1>1 DEF Refusing
<1>3. CASE Finish(s, k)
  <2> DEFINE E(v, x) == [body |-> entry[s][k].body, status |-> v, account |-> x]
  <2>1. PICK v \in {"completed", "failed"}, x \in {job[s][k].account, None} :
          entry' = [entry EXCEPT ![s][k] = E(v, x)]
    BY <1>3 DEF Finish, SetEntry
  <2> DEFINE e == E(v, x)
  <2>0. e.status # "running"
    OBVIOUS
  <2>2. job' = [job EXCEPT ![s][k] = None]
    BY <1>3 DEF Finish, SetJob
  <2>3. \A t \in Servers, q \in Keys :
          /\ entry'[t][q] = IF t = s /\ q = k THEN e ELSE entry[t][q]
          /\ job'[t][q] = IF t = s /\ q = k THEN None ELSE job[t][q]
    BY <2>1, <2>2 DEF IInv, TypeOK
  <2> HIDE DEF e
  <2>4. \A t \in Servers, q \in Keys : q \in Running(t)' =>
          q \in Running(t) /\ ~(t = s /\ q = k)
    BY <2>0, <2>3 DEF Running
  <2> QED BY <1>1, <1>2, <2>3, <2>4, StaysAttended
<1>4. CASE Replay(s, k) \/ Fail(s, k) \/ FindReceipt(s, k) \/ \E a \in Ids : Commit(s, k, a)
  <2>1. UNCHANGED entry /\ job[s][k] # None
    BY <1>4 DEF Replay, Fail, FindReceipt, Commit
  <2>2. job[s][k] \in Job
    BY <2>1 DEF IInv, TypeOK
  <2> DEFINE At(x)     == [job[s][k] EXCEPT !.at = x]
             To(x, y)  == [job[s][k] EXCEPT !.at = x, !.account = y]
  <2>3. PICK j \in Job : job' = [job EXCEPT ![s][k] = j]
    <3>1. At("failed") \in Job /\ At("uncertain") \in Job
      BY <2>2 DEF Job
    <3>2. \A y \in Ids : To("applied", y) \in Job /\ To("replayed", y) \in Job
      BY <2>2 DEF Job
    <3>3. CASE Replay(s, k)
      <4>1. job[s][k].found \in Ids
        BY <2>2, <3>3 DEF Replay, Job
      <4> QED BY <3>2, <3>3, <4>1 DEF Replay, SetJob
    <3>4. CASE Fail(s, k)
      BY <3>1, <3>4 DEF Fail, SetJob
    <3>5. CASE FindReceipt(s, k)
      <4>1. Found(disk, k) \in Ids
        BY <3>5 DEF IInv, TypeOK, FindReceipt, Found, Document, Receipt
      <4> QED BY <3>1, <3>2, <3>5, <4>1 DEF FindReceipt, SetJob
    <3>6. ASSUME NEW a \in Ids, Commit(s, k, a) PROVE \E j \in Job : job' = [job EXCEPT ![s][k] = j]
      BY <3>1, <3>2, <3>6 DEF Commit, SetJob
    <3> QED BY <1>4, <3>3, <3>4, <3>5, <3>6
  <2>4. \A t \in Servers, q \in Keys : job[t][q] # None => job'[t][q] # None
    BY <2>3 DEF IInv, TypeOK
  <2> QED BY <1>1, <1>2, <2>1, <2>4, StaysAttended DEF Running
<1> QED BY <1>3, <1>4 DEF JobStep

LEMMA ForgetAttended ==
  ASSUME IInv, OperationsAttended, NEW S \in SUBSET Servers, Forget(S)
  PROVE  OperationsAttended'
<1>1. \A t \in Servers, q \in Keys :
        /\ entry'[t][q] = IF t \in S THEN None ELSE entry[t][q]
        /\ job'[t][q] = IF t \in S THEN None ELSE job[t][q]
        /\ <<t, q>> \in orphans /\ t \notin S => <<t, q>> \in orphans'
  BY DEF Forget
<1>2. \A t \in Servers, q \in Keys : t \notin S /\ Refusing(t, q) => Refusing(t, q)'
  BY DEF Forget, Refusing
<1>3. \A t \in Servers, q \in Keys : q \in Running(t)' => t \notin S /\ q \in Running(t)
  BY <1>1 DEF Running
<1> QED BY <1>1, <1>2, <1>3, StaysAttended

LEMMA NextAttended == IInv /\ OperationsAttended /\ [Next]_vars => OperationsAttended'
<1> SUFFICES ASSUME IInv, OperationsAttended, [Next]_vars PROVE OperationsAttended'
  OBVIOUS
<1>1. ASSUME NEW c \in Clients, NEW s \in Servers, NEW k \in Keys, NEW b \in Bodies,
             LookUp(c, s, k, b)
      PROVE  OperationsAttended'
  <2>1. UNCHANGED <<entry, job, orphans>> /\ call[c] = None
    BY <1>1 DEF LookUp
  <2>2. PICK x : call' = [call EXCEPT ![c] = x]
    BY <1>1 DEF LookUp
  <2>3. \A t \in Servers, q \in Keys : Refusing(t, q) => Refusing(t, q)'
    BY <2>1, <2>2 DEF Refusing, IInv, TypeOK
  <2> QED BY <2>1, <2>3, StaysAttended DEF Running
<1>2. ASSUME NEW c \in Clients, Start(c) \/ Refuse(c) \/ Disconnect(c) PROVE OperationsAttended'
  BY <1>2, StartAttended, HandlerAttended
<1>3. ASSUME NEW s \in Servers, NEW k \in Keys, JobStep(s, k) PROVE OperationsAttended'
  BY <1>3, JobAttended
<1>4. ASSUME NEW s \in Servers, Restart(s) PROVE OperationsAttended'
  BY <1>4, ForgetAttended DEF Restart
<1>5. CASE PowerLoss
  BY <1>5, ForgetAttended DEF PowerLoss
<1>6. CASE OtherWrite \/ UNCHANGED vars
  <2>1. UNCHANGED <<entry, job, call, orphans>>
    BY <1>6 DEF OtherWrite, vars
  <2> QED BY <2>1 DEF OperationsAttended, Running, Refusing
<1> QED BY <1>1, <1>2, <1>3, <1>4, <1>5, <1>6 DEF Next

----------------------------------------------------------------------------
(* The theorems.                                                            *)

LEMMA NextIInv == IInv /\ [Next]_vars => IInv'
<1> SUFFICES ASSUME IInv, [Next]_vars PROVE IInv'
  OBVIOUS
<1>1. ASSUME NEW c \in Clients, NEW s \in Servers, NEW k \in Keys, NEW b \in Bodies,
             LookUp(c, s, k, b)
      PROVE  IInv'
  BY <1>1, LookUpStep
<1>2. ASSUME NEW c \in Clients, Start(c) \/ Refuse(c) \/ Disconnect(c) PROVE IInv'
  BY <1>2, StartStep, RefuseStep, DisconnectStep
<1>3. ASSUME NEW s \in Servers, NEW k \in Keys, JobStep(s, k) PROVE IInv'
  BY <1>3, ReplayStep, FailStep, FindReceiptStep, CommitStep, FinishStep DEF JobStep
<1>4. ASSUME NEW s \in Servers, Restart(s) PROVE IInv'
  BY <1>4, ForgetStep DEF Restart
<1>5. CASE PowerLoss
  BY <1>5, ForgetStep DEF PowerLoss
<1>6. CASE OtherWrite
  BY <1>6, OtherWriteStep
<1>7. CASE UNCHANGED vars
  BY <1>7 DEF vars, IInv, TypeOK, Paired, JobInv, RefusedInv, CompletedIsDurable
<1> QED BY <1>1, <1>2, <1>3, <1>4, <1>5, <1>6, <1>7 DEF Next

\* IInv, from which the others follow, holds in every reachable state.
THEOREM Inductive == Spec => []IInv
<1> QED BY InitIInv, NextIInv, PTL DEF Spec

\* Every variable keeps its type.
THEOREM TypeCorrect == Spec => []TypeOK
<1>1. IInv => TypeOK
  BY DEF IInv
<1> QED BY <1>1, Inductive, PTL

\* A key has one effect at most, and has it exactly when its receipt is in the
\* document, for any number of servers, retries, restarts and power losses
\* (commit_once).
THEOREM EffectOnce == Spec => []AppliedAtMostOnce
<1>1. IInv => AppliedAtMostOnce
  BY DEF IInv, AppliedAtMostOnce, Paired
<1> QED BY <1>1, Inductive, PTL

\* A write its own server reported completed is on stable storage from then on.
THEOREM CompletedStays == Spec => []CompletedIsDurable
<1>1. IInv => CompletedIsDurable
  BY DEF IInv
<1> QED BY <1>1, Inductive, PTL

\* Every running operation has a job or a handler that will end it, unless its
\* client left while it was being refused (manage's server_busy path).
THEOREM NoneUnattended == Spec => []OperationsAttended
<1>1. Init => OperationsAttended
  BY DEF Init, OperationsAttended, Running
<1> QED BY <1>1, Inductive, NextAttended, PTL DEF Spec

----------------------------------------------------------------------------
(* The refinement.                                                          *)

\* A commit writes the receipt of a key that has none.
LEMMA CommitKeeps ==
  ASSUME IInv, NEW s \in Servers, NEW k \in Keys, NEW a \in Ids, Commit(s, k, a)
  PROVE  \A q \in Keys : disk.receipts[q] # None => disk'.receipts[q] = disk.receipts[q]
<1>1. disk' = disk \/ disk' = WithEffect(disk, k, entry[s][k].body, a)
  BY DEF Commit
<1>2. disk.receipts[k] = None /\ disk.receipts \in [Keys -> Receipt \cup {None}]
  BY DEF Commit, MayCommit, IInv, TypeOK, Document
<1>3. disk' = disk \/ disk'.receipts =
        [disk.receipts EXCEPT ![k] = [body |-> entry[s][k].body, account |-> a]]
  BY <1>1 DEF WithEffect
<1> QED BY <1>2, <1>3

\* Only a power loss takes a receipt away.
LEMMA ReceiptsKept ==
  ASSUME IInv, [Next]_vars, ~PowerLoss
  PROVE  \A k \in Keys : disk.receipts[k] # None => disk'.receipts[k] = disk.receipts[k]
<1>1. ASSUME NEW s \in Servers, NEW k \in Keys, NEW a \in Ids, Commit(s, k, a)
      PROVE  \A q \in Keys : disk.receipts[q] # None => disk'.receipts[q] = disk.receipts[q]
  BY <1>1, CommitKeeps
<1>2. CASE OtherWrite
  BY <1>2 DEF OtherWrite, IInv, TypeOK, Document
<1>3. CASE disk' = disk
  BY <1>3
<1>4. ASSUME NEW s \in Servers, NEW k \in Keys, JobStep(s, k)
      PROVE  \/ disk' = disk
             \/ \E a \in Ids : Commit(s, k, a)
  BY <1>4 DEF JobStep, Replay, Fail, FindReceipt, Finish
<1>5. ASSUME NEW c \in Clients, NEW s \in Servers, NEW k \in Keys, NEW b \in Bodies,
             LookUp(c, s, k, b)
      PROVE  disk' = disk
  BY <1>5 DEF LookUp
<1>6. ASSUME NEW c \in Clients, Start(c) \/ Refuse(c) \/ Disconnect(c) PROVE disk' = disk
  BY <1>6 DEF Start, Refuse, Disconnect
<1>7. ASSUME NEW s \in Servers, Restart(s) PROVE disk' = disk
  BY <1>7 DEF Restart
<1> QED BY <1>1, <1>2, <1>3, <1>4, <1>5, <1>6, <1>7 DEF Next, vars

\* A record stays what it is while receipts do.
LEMMA RecordStays ==
  ASSUME NEW k \in Keys, NEW b \in Bodies, NEW a \in Ids,
         \A q \in Keys : disk.receipts[q] # None => disk'.receipts[q] = disk.receipts[q],
         Recorded(disk, k, b, a)
  PROVE  Recorded(disk', k, b, a)
<1>1. [body |-> b, account |-> a] \in Receipt
  BY DEF Receipt
<1> QED BY <1>1 DEF Recorded

\* The types of what FoundInv speaks of.
LEMMA FoundTypes ==
  ASSUME IInv
  PROVE  /\ \A c \in Clients : call[c] # None =>
              /\ call[c].server \in Servers /\ call[c].key \in Keys /\ call[c].body \in Bodies
              /\ call[c].found \in Ids \cup {None}
         /\ \A s \in Servers, k \in Keys : job[s][k] # None =>
              /\ job[s][k] \in Job /\ job[s][k].found \in Ids \cup {None}
              /\ job[s][k].at \in {"applied", "replayed"} => job[s][k].account \in Ids
              /\ entry[s][k] # None /\ entry[s][k].body \in Bodies
<1>1. ASSUME NEW c \in Clients, call[c] # None
      PROVE  /\ call[c].server \in Servers /\ call[c].key \in Keys /\ call[c].body \in Bodies
             /\ call[c].found \in Ids \cup {None}
  <2>1. call[c] \in Call
    BY <1>1 DEF IInv, TypeOK
  <2> QED BY <2>1 DEF Call
<1>2. ASSUME NEW s \in Servers, NEW k \in Keys, job[s][k] # None
      PROVE  /\ job[s][k] \in Job /\ job[s][k].found \in Ids \cup {None}
             /\ job[s][k].at \in {"applied", "replayed"} => job[s][k].account \in Ids
             /\ entry[s][k] # None /\ entry[s][k].body \in Bodies
  <2>1. job[s][k] \in Job
    BY <1>2 DEF IInv, TypeOK
  <2>2. entry[s][k] # None /\ (job[s][k].at \in {"applied", "replayed"} => job[s][k].account \in Ids)
    BY <1>2 DEF IInv, JobInv
  <2>3. entry[s][k] \in Entry
    BY <2>2 DEF IInv, TypeOK
  <2> QED BY <2>1, <2>2, <2>3 DEF Job, Entry
<1> QED BY <1>1, <1>2

\* A step after which every call and job is one there was, or is right.
LEMMA FoundFrame ==
  ASSUME IInv, FoundInv,
         \A q \in Keys : disk.receipts[q] # None => disk'.receipts[q] = disk.receipts[q],
         \A c \in Clients : call'[c] # None =>
           \/ /\ call[c] # None /\ call'[c].found = call[c].found
              /\ call'[c].key = call[c].key /\ call'[c].body = call[c].body
           \/ CallRight(disk', call'[c]),
         \A s \in Servers, k \in Keys : job'[s][k] # None =>
           \/ /\ job[s][k] # None /\ job'[s][k] = job[s][k]
              /\ entry'[s][k].body = entry[s][k].body
           \/ JobRight(disk', job'[s][k], k, entry'[s][k].body)
  PROVE  FoundInv'
<1>1. ASSUME NEW c \in Clients, call'[c] # None PROVE CallRight(disk', call'[c])
  <2>1. ASSUME call[c] # None, call'[c].found = call[c].found,
               call'[c].key = call[c].key, call'[c].body = call[c].body,
               call[c].found # None
        PROVE  Recorded(disk', call'[c].key, call'[c].body, call'[c].found)
    <3>1. Recorded(disk, call[c].key, call[c].body, call[c].found)
      BY <2>1 DEF FoundInv, CallRight
    <3>2. call[c].key \in Keys /\ call[c].body \in Bodies /\ call[c].found \in Ids
      BY <2>1, FoundTypes
    <3> QED BY <2>1, <3>1, <3>2, RecordStays DEF Recorded
  <2> QED BY <1>1, <2>1 DEF CallRight
<1>2. ASSUME NEW s \in Servers, NEW k \in Keys, job'[s][k] # None
      PROVE  JobRight(disk', job'[s][k], k, entry'[s][k].body)
  <2>1. ASSUME job[s][k] # None, job'[s][k] = job[s][k],
               entry'[s][k].body = entry[s][k].body
        PROVE  JobRight(disk', job'[s][k], k, entry'[s][k].body)
    <3>1. entry[s][k].body \in Bodies
      BY <2>1, FoundTypes
    <3>2. JobRight(disk, job[s][k], k, entry[s][k].body)
      BY <2>1 DEF FoundInv
    <3>3. ASSUME job[s][k].found # None
          PROVE  Recorded(disk', k, entry[s][k].body, job[s][k].found)
      <4>1. job[s][k].found \in Ids
        BY <2>1, <3>3, FoundTypes
      <4> QED BY <2>1, <3>1, <3>2, <3>3, <4>1, RecordStays DEF JobRight, Recorded
    <3>4. ASSUME job[s][k].at \in {"applied", "replayed"}
          PROVE  Recorded(disk', k, entry[s][k].body, job[s][k].account)
      <4>1. job[s][k].account \in Ids
        BY <2>1, <3>4, FoundTypes
      <4> QED BY <2>1, <3>1, <3>2, <3>4, <4>1, RecordStays DEF JobRight, Recorded
    <3> QED BY <2>1, <3>3, <3>4 DEF JobRight
  <2> QED BY <1>2, <2>1
<1> QED BY <1>1, <1>2 DEF FoundInv

LEMMA LookUpFound ==
  ASSUME IInv, FoundInv, NEW c \in Clients, NEW s \in Servers, NEW k \in Keys, NEW b \in Bodies,
         LookUp(c, s, k, b)
  PROVE  FoundInv'
<1> DEFINE x == [server |-> s, key |-> k, body |-> b, found |-> Found(disk, k), at |-> "looked_up"]
<1>1. call' = [call EXCEPT ![c] = x] /\ UNCHANGED <<disk, entry, job>>
  BY DEF LookUp
<1>2. x.found # None => Recorded(disk, k, b, x.found)
  <2> SUFFICES ASSUME x.found # None PROVE Recorded(disk, k, b, x.found)
    OBVIOUS
  <2>1. disk.receipts[k] # None /\ disk.receipts[k] \in Receipt \cup {None}
    BY DEF Found, IInv, TypeOK, Document
  <2>2. disk.receipts[k].body = b
    BY <2>1 DEF LookUp, ConflictingReceipt
  <2> QED BY <2>1, <2>2 DEF Found, Recorded, Receipt
<1>3. \A d \in Clients : call'[d] # None =>
        (d # c /\ call'[d] = call[d]) \/ (d = c /\ call'[d] = x)
  BY <1>1 DEF IInv, TypeOK
<1>4. CallRight(disk', x)
  BY <1>1, <1>2 DEF CallRight, Recorded
<1> HIDE DEF x
<1>5. \A d \in Clients : call'[d] # None =>
        \/ /\ call[d] # None /\ call'[d].found = call[d].found
           /\ call'[d].key = call[d].key /\ call'[d].body = call[d].body
        \/ CallRight(disk', call'[d])
  BY <1>1, <1>3, <1>4 DEF CallRight, Recorded
<1> QED BY <1>1, <1>5, FoundFrame

LEMMA StartFound ==
  ASSUME IInv, FoundInv, NEW c \in Clients, Start(c)
  PROVE  FoundInv'
<1> DEFINE s == call[c].server
           k == call[c].key
           e == [body |-> call[c].body, status |-> "running", account |-> None]
           j == [found |-> call[c].found, at |-> "work", account |-> None]
           r == [call[c] EXCEPT !.at = "refused"]
<1>1. call[c] \in Call /\ call[c] # None /\ s \in Servers /\ k \in Keys
  BY DEF IInv, TypeOK, Start, Call
<1>2. UNCHANGED disk
  BY DEF Start
<1>3. \/ call' = [call EXCEPT ![c] = None]
      \/ call' = [call EXCEPT ![c] = r]
  BY DEF Start, EndCall
<1>4. r.found = call[c].found /\ r.key = call[c].key /\ r.body = call[c].body
  BY <1>1 DEF Call
<1>5. \A d \in Clients : call'[d] # None =>
        /\ call[d] # None /\ call'[d].found = call[d].found
        /\ call'[d].key = call[d].key /\ call'[d].body = call[d].body
  <2> HIDE DEF r
  <2> QED BY <1>1, <1>3, <1>4 DEF IInv, TypeOK
<1>6. CASE MayEnter(s, k)
  <2>1. entry[s][k] = None /\ job[s][k] = None
    BY <1>1, <1>6 DEF IInv, JobInv, MayEnter
  <2>2. entry' = [entry EXCEPT ![s][k] = e]
    BY <1>6 DEF Start, SetEntry
  <2>3. job' = [job EXCEPT ![s][k] = j] \/ job' = job
    BY <1>6 DEF Start, SetJob
  <2>4. \A t \in Servers, q \in Keys : job'[t][q] # None =>
          \/ job[t][q] # None /\ job'[t][q] = job[t][q] /\ entry'[t][q] = entry[t][q]
          \/ t = s /\ q = k /\ job'[t][q] = j /\ entry'[t][q] = e
    BY <1>1, <2>1, <2>2, <2>3 DEF IInv, TypeOK
  <2>5. /\ j.found = call[c].found /\ j.at = "work" /\ e.body = call[c].body
        /\ call[c].found # None => Recorded(disk', k, call[c].body, call[c].found)
    <3>1. call[c].found # None => Recorded(disk, k, call[c].body, call[c].found)
      BY <1>1 DEF FoundInv, CallRight
    <3> QED BY <3>1, <1>2 DEF Recorded
  <2>6. \A t \in Servers, q \in Keys : job'[t][q] # None =>
          \/ /\ job[t][q] # None /\ job'[t][q] = job[t][q]
             /\ entry'[t][q].body = entry[t][q].body
          \/ JobRight(disk', job'[t][q], q, entry'[t][q].body)
    <3> HIDE DEF s, k, e, j
    <3> QED BY <2>4, <2>5, <1>2 DEF JobRight, Recorded
  <2> QED BY <1>2, <1>5, <2>6, FoundFrame
<1>7. CASE ~MayEnter(s, k)
  <2>1. UNCHANGED <<entry, job>>
    BY <1>7 DEF Start
  <2> QED BY <1>2, <1>5, <2>1, FoundFrame
<1> QED BY <1>6, <1>7

LEMMA HandlerFound ==
  ASSUME IInv, FoundInv, NEW c \in Clients, Refuse(c) \/ Disconnect(c)
  PROVE  FoundInv'
<1>1. UNCHANGED <<disk, job>> /\ call' = [call EXCEPT ![c] = None]
  BY DEF Refuse, Disconnect, EndCall
<1>2. \A d \in Clients : call'[d] # None => call[d] # None /\ call'[d] = call[d]
  BY <1>1 DEF IInv, TypeOK
<1>3. \A t \in Servers, q \in Keys : job'[t][q] # None => entry'[t][q].body = entry[t][q].body
  <2>1. CASE Refuse(c)
    <3> DEFINE s == call[c].server
               k == call[c].key
               e == [body |-> call[c].body, status |-> "failed", account |-> None]
    <3>1. s \in Servers /\ k \in Keys /\ call[c] # None /\ call[c].at = "refused"
      BY <2>1, FoundTypes DEF Refuse
    <3>2. entry' = [entry EXCEPT ![s][k] = e] /\ e.body = entry[s][k].body
      BY <2>1, <3>1 DEF Refuse, SetEntry, IInv, RefusedInv
    <3> HIDE DEF s, k, e
    <3> QED BY <3>1, <3>2 DEF IInv, TypeOK
  <2>2. CASE Disconnect(c)
    BY <2>2 DEF Disconnect
  <2> QED BY <2>1, <2>2
<1> QED BY <1>1, <1>2, <1>3, FoundFrame

\* A job that moves on to a right state.
LEMMA JobFoundMoves ==
  ASSUME IInv, FoundInv, NEW s \in Servers, NEW k \in Keys, NEW j,
         \A q \in Keys : disk.receipts[q] # None => disk'.receipts[q] = disk.receipts[q],
         SetJob(s, k, j), UNCHANGED call,
         \A t \in Servers, q \in Keys : job'[t][q] # None => entry'[t][q] = entry[t][q],
         j # None => JobRight(disk', j, k, entry'[s][k].body)
  PROVE  FoundInv'
<1>1. \A t \in Servers, q \in Keys : job'[t][q] # None =>
        \/ job[t][q] # None /\ job'[t][q] = job[t][q]
        \/ t = s /\ q = k /\ job'[t][q] = j
  BY DEF SetJob, IInv, TypeOK
<1>2. \A t \in Servers, q \in Keys : job'[t][q] # None =>
        \/ /\ job[t][q] # None /\ job'[t][q] = job[t][q]
           /\ entry'[t][q].body = entry[t][q].body
        \/ JobRight(disk', job'[t][q], q, entry'[t][q].body)
  BY <1>1 DEF JobRight, Recorded
<1> QED BY <1>2, FoundFrame

LEMMA JobFound ==
  ASSUME IInv, FoundInv, NEW s \in Servers, NEW k \in Keys, JobStep(s, k)
  PROVE  FoundInv'
<1> DEFINE x == job[s][k]
           b == entry[s][k].body
<1>1. ASSUME x # None
      PROVE  x \in Job /\ JobRight(disk, x, k, b)
  BY <1>1 DEF IInv, TypeOK, FoundInv
<1>2. CASE Replay(s, k)
  <2> DEFINE j == [x EXCEPT !.at = "replayed", !.account = x.found]
  <2>1. x # None /\ x.found # None /\ SetJob(s, k, j) /\ UNCHANGED <<disk, entry, call>>
    BY <1>2 DEF Replay
  <2>2. j.found = x.found /\ j.account = x.found
    BY <1>1, <2>1 DEF Job
  <2>3. Recorded(disk, k, b, x.found)
    BY <1>1, <2>1 DEF JobRight
  <2>4. JobRight(disk', j, k, b)
    BY <2>1, <2>2, <2>3 DEF JobRight, Recorded
  <2> HIDE DEF j
  <2> QED BY <2>1, <2>4, JobFoundMoves
<1>3. CASE Fail(s, k)
  <2> DEFINE j == [x EXCEPT !.at = "failed"]
  <2>1. x # None /\ x.found = None /\ SetJob(s, k, j) /\ UNCHANGED <<disk, entry, call>>
    BY <1>3 DEF Fail
  <2>2. j.found = None /\ j.at = "failed"
    BY <1>1, <2>1 DEF Job
  <2>3. JobRight(disk', j, k, b)
    BY <2>2 DEF JobRight
  <2> HIDE DEF j
  <2> QED BY <2>1, <2>3, JobFoundMoves
<1>4. CASE FindReceipt(s, k)
  <2> DEFINE f == [x EXCEPT !.at = "failed"]
             g == [x EXCEPT !.at = "replayed", !.account = Found(disk, k)]
  <2>1. x # None /\ x.found = None /\ UNCHANGED <<disk, entry, call>> /\ disk.receipts[k] # None
    BY <1>4 DEF FindReceipt
  <2>2. \/ SetJob(s, k, f)
        \/ SetJob(s, k, g) /\ disk.receipts[k].body = b
    BY <1>4 DEF FindReceipt, ConflictingReceipt
  <2>3. /\ f.found = None /\ f.at = "failed"
        /\ g.found = None /\ g.account = Found(disk, k)
    BY <1>1, <2>1 DEF Job
  <2>4. JobRight(disk', f, k, b)
    BY <2>3 DEF JobRight
  <2>5. disk.receipts[k].body = b => JobRight(disk', g, k, b)
    <3>1. disk.receipts[k] \in Receipt
      BY <2>1 DEF IInv, TypeOK, Document
    <3>2. disk.receipts[k].body = b => Recorded(disk, k, b, Found(disk, k))
      BY <2>1, <3>1 DEF Recorded, Found, Receipt
    <3> QED BY <2>1, <2>3, <3>2 DEF JobRight, Recorded
  <2> HIDE DEF f, g
  <2> QED BY <2>1, <2>2, <2>4, <2>5, JobFoundMoves
<1>5. ASSUME NEW a \in Ids, Commit(s, k, a) PROVE FoundInv'
  <2> DEFINE applied == [x EXCEPT !.at = "applied", !.account = a]
             uncertain == [x EXCEPT !.at = "uncertain"]
             failed == [x EXCEPT !.at = "failed"]
  <2>1. x # None /\ x.found = None /\ UNCHANGED <<entry, call>> /\ disk.receipts[k] = None
    BY <1>5 DEF Commit, MayCommit
  <2>2. \/ disk' = WithEffect(disk, k, b, a) /\ SetJob(s, k, applied)
        \/ SetJob(s, k, uncertain)
        \/ SetJob(s, k, failed)
    BY <1>5 DEF Commit
  <2>3. /\ applied.found = None /\ applied.account = a
        /\ uncertain.found = None /\ uncertain.at = "uncertain"
        /\ failed.found = None /\ failed.at = "failed"
    BY <1>1, <2>1 DEF Job
  <2>4. disk' = WithEffect(disk, k, b, a) => Recorded(disk', k, b, a)
    <3>1. disk.receipts \in [Keys -> Receipt \cup {None}]
      BY DEF IInv, TypeOK, Document
    <3> QED BY <2>1, <3>1 DEF WithEffect, Recorded
  <2>5. disk' = WithEffect(disk, k, b, a) => JobRight(disk', applied, k, b)
    BY <2>1, <2>3, <2>4 DEF JobRight, Recorded
  <2>6. JobRight(disk', uncertain, k, b) /\ JobRight(disk', failed, k, b)
    BY <2>3 DEF JobRight
  <2>7. \A q \in Keys : disk.receipts[q] # None => disk'.receipts[q] = disk.receipts[q]
    BY <1>5, CommitKeeps
  <2> HIDE DEF applied, uncertain, failed
  <2> QED BY <2>1, <2>2, <2>5, <2>6, <2>7, JobFoundMoves
<1>6. CASE Finish(s, k)
  <2>1. UNCHANGED <<disk, call>> /\ SetJob(s, k, None)
    BY <1>6 DEF Finish
  <2>2. PICK e : entry' = [entry EXCEPT ![s][k] = e]
    BY <1>6 DEF Finish, SetEntry
  <2>3. \A t \in Servers, q \in Keys : job'[t][q] # None => entry'[t][q] = entry[t][q]
    BY <2>1, <2>2 DEF SetJob, IInv, TypeOK
  <2> QED BY <2>1, <2>3, JobFoundMoves
<1> QED BY <1>2, <1>3, <1>4, <1>5, <1>6 DEF JobStep

LEMMA NextFound == IInv /\ FoundInv /\ [Next]_vars => FoundInv'
<1> SUFFICES ASSUME IInv, FoundInv, [Next]_vars PROVE FoundInv'
  OBVIOUS
<1>1. ASSUME NEW c \in Clients, NEW s \in Servers, NEW k \in Keys, NEW b \in Bodies,
             LookUp(c, s, k, b)
      PROVE  FoundInv'
  BY <1>1, LookUpFound
<1>2. ASSUME NEW c \in Clients, Start(c) \/ Refuse(c) \/ Disconnect(c) PROVE FoundInv'
  BY <1>2, StartFound, HandlerFound
<1>3. ASSUME NEW s \in Servers, NEW k \in Keys, JobStep(s, k) PROVE FoundInv'
  BY <1>3, JobFound
<1>4. ASSUME NEW S \in SUBSET Servers, Forget(S) PROVE
        /\ \A c \in Clients : call'[c] # None => call[c] # None /\ call'[c] = call[c]
        /\ \A s \in Servers, k \in Keys : job'[s][k] # None =>
             s \notin S /\ job'[s][k] = job[s][k] /\ entry'[s][k] = entry[s][k]
  BY <1>4 DEF Forget
<1>5. ASSUME NEW s \in Servers, Restart(s) PROVE FoundInv'
  <2>1. Forget({s}) /\ disk' = disk
    BY <1>5 DEF Restart
  <2>2. {s} \in SUBSET Servers
    OBVIOUS
  <2> QED BY <2>1, <2>2, <1>4, FoundFrame
<1>6. CASE PowerLoss
  <2>1. \A c \in Clients : call[c] # None => call[c].server \in Servers
    BY FoundTypes
  <2>2. \A c \in Clients : call'[c] = None
    BY <1>6, <2>1 DEF PowerLoss, Forget
  <2>3. \A s \in Servers, k \in Keys : job'[s][k] = None
    BY <1>6 DEF PowerLoss, Forget
  <2> QED BY <2>2, <2>3 DEF FoundInv
<1>7. CASE OtherWrite
  <2>1. disk'.receipts = disk.receipts /\ UNCHANGED <<entry, job, call>>
    BY <1>7 DEF OtherWrite, IInv, TypeOK, Document
  <2> QED BY <2>1, FoundFrame
<1>8. CASE UNCHANGED vars
  BY <1>8, FoundFrame DEF vars
<1> QED BY <1>1, <1>2, <1>3, <1>5, <1>6, <1>7, <1>8 DEF Next

\* The initial state shows no effect.
LEMMA InitAbstract == Init => Abstract!Init
  BY DEF Init, EmptyDocument, EffectsOf, Abstract!Init, Abstract!Nothing

\* A commit is the effect of its key, durable at once or not, or none.
LEMMA CommitAbstract ==
  ASSUME IInv, NEW s \in Servers, NEW k \in Keys, NEW a \in Ids, Commit(s, k, a)
  PROVE  [Abstract!Next]_(Abstract!vars)
<1> DEFINE b == entry[s][k].body
<1>1. b \in Bodies
  BY FoundTypes DEF Commit
<1>2. /\ disk \in Document /\ disk.receipts[k] = None /\ disk.times[k] = 0
      /\ UNCHANGED acks
  BY DEF Commit, MayCommit, IInv, TypeOK, Paired
<1>3. EffectsOf(disk)[k] = Abstract!Nothing
  BY <1>2 DEF EffectsOf, Abstract!Nothing
<1>4. EffectsOf(WithEffect(disk, k, b, a)) = [EffectsOf(disk) EXCEPT ![k] = Abstract!Once(b, a)]
  <2> DEFINE d == WithEffect(disk, k, b, a)
  <2>1. /\ d.receipts = [disk.receipts EXCEPT ![k] = [body |-> b, account |-> a]]
        /\ d.times = [disk.times EXCEPT ![k] = @ + 1]
    BY DEF WithEffect
  <2>2. \A q \in Keys : /\ d.receipts[q] = IF q = k THEN [body |-> b, account |-> a]
                                           ELSE disk.receipts[q]
                        /\ d.times[q] = IF q = k THEN 1 ELSE disk.times[q]
    BY <1>2, <2>1 DEF Document
  <2> HIDE DEF d
  <2>3. \A q \in Keys : EffectsOf(d)[q] = [EffectsOf(disk) EXCEPT ![k] = Abstract!Once(b, a)][q]
    BY <2>2 DEF EffectsOf, Abstract!Once
  <2> QED BY <2>3 DEF EffectsOf, d
<1>5. \/ disk' = disk /\ synced' = synced
      \/ disk' = WithEffect(disk, k, b, a) /\ synced' \in {disk', synced}
  BY DEF Commit
<1>6. CASE disk' = disk /\ synced' = synced
  BY <1>2, <1>6 DEF Abstract!vars, EffectsOf
<1>7. CASE disk' = WithEffect(disk, k, b, a) /\ synced' \in {disk', synced}
  <2>1. EffectsOf(disk)' = [EffectsOf(disk) EXCEPT ![k] = Abstract!Once(b, a)]
    BY <1>4, <1>7 DEF EffectsOf
  <2>2. EffectsOf(synced)' \in {EffectsOf(disk)', EffectsOf(synced)}
    BY <1>7 DEF EffectsOf
  <2>3. Abstract!Apply(k, b, a)
    BY <1>2, <1>3, <2>1, <2>2 DEF Abstract!Apply
  <2> QED BY <1>1, <2>3 DEF Abstract!Next
<1> QED BY <1>5, <1>6, <1>7

\* What is reported completed is the effect the key has.
LEMMA FinishAbstract ==
  ASSUME IInv, FoundInv, NEW s \in Servers, NEW k \in Keys, Finish(s, k)
  PROVE  [Abstract!Next]_(Abstract!vars)
<1> DEFINE b == entry[s][k].body
           a == job[s][k].account
           own == job[s][k].at = "applied"
<1>1. UNCHANGED <<disk, synced>> /\ job[s][k] # None
  BY DEF Finish
<1>2. CASE job[s][k].at \in {"applied", "replayed"}
  <2>1. b \in Bodies /\ a \in Ids /\ own \in BOOLEAN
    BY <1>1, <1>2, FoundTypes
  <2>2. acks' = acks \cup {<<k, b, a, own>>}
    BY <1>2 DEF Finish
  <2>3. disk.receipts[k] = [body |-> b, account |-> a]
    BY <1>1, <1>2 DEF FoundInv, JobRight, Recorded
  <2>4. own => synced.receipts[k] = [body |-> b, account |-> a]
    BY <1>1 DEF IInv, JobInv
  <2>5. [body |-> b, account |-> a] # None
    BY <2>1 DEF Receipt
  <2>6. disk.times[k] = 1 /\ (own => synced.times[k] = 1)
    BY <2>3, <2>4, <2>5 DEF IInv, Paired
  <2>7. EffectsOf(disk)[k] = Abstract!Once(b, a) /\ (own => EffectsOf(synced)[k] = Abstract!Once(b, a))
    BY <2>3, <2>4, <2>6 DEF EffectsOf, Abstract!Once
  <2>8. UNCHANGED <<EffectsOf(disk), EffectsOf(synced)>>
    BY <1>1 DEF EffectsOf
  <2> HIDE DEF b, a, own
  <2>9. Abstract!Report(k, b, a, own)
    BY <2>2, <2>7, <2>8 DEF Abstract!Report
  <2> QED BY <2>1, <2>9 DEF Abstract!Next
<1>3. CASE job[s][k].at \notin {"applied", "replayed"}
  BY <1>1, <1>3 DEF Finish, Abstract!vars, EffectsOf
<1> QED BY <1>2, <1>3

\* Every step is a step of Effects, or nothing of it can be seen.
LEMMA NextAbstract == IInv /\ FoundInv /\ [Next]_vars => [Abstract!Next]_(Abstract!vars)
<1> SUFFICES ASSUME IInv, FoundInv, [Next]_vars PROVE [Abstract!Next]_(Abstract!vars)
  OBVIOUS
<1>1. CASE UNCHANGED <<disk, synced, acks>>
  BY <1>1 DEF Abstract!vars, EffectsOf
<1>2. ASSUME NEW s \in Servers, NEW k \in Keys, JobStep(s, k)
      PROVE  [Abstract!Next]_(Abstract!vars)
  <2>1. ASSUME NEW a \in Ids, Commit(s, k, a) PROVE [Abstract!Next]_(Abstract!vars)
    BY <2>1, CommitAbstract
  <2>2. CASE Finish(s, k)
    BY <2>2, FinishAbstract
  <2>3. CASE Replay(s, k) \/ Fail(s, k) \/ FindReceipt(s, k)
    BY <1>1, <2>3 DEF Replay, Fail, FindReceipt
  <2> QED BY <1>2, <2>1, <2>2, <2>3 DEF JobStep
<1>3. CASE PowerLoss
  <2>1. UNCHANGED acks /\ synced' = disk' /\ (disk' = disk \/ disk' = synced)
    BY <1>3 DEF PowerLoss, Forget
  <2>2. CASE disk' = disk
    BY <2>1, <2>2 DEF Abstract!Next, Abstract!Settle, EffectsOf
  <2>3. CASE disk' = synced
    BY <2>1, <2>3 DEF Abstract!Next, Abstract!Lose, EffectsOf
  <2> QED BY <2>1, <2>2, <2>3
<1>4. CASE OtherWrite
  <2>1. UNCHANGED acks /\ synced' = disk'
    BY <1>4 DEF OtherWrite
  <2>2. disk'.receipts = disk.receipts /\ disk'.times = disk.times
    BY <1>4 DEF OtherWrite, IInv, TypeOK, Document
  <2>3. Abstract!Settle
    BY <2>1, <2>2 DEF Abstract!Settle, EffectsOf
  <2> QED BY <2>3 DEF Abstract!Next
<1>5. ASSUME NEW c \in Clients, NEW s \in Servers, NEW k \in Keys, NEW b \in Bodies,
             LookUp(c, s, k, b)
      PROVE  [Abstract!Next]_(Abstract!vars)
  BY <1>1, <1>5 DEF LookUp
<1>6. ASSUME NEW c \in Clients, Start(c) \/ Refuse(c) \/ Disconnect(c)
      PROVE  [Abstract!Next]_(Abstract!vars)
  BY <1>1, <1>6 DEF Start, Refuse, Disconnect
<1>7. ASSUME NEW s \in Servers, Restart(s) PROVE [Abstract!Next]_(Abstract!vars)
  BY <1>1, <1>7 DEF Restart, Forget
<1>8. CASE UNCHANGED vars
  BY <1>1, <1>8 DEF vars
<1> QED BY <1>2, <1>3, <1>4, <1>5, <1>6, <1>7, <1>8 DEF Next

\* Whatever servers, retries, restarts and power losses there are, what can be seen
\* of the keys is what Effects says.
THEOREM Implements == Spec => ImplementsEffects
<1>1. Init => FoundInv
  BY DEF Init, FoundInv
<1>2. Spec => []FoundInv
  BY <1>1, NextFound, Inductive, PTL DEF Spec
<1>3. Spec => Abstract!Init /\ [][Abstract!Next]_(Abstract!vars)
  BY <1>2, InitAbstract, NextAbstract, Inductive, PTL DEF Spec
<1> QED BY <1>3 DEF ImplementsEffects, Abstract!Spec

----------------------------------------------------------------------------
(* What Effects promises, from its steps alone.                             *)

\* Some effect is not no effect.
LEMMA EffectsShow ==
  ASSUME NEW b, NEW a
  PROVE  Abstract!Once(b, a) # Abstract!Nothing
<1>1. Abstract!Once(b, a).times = 1 /\ Abstract!Nothing.times = 0
  BY DEF Abstract!Once, Abstract!Nothing
<1> QED BY <1>1

\* Reports are of keys.
OfKeys == \A r \in acks : r[1] \in Keys

LEMMA NextPromise == OfKeys /\ Abstract!Promise /\ [Abstract!Next]_(Abstract!vars) => OfKeys' /\ Abstract!Promise'
<1> SUFFICES ASSUME OfKeys, Abstract!Promise, [Abstract!Next]_(Abstract!vars)
             PROVE  OfKeys' /\ Abstract!Promise'
  OBVIOUS
<1> DEFINE seen == EffectsOf(disk)
           kept == EffectsOf(synced)
<1>1. DOMAIN seen = Keys
  BY DEF EffectsOf
<1>2. ASSUME NEW k \in Keys, NEW b \in Bodies, NEW a \in Ids, Abstract!Apply(k, b, a)
      PROVE  OfKeys' /\ Abstract!Promise'
  <2>1. /\ seen[k] = Abstract!Nothing /\ acks' = acks
        /\ seen' = [seen EXCEPT ![k] = Abstract!Once(b, a)]
        /\ kept' = seen' \/ kept' = kept
    BY <1>2 DEF Abstract!Apply
  <2>2. \A q \in Keys : q # k => seen'[q] = seen[q]
    <3> HIDE DEF seen
    <3> QED BY <1>1, <2>1
  <2>3. ASSUME NEW r \in acks, r[4]
        PROVE  seen'[r[1]] = Abstract!Once(r[2], r[3]) /\ kept'[r[1]] = Abstract!Once(r[2], r[3])
    <3>1. seen[r[1]] = Abstract!Once(r[2], r[3]) /\ kept[r[1]] = Abstract!Once(r[2], r[3])
      BY <2>3 DEF Abstract!Promise
    <3>2. r[1] \in Keys /\ r[1] # k
      BY <2>1, <3>1, EffectsShow DEF OfKeys
    <3> HIDE DEF seen, kept
    <3> QED BY <2>1, <2>2, <3>1, <3>2
  <2> QED BY <2>1, <2>3 DEF Abstract!Promise, OfKeys
<1>3. ASSUME NEW k \in Keys, NEW b \in Bodies, NEW a \in Ids, NEW own \in BOOLEAN,
             Abstract!Report(k, b, a, own)
      PROVE  OfKeys' /\ Abstract!Promise'
  <2> HIDE DEF seen, kept
  <2>1. /\ seen[k] = Abstract!Once(b, a) /\ (own => kept[k] = Abstract!Once(b, a))
        /\ acks' = acks \cup {<<k, b, a, own>>} /\ seen' = seen /\ kept' = kept
    BY <1>3 DEF Abstract!Report, seen, kept
  <2>2. \A r \in acks : r[4] => seen[r[1]] = Abstract!Once(r[2], r[3]) /\ kept[r[1]] = Abstract!Once(r[2], r[3])
    BY DEF Abstract!Promise, seen, kept
  <2>3. \A r \in acks' : r[4] => seen'[r[1]] = Abstract!Once(r[2], r[3]) /\ kept'[r[1]] = Abstract!Once(r[2], r[3])
    BY <2>1, <2>2
  <2>4. OfKeys'
    BY <2>1 DEF OfKeys
  <2> QED BY <2>3, <2>4 DEF Abstract!Promise, seen, kept
<1>4. CASE Abstract!Settle
  BY <1>4 DEF Abstract!Settle, Abstract!Promise, OfKeys
<1>5. CASE Abstract!Lose
  BY <1>5 DEF Abstract!Lose, Abstract!Promise, OfKeys
<1>6. CASE UNCHANGED Abstract!vars
  BY <1>6 DEF Abstract!vars, Abstract!Promise, OfKeys
<1> QED BY <1>2, <1>3, <1>4, <1>5, <1>6 DEF Abstract!Next

\* A write reported by whoever made it is there from then on, whatever is lost: so
\* says Effects, and so it is of what implements it.
THEOREM ReportsStay == Spec => []Abstract!Promise
<1>1. Abstract!Init => OfKeys /\ Abstract!Promise
  BY DEF Abstract!Init, OfKeys, Abstract!Promise
<1>2. Spec => Abstract!Init /\ [][Abstract!Next]_(Abstract!vars)
  BY Implements DEF ImplementsEffects, Abstract!Spec
<1> QED BY <1>1, <1>2, NextPromise, PTL

==============================================================================
