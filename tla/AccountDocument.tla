--------------------------- MODULE AccountDocument ---------------------------
(****************************************************************************)
(* The vault document: the saved accounts, and what must outlive them.       *)
(*                                                                          *)
(* Every account command and management request is a transaction: take the  *)
(* vault lock, read the document, change it, write it back.  The lock is a   *)
(* flag of the process and a flock of the file, since flock alone may let    *)
(* two tasks of one process in.  A build reads only documents of formats it  *)
(* knows, and a document's format grows with what is written to it, so that  *)
(* an older build refuses it instead of dropping what it does not know:      *)
(* retry receipts (format 2), references to other programs' credentials (3), *)
(* disabled accounts (4), and the owners of rotating refresh tokens (5 to    *)
(* 8).  A document outlives many builds, so a transaction may be of any.     *)
(*                                                                          *)
(* The order of accounts is left out: removing the active account activates  *)
(* any other of its provider.  A write that may be undone by a power loss is *)
(* CredentialRefresh and IdempotentMutations.                                *)
(* Bounds: account ids are drawn from Ids, once each; MaxReceipts is 4096.   *)
(****************************************************************************)
EXTENDS Naturals, FiniteSets

CONSTANTS Ids, Providers, Labels, Identities, Tokens, Keys,
          Kinds,        \* credential kinds in use, among those of Since
          Builds,       \* the builds that may open the vault
          Tasks,
          Process,      \* per task, the process it runs in
          None,
          MaxReceipts

\* The first format whose builds know a kind of credential.  "native" stands for
\* every reference to another program's credential, "key" for every other secret.
Since == [key |-> 1, native |-> 3, factory |-> 4, claude |-> 6, copilot |-> 6,
          kiro |-> 7, antigravity |-> 8]

\* Kinds with a *_refresh_owners table, and the format that table requires.
TableFormat == [factory |-> 5, claude |-> 6, kiro |-> 7, antigravity |-> 8]
Rotating    == DOMAIN TableFormat

\* A build knows the documents up to a format, and some of the tables.  This one
\* is Current; builds of format 4 wrote owners of Factory tokens for a while.
Build   == [format : 1..8, tables : SUBSET Rotating]
Current == [format |-> 8, tables |-> Rotating]

\* A rotating credential is told apart by its refresh token.
Credential == [kind : Kinds \cap Rotating, token : Tokens]
                \cup [kind : Kinds \ Rotating, token : {None}]
Account  == [provider : Providers, label : Labels, identity : Identities,
             active : BOOLEAN, enabled : BOOLEAN, credential : Credential]
Document == [version  : 1..8,
             accounts : [Ids -> {None} \cup Account],
             receipts : SUBSET Keys,
             owners   : [Rotating -> [Tokens -> {None} \cup Ids]]]
Tx == [build : Builds, read : Document]

Processes == {Process[t] : t \in Tasks}

ASSUME KindsAreKnown == Kinds \subseteq DOMAIN Since
ASSUME BuildsAreBuilds ==
  /\ Builds \subseteq Build /\ Current \in Builds
  /\ \A b \in Builds : \A k \in Rotating \ {"factory"} :
       k \in b.tables <=> TableFormat[k] <= b.format
  /\ \A b \in Builds : b.format >= 5 => "factory" \in b.tables
ASSUME NoneIsNothing ==
  None \notin Ids \cup Tasks \cup Keys \cup Labels \cup Account \cup Tx
ASSUME ReceiptsAreCounted == MaxReceipts \in Nat

VARIABLES
  disk,      \* the document in the vault
  at,        \* per task, where its transaction stands
  tx,        \* per task, its transaction: its build and the document it read
  inside,    \* per process, the task its flag is set for
  flocked,   \* tasks whose descriptor has the flock
  drawn,     \* account ids drawn so far
  kept       \* the owners of tokens when a current build last wrote the document

vars == <<disk, at, tx, inside, flocked, drawn, kept>>

\* Faulty variants, named for what they get wrong, stand before the definition
\* they vary; the mutation runs put them in its place.

EmptyDocument ==
  [version  |-> 1,
   accounts |-> [a \in Ids |-> None],
   receipts |-> {},
   owners   |-> [k \in Rotating |-> [t \in Tokens |-> None]]]

AtLeast(d, v) == [d EXCEPT !.version = IF @ < v THEN v ELSE @]
Live(d)       == {a \in Ids : d.accounts[a] # None}
Of(d, p)      == {a \in Live(d) : d.accounts[a].provider = p}
Reserved(d, k) == \E t \in Tokens : d.owners[k][t] # None

----------------------------------------------------------------------------
(* Reading.                                                                 *)

\* A build fails to parse a kind it does not know.
Parses(b, d) == \A a \in Live(d) : Since[d.accounts[a].credential.kind] <= b.format

\* The gates of Vault::begin.  Owners of Factory tokens have none: documents with
\* them were written before they required a format.
InFormat(d) ==
  /\ \A k \in Rotating \ {"factory"} : Reserved(d, k) => TableFormat[k] <= d.version
  /\ \A a \in Live(d) : LET k == d.accounts[a].credential.kind IN
       k # "factory" => Since[k] <= d.version
  /\ d.receipts # {} => d.version >= 2
  /\ (\E a \in Live(d) : ~d.accounts[a].enabled) => d.version >= 4
  /\ Cardinality(d.receipts) <= MaxReceipts

\* What a build makes of a document: it knows nothing of fields that came later.
Understood(b, d) ==
  [d EXCEPT
     !.accounts = [a \in Ids |-> IF d.accounts[a] # None /\ b.format < 4
                                 THEN [d.accounts[a] EXCEPT !.enabled = TRUE]
                                 ELSE d.accounts[a]],
     !.receipts = IF b.format < 2 THEN {} ELSE @,
     !.owners   = [k \in Rotating |-> IF k \in b.tables THEN d.owners[k]
                                      ELSE [t \in Tokens |-> None]]]

Accepts(b, d) == d.version <= b.format /\ Parses(b, d) /\ InFormat(Understood(b, d))

----------------------------------------------------------------------------
(* Changing.                                                                *)

\* reserve_factory_refresh: neither the table nor another account gives the token
\* to anyone else.  A build without the table reserves nothing.
MayReserveUnlessLive(b, d, a, c) ==
  c.kind \in b.tables => \A o \in Live(d) \ {a} : d.accounts[o].credential # c
MayReserve(b, d, a, c) ==
  c.kind \in b.tables =>
    /\ d.owners[c.kind][c.token] \in {None, a}
    /\ \A o \in Live(d) \ {a} : d.accounts[o].credential # c

\* The format a table asks of a document, in a build that knows of it.
Asked(b, k) == IF TableFormat[k] <= b.format THEN TableFormat[k] ELSE 1
AskedOneLess(b, k) == IF TableFormat[k] < b.format THEN TableFormat[k] ELSE 1
Format(b, k) == Asked(b, k)

ReserveForToken(b, d, a, c) ==
  IF c.kind \in b.tables
  THEN AtLeast([d EXCEPT !.owners[c.kind][c.token] = c.token], Format(b, c.kind))
  ELSE d
Reserve(b, d, a, c) ==
  IF c.kind \in b.tables
  THEN AtLeast([d EXCEPT !.owners[c.kind][c.token] = a], Format(b, c.kind))
  ELSE d

Clashes(d, p, label, identity) ==
  \E a \in Of(d, p) : d.accounts[a].label = label \/ d.accounts[a].identity = identity

HasActive(d, p) == \E a \in Of(d, p) : d.accounts[a].active

Added(b, d, a, p, label, identity, c) ==
  LET reserved == Reserve(b, d, a, c)
      upgraded == IF c.kind \in {"native", "copilot"} THEN AtLeast(reserved, Since[c.kind])
                  ELSE reserved
  IN [upgraded EXCEPT !.accounts[a] =
        [provider |-> p, label |-> label, identity |-> identity,
         active |-> ~HasActive(d, p), enabled |-> TRUE, credential |-> c]]

WithoutAccount(b, d, a) ==
  [Reserve(b, d, a, d.accounts[a].credential) EXCEPT !.accounts[a] = None]
Activated(d, a) == [d EXCEPT !.accounts[a].active = TRUE]

\* The documents that removing an account may lead to.
Removed(b, d, a) ==
  LET rest   == WithoutAccount(b, d, a)
      others == Of(rest, d.accounts[a].provider)
  IN IF d.accounts[a].active /\ others # {} THEN {Activated(rest, o) : o \in others}
     ELSE {rest}
RemovedOnly(b, d, a) == {WithoutAccount(b, d, a)}
Removals(b, d, a) == Removed(b, d, a)

\* patch, and rename and select, which it calls: the switch first, then the label,
\* then the active account.
Switched(d, a, enabled) ==
  IF enabled = None THEN d ELSE AtLeast([d EXCEPT !.accounts[a].enabled = enabled], 4)
Renamed(d, a, label) ==
  IF label = None THEN d ELSE [d EXCEPT !.accounts[a].label = label]
Selected(d, a) ==
  [d EXCEPT !.accounts = [o \in Ids |->
     IF o \in Of(d, d.accounts[a].provider) THEN [d.accounts[o] EXCEPT !.active = (o = a)]
     ELSE d.accounts[o]]]
MayRenameAnyway(d, a, label) == TRUE
MayRename(d, a, label) ==
  \A o \in Of(d, d.accounts[a].provider) \ {a} : d.accounts[o].label # label
Patched(d, a, label, active, enabled) ==
  LET relabelled == Renamed(Switched(d, a, enabled), a, label)
  IN IF active THEN Selected(relabelled, a) ELSE relabelled

\* A refresh installs the successor of an account's token.
Rotated(b, d, a, c) == [Reserve(b, d, a, c) EXCEPT !.accounts[a].credential = c]

\* commit_once: the receipt of a keyed write, which needs room among the others.
WithReceipt(d, k) == IF k = None THEN d ELSE AtLeast([d EXCEPT !.receipts = @ \cup {k}], 2)
MayReceipt(d, k)  == k = None \/ (k \notin d.receipts /\ Cardinality(d.receipts) < MaxReceipts)

----------------------------------------------------------------------------
Init ==
  /\ disk = EmptyDocument
  /\ at = [t \in Tasks |-> "idle"]
  /\ tx = [t \in Tasks |-> None]
  /\ inside = [p \in Processes |-> None]
  /\ flocked = {}
  /\ drawn = {}
  /\ kept = EmptyDocument.owners

(* The vault lock.  A task that finds it taken answers Busy, and nothing     *)
(* changes.                                                                 *)

Goto(t, stage) == at' = [at EXCEPT ![t] = stage]

EnterAnyway(t) ==
  /\ at[t] = "idle"
  /\ inside' = [inside EXCEPT ![Process[t]] = t]
  /\ Goto(t, "entered")
  /\ UNCHANGED <<disk, tx, flocked, drawn, kept>>

\* acquire_process_lock.
Enter(t) ==
  /\ at[t] = "idle" /\ inside[Process[t]] = None
  /\ inside' = [inside EXCEPT ![Process[t]] = t]
  /\ Goto(t, "entered")
  /\ UNCHANGED <<disk, tx, flocked, drawn, kept>>

\* flock fails for the locks of other processes; for those of its own it depends
\* on the platform.
Begin(t, b) ==
  /\ at[t] = "entered"
  /\ \A u \in flocked : Process[u] = Process[t]
  /\ flocked' = flocked \cup {t}
  /\ IF Accepts(b, disk)
     THEN Goto(t, "open") /\ tx' = [tx EXCEPT ![t] = [build |-> b, read |-> Understood(b, disk)]]
     ELSE Goto(t, "ended") /\ UNCHANGED tx
  /\ UNCHANGED <<disk, inside, drawn, kept>>

\* VaultLock::drop, of a finished, refused or dropped transaction; the flag of the
\* process is dropped after the flock.
Unlock(t) ==
  /\ at[t] \in {"open", "ended"}
  /\ flocked' = flocked \ {t}
  /\ tx' = [tx EXCEPT ![t] = None]
  /\ Goto(t, "entered")
  /\ UNCHANGED <<disk, inside, drawn, kept>>

Leave(t) ==
  /\ at[t] = "entered"
  /\ inside' = [inside EXCEPT ![Process[t]] = None]
  /\ Goto(t, "idle")
  /\ UNCHANGED <<disk, tx, flocked, drawn, kept>>

\* A process is killed.
Crash(p) ==
  /\ at' = [t \in Tasks |-> IF Process[t] = p THEN "idle" ELSE at[t]]
  /\ tx' = [t \in Tasks |-> IF Process[t] = p THEN None ELSE tx[t]]
  /\ inside' = [inside EXCEPT ![p] = None]
  /\ flocked' = {t \in flocked : Process[t] # p}
  /\ UNCHANGED <<disk, drawn, kept>>

----------------------------------------------------------------------------
(* Transactions.                                                            *)

\* Transaction::commit, which also upgrades what older builds left.
Upgrade(b, d, k) ==
  IF k \in b.tables /\ Reserved(d, k) THEN AtLeast(d, Format(b, k)) ELSE d
Upgraded(b, d) ==
  Upgrade(b, Upgrade(b, Upgrade(b, Upgrade(b, d, "factory"), "antigravity"), "kiro"), "claude")
UpgradedNever(b, d) == d
Final(b, d) == Upgraded(b, d)

\* The write succeeds, with the receipt of its key if it has one.  A transaction
\* whose change is refused, or whose write fails, is dropped: Unlock.
Commit(t, d) ==
  LET b == tx[t].build IN
  /\ \E k \in {None} \cup Keys :
       /\ MayReceipt(tx[t].read, k)
       /\ k # None => b.format >= 2
       /\ disk' = Final(b, WithReceipt(d, k))
  /\ kept' = IF b = Current THEN disk'.owners ELSE kept
  /\ Goto(t, "ended")
  /\ UNCHANGED <<tx, inside, flocked>>

Open(t) == at[t] = "open"

Add(t, a, p, label, identity, c) ==
  LET b == tx[t].build
      d == tx[t].read
  IN
  /\ Open(t)
  /\ a \notin drawn
  /\ Since[c.kind] <= b.format
  /\ ~Clashes(d, p, label, identity)
  /\ MayReserve(b, d, a, c)
  /\ drawn' = drawn \cup {a}
  /\ Commit(t, Added(b, d, a, p, label, identity, c))

Remove(t, a) ==
  LET b == tx[t].build
      d == tx[t].read
  IN
  /\ Open(t)
  /\ a \in Live(d)
  /\ MayReserve(b, d, a, d.accounts[a].credential)
  /\ \E rest \in Removals(b, d, a) : Commit(t, rest)
  /\ UNCHANGED drawn

\* Deactivating is Unsupported.
Patch(t, a, label, active, enabled) ==
  LET d == tx[t].read IN
  /\ Open(t)
  /\ a \in Live(d)
  /\ enabled # None => tx[t].build.format >= 4
  /\ label # None => MayRename(d, a, label)
  /\ Commit(t, Patched(d, a, label, active, enabled))
  /\ UNCHANGED drawn

\* The end of a refresh: the successor of the token, of the same account.
Rotate(t, a, token) ==
  LET b == tx[t].build
      d == tx[t].read
      c == [d.accounts[a].credential EXCEPT !.token = token]
  IN
  /\ Open(t)
  /\ a \in Live(d)
  /\ d.accounts[a].credential.kind \in Rotating
  /\ MayReserve(b, d, a, c)
  /\ Commit(t, Rotated(b, d, a, c))
  /\ UNCHANGED drawn

Transact(t) ==
  \/ \E a \in Ids, p \in Providers, l \in Labels, i \in Identities, c \in Credential :
       Add(t, a, p, l, i, c)
  \/ \E a \in Ids : Remove(t, a)
  \/ \E a \in Ids, l \in {None} \cup Labels, active \in BOOLEAN, e \in {None} \cup BOOLEAN :
       Patch(t, a, l, active, e)
  \/ \E a \in Ids, token \in Tokens : Rotate(t, a, token)

Next ==
  \/ \E t \in Tasks :
       \/ Enter(t) \/ \E b \in Builds : Begin(t, b)
       \/ Transact(t) \/ Unlock(t) \/ Leave(t)
  \/ \E p \in Processes : Crash(p)

Spec == Init /\ [][Next]_vars

----------------------------------------------------------------------------
(* Properties.                                                              *)

\* Every variable keeps its type.
TypeOK ==
  /\ disk \in Document
  /\ at \in [Tasks -> {"idle", "entered", "open", "ended"}]
  /\ tx \in [Tasks -> {None} \cup Tx]
  /\ inside \in [Processes -> {None} \cup Tasks]
  /\ flocked \subseteq Tasks
  /\ drawn \subseteq Ids
  /\ kept \in [Rotating -> [Tokens -> {None} \cup Ids]]

\* No lost update: what a transaction read is still what is there when it commits,
\* though flock alone would let a second task of the process in
\* (vault.rs:350, "Pair it with a process-local guard").
ReadsAreCurrent ==
  \A t \in Tasks : Open(t) => tx[t].read = Understood(tx[t].build, disk)

\* Nobody locks everybody out: whatever builds wrote the document, through whatever
\* sequence of writes, the gates of the current one let it in.
Readable == Accepts(Current, disk)

\* A provider with accounts has exactly one active account.
OneActiveIn(d) ==
  \A p \in Providers : Of(d, p) # {} =>
    \E a \in Of(d, p) : \A o \in Of(d, p) : d.accounts[o].active <=> o = a

\* Within a provider no two accounts have the same label or identity.
DistinctIn(d) ==
  \A p \in Providers : \A a, o \in Of(d, p) : a # o =>
    /\ d.accounts[a].label # d.accounts[o].label
    /\ d.accounts[a].identity # d.accounts[o].identity

\* However accounts are added, removed, selected, renamed and replaced, the document
\* has both (Document::add, select, remove, rename, patch).
Consistent == OneActiveIn(disk) /\ DistinctIn(disk)

\* What a step remembers: reservations a current build has written or kept,
\* receipts, and who is disabled.
Remembers ==
  /\ \A k \in Rotating, t \in Tokens :
       kept[k][t] # None => disk'.owners[k][t] = kept[k][t]
  /\ disk.receipts \subseteq disk'.receipts
  /\ \A a \in Live(disk) \cap Live(disk') :
       ~disk.accounts[a].enabled /\ disk'.accounts[a].enabled =>
         \E t \in Tasks, l \in {None} \cup Labels, s \in BOOLEAN : Patch(t, a, l, s, TRUE)

\* An account has a token that is reserved for another only if it had it before.
TokensStayPut ==
  \A a \in Live(disk'), k \in Rotating, t \in Tokens :
    LET c == [kind |-> k, token |-> t] IN
    disk'.accounts[a].credential = c /\ kept[k][t] \notin {None, a}
      => a \in Live(disk) /\ disk.accounts[a].credential = c

\* "Older binaries must reject the document instead of silently discarding" what
\* they do not know (service.rs:441; docs/local-http-api.md:475, 494): no build's
\* write drops a receipt, enables a disabled account it was not asked to, or drops
\* a reservation that a current build has written or kept.
NothingForgotten == [][Remembers]_vars

\* "Deleting an account does not release these reservations" (local-http-api.md:484):
\* a token reserved for one account, in a document a current build has written,
\* never becomes another's, whatever is removed and registered, by whatever build.
TokenStaysWithOwner == [][TokensStayPut]_vars

----------------------------------------------------------------------------
(* The inductive invariant.                                                 *)

\* The flag of a process belongs to its task in a transaction, so that whoever has
\* the flock has it alone.
LockInv ==
  /\ \A t \in Tasks :
       /\ at[t] # "idle" => inside[Process[t]] = t
       /\ t \in flocked <=> at[t] \in {"open", "ended"}
       /\ Open(t) => tx[t] \in Tx /\ Accepts(tx[t].build, disk)
  /\ \A t, u \in flocked : t = u

\* What holds of the document between transactions.
Sound(d) ==
  /\ InFormat(d) /\ IsFiniteSet(d.receipts)
  /\ OneActiveIn(d) /\ DistinctIn(d)

\* A reservation a current build has written is in the document still, and the
\* document in a format whose builds all know the table.
KeptInv ==
  \A k \in Rotating, t \in Tokens : kept[k][t] # None =>
    disk.owners[k][t] = kept[k][t] /\ TableFormat[k] <= disk.version

IInv ==
  /\ TypeOK /\ LockInv /\ ReadsAreCurrent /\ Sound(disk) /\ KeptInv
  /\ Live(disk) \subseteq drawn
==============================================================================
