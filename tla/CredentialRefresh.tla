--------------------------- MODULE CredentialRefresh ---------------------------
(****************************************************************************)
(* Refreshing a rotating OAuth credential that several usage reads share.    *)
(*                                                                          *)
(* A saved account holds a refresh token.  A usage read of that account     *)
(* (ManagedProvider::read) may find the access token expired and present    *)
(* the refresh token to the provider, which normally answers with a         *)
(* successor and forgets the token presented.  The reads run in several     *)
(* processes, can be dropped at every await, and their vault writes can     *)
(* fail, or become visible without being durable.  The protocol must keep a *)
(* token whose answer was lost from being presented again.                  *)
(*                                                                          *)
(* Fenced kinds (Claude, Factory, Kiro, Antigravity, Grok) write a durable  *)
(* refresh_pending marker before the request; ledgered kinds (the same      *)
(* without Grok) also record the owner of each token they saw.  Codex does  *)
(* neither.  Fenced and Ledgered select the kind, Uncertain says whether    *)
(* reads may be dropped in the middle of a refresh and writes may go wrong. *)
(*                                                                          *)
(* Left out: labels and identities, the active flag and the version gates   *)
(* (AccountDocument), and the quota a read returns.                         *)
(* Bounds: Ids is the supply of account ids (each is drawn once), Tokens    *)
(* the supply of refresh tokens.                                            *)
(****************************************************************************)
CONSTANTS Readers,      \* concurrent usage reads, of any process
          Ids,          \* account ids
          Tokens,       \* refresh tokens
          Manager,      \* an account command or a management request
          None,         \* no account, no owner, no holder, no value
          Fenced,       \* the kind has a refresh_pending marker
          Ledgered,     \* the kind has a *_refresh_owners ledger
          Uncertain     \* refreshes may be dropped, writes may go wrong

Credential == [tok : Tokens, pending : BOOLEAN]
Account    == [cred : Credential, enabled : BOOLEAN]
Document   == [accounts : [Ids -> Account \cup {None}],
               owners   : [Tokens -> Ids \cup {None}]]

ASSUME NoneIsNothing ==
  None \notin Account \cup Credential \cup Ids \cup Tokens \cup Readers \cup {Manager}

ASSUME ManagerIsNoReader == Manager \notin Readers

ASSUME KindsAreSwitches ==
  /\ Fenced \in BOOLEAN /\ Ledgered \in BOOLEAN /\ Uncertain \in BOOLEAN
  /\ Ledgered => Fenced

VARIABLES
  disk,      \* the vault document every process reads
  synced,    \* the document a power loss may bring back
  draft,     \* the document being written; equals disk when nothing is
  writer,    \* who holds the vault lock for that write
  settled,   \* presentations whose answer the write in flight records
  guard,     \* per account, who holds its refresh lock
  pc,        \* per reader, where it stands in `read`
  self,      \* per reader, the account it serves
  cred,      \* per reader, the credential it holds (`credential`, `latest`)
  answer,    \* per reader, the refresh token in the provider's answer
  drawn,     \* account ids drawn so far
  issued,    \* refresh tokens that exist
  exposed,   \* <<account, token>> presented, and no answer recorded
  replays    \* <<first, again, token>>: exposed by first, presented by again

vault   == <<disk, synced, draft, writer, settled>>
reader  == <<pc, self, cred, answer>>
history == <<drawn, issued, exposed, replays>>
vars    == <<vault, guard, reader, history>>

Refreshing == {"sent", "install", "installing"}
Steps == {"idle", "quota", "retry", "verify", "lock", "recheck",
          "fence", "fencing", "send"} \cup Refreshing

----------------------------------------------------------------------------
(* The document.                                                            *)

EmptyDocument == [accounts |-> [a \in Ids |-> None],
                  owners   |-> [t \in Tokens |-> None]]

Live(d, a)    == d.accounts[a] # None
Enabled(d, a) == Live(d, a) /\ d.accounts[a].enabled
Holds(d, a, c) == Live(d, a) /\ d.accounts[a].cred = c

\* Faulty variants, named for what they forget, stand before the definition they
\* vary; the mutation runs put them in its place.

\* reserve_factory_refresh succeeds: neither the ledger nor another account
\* gives the token to anyone else.
MayReserveUnlessLive(d, a, t) ==
  \A b \in Ids \ {a} : Live(d, b) => d.accounts[b].cred.tok # t
MayReserve(d, a, t) ==
  \/ ~Ledgered
  \/ /\ d.owners[t] \in {None, a}
     /\ \A b \in Ids \ {a} : Live(d, b) => d.accounts[b].cred.tok # t

ReserveForToken(d, a, t) == [d EXCEPT !.owners[t] = t]
Reserve(d, a, t) ==
  IF Ledgered THEN [d EXCEPT !.owners[t] = a] ELSE d

SetCredential(d, a, c) == [d EXCEPT !.accounts[a].cred = c]

\* *refresh_pending = true.
Unmarked(c) == c
Marked(c)   == [c EXCEPT !.pending = TRUE]

\* The document a refresh writes: the successor's lineage in every case, the
\* credential only over the one that was presented.
InstalledAnyway(d, a, latest, t) ==
  [Reserve(d, a, t) EXCEPT !.accounts[a] =
     [cred |-> [tok |-> t, pending |-> FALSE], enabled |-> TRUE]]
Installed(d, a, latest, t) ==
  IF Holds(d, a, latest)
  THEN SetCredential(Reserve(d, a, t), a, [tok |-> t, pending |-> FALSE])
  ELSE Reserve(d, a, t)

----------------------------------------------------------------------------
(* The vault.  A transaction holds the lock from begin to drop.  One that   *)
(* only reads, or decides not to write, is a single step; one that writes   *)
(* starts here and ends in one of the three outcomes of Backend::write.     *)
(* The write runs on a blocking thread, so it outlives a dropped reader.    *)

VaultFree == writer = None

StartWrite(who, d, answered) ==
  /\ draft' = d
  /\ writer' = who
  /\ settled' = answered
  /\ UNCHANGED <<disk, synced>>

----------------------------------------------------------------------------
Init ==
  /\ disk = EmptyDocument /\ synced = EmptyDocument /\ draft = EmptyDocument
  /\ writer = None /\ settled = {}
  /\ guard = [a \in Ids |-> None]
  /\ pc = [p \in Readers |-> "idle"]
  /\ self = [p \in Readers |-> None]
  /\ cred = [p \in Readers |-> None]
  /\ answer = [p \in Readers |-> None]
  /\ drawn = {} /\ issued = {} /\ exposed = {} /\ replays = {}

(* ManagedProvider::read.                                                   *)

Goto(p, step) == pc' = [pc EXCEPT ![p] = step]

Release(p) == guard' = [a \in Ids |-> IF guard[a] = p THEN None ELSE guard[a]]

Finish(p) ==
  /\ Goto(p, "idle")
  /\ self' = [self EXCEPT ![p] = None]
  /\ cred' = [cred EXCEPT ![p] = None]
  /\ answer' = [answer EXCEPT ![p] = None]

\* The first transaction.  A missing, disabled or fenced account ends the read
\* at once and leaves no trace.
Read(p, a) ==
  /\ pc[p] = "idle" /\ VaultFree
  /\ Enabled(disk, a) /\ ~disk.accounts[a].cred.pending
  /\ self' = [self EXCEPT ![p] = a]
  /\ cred' = [cred EXCEPT ![p] = disk.accounts[a].cred]
  /\ \E expired \in BOOLEAN : Goto(p, IF expired THEN "lock" ELSE "quota")
  /\ UNCHANGED <<vault, guard, answer, history>>

\* The quota request.  Only the first one leads to a refresh when the provider
\* rejects the access token.
Quota(p) ==
  /\ \/ pc[p] = "quota" /\ (Goto(p, "verify") \/ Goto(p, "lock"))
     \/ pc[p] = "retry" /\ Goto(p, "verify")
  /\ UNCHANGED <<vault, guard, self, cred, answer, history>>

\* verify_current: usage and Busy both end the read.
Verify(p) ==
  /\ pc[p] = "verify" /\ VaultFree
  /\ Finish(p)
  /\ UNCHANGED <<vault, guard, history>>

Lock(p) ==
  /\ pc[p] = "lock" /\ guard[self[p]] = None
  /\ guard' = [guard EXCEPT ![self[p]] = p]
  /\ Goto(p, "recheck")
  /\ UNCHANGED <<vault, self, cred, answer, history>>

\* Under the lock the credential may have changed; a newer one is used as is.
Recheck(p) ==
  LET a == self[p] IN
  /\ pc[p] = "recheck" /\ VaultFree /\ Enabled(disk, a)
  /\ IF disk.accounts[a].cred = cred[p]
     THEN Goto(p, IF Fenced THEN "fence" ELSE "send") /\ UNCHANGED guard
     ELSE Goto(p, "retry") /\ Release(p)
  /\ cred' = [cred EXCEPT ![p] = disk.accounts[a].cred]
  /\ UNCHANGED <<vault, self, answer, history>>

Fence(p) ==
  LET a == self[p]
      latest == Marked(cred[p])
  IN
  /\ pc[p] = "fence" /\ VaultFree
  /\ MayReserve(disk, a, latest.tok)
  /\ Enabled(disk, a) /\ Holds(disk, a, cred[p])
  /\ StartWrite(p, SetCredential(Reserve(disk, a, latest.tok), a, latest), {})
  /\ cred' = [cred EXCEPT ![p] = latest]
  /\ Goto(p, "fencing")
  /\ UNCHANGED <<guard, self, answer, history>>

\* The request leaves: from here on the token may be consumed.
Send(p) ==
  LET a == self[p]
      t == cred[p].tok
  IN
  /\ pc[p] = "send"
  /\ replays' = replays \cup {<<e[1], a, t>> : e \in {x \in exposed : x[2] = t}}
  /\ exposed' = exposed \cup {<<a, t>>}
  /\ Goto(p, "sent")
  /\ UNCHANGED <<vault, guard, self, cred, answer, drawn, issued>>

\* The provider answers with a successor, or with no new refresh token, and
\* then the presented one stays valid.  An error answer is Abandon.
Answer(p, t) ==
  /\ pc[p] = "sent"
  /\ t \notin issued \/ t = cred[p].tok
  /\ issued' = issued \cup {t}
  /\ answer' = [answer EXCEPT ![p] = t]
  /\ Goto(p, "install")
  /\ UNCHANGED <<vault, guard, self, cred, drawn, exposed, replays>>

Install(p) ==
  LET a == self[p]
      t == answer[p]
  IN
  /\ pc[p] = "install" /\ VaultFree
  /\ MayReserve(disk, a, t)
  /\ StartWrite(p, Installed(disk, a, cred[p], t),
       IF t = cred[p].tok /\ Holds(disk, a, cred[p]) THEN {<<a, t>>} ELSE {})
  /\ Goto(p, "installing")
  /\ UNCHANGED <<guard, self, cred, answer, history>>

\* The read ends early: an error of any step, the provider's deadline, a
\* cancelled command, a killed process.  Its lock is released (VaultLock::drop,
\* or the operating system); a write it started goes on.
Abandon(p) ==
  /\ pc[p] # "idle"
  /\ \/ Uncertain \/ pc[p] \notin Refreshing
     \/ pc[p] = "install" /\ VaultFree /\ ~MayReserve(disk, self[p], answer[p])
  /\ Finish(p) /\ Release(p)
  /\ UNCHANGED <<vault, history>>

----------------------------------------------------------------------------
(* How a write ends.                                                        *)

Waits(p) == writer = p /\ pc[p] \in {"fencing", "installing"}

Replace == disk' = draft /\ exposed' = exposed \ settled
Keep    == disk' = disk /\ UNCHANGED exposed
EndWrite ==
  /\ draft' = disk' /\ writer' = None /\ settled' = {}
  /\ UNCHANGED <<drawn, issued, replays>>

\* Written, renamed and synced.
FenceWrittenUnsynced(p) ==
  /\ Waits(p) /\ pc[p] = "fencing"
  /\ Replace /\ UNCHANGED synced /\ EndWrite
  /\ Goto(p, "send")
  /\ UNCHANGED <<guard, self, cred, answer>>
FenceWritten(p) ==
  /\ Waits(p) /\ pc[p] = "fencing"
  /\ Replace /\ synced' = draft /\ EndWrite
  /\ Goto(p, "send")
  /\ UNCHANGED <<guard, self, cred, answer>>

InstallWritten(p) ==
  LET a == self[p]
      updated == [tok |-> answer[p], pending |-> FALSE]
  IN
  /\ Waits(p) /\ pc[p] = "installing"
  /\ Replace /\ synced' = draft /\ EndWrite
  /\ Release(p)
  /\ IF Enabled(draft, a) /\ Holds(draft, a, updated)
     THEN /\ cred' = [cred EXCEPT ![p] = updated]
          /\ Goto(p, "retry")
          /\ UNCHANGED <<self, answer>>
     ELSE Finish(p)

\* Storage (nothing replaced) or CommitUncertain (replaced, directory not synced).
WriteGoesWrong(p) ==
  /\ Uncertain /\ Waits(p)
  /\ (Replace \/ Keep) /\ UNCHANGED synced /\ EndWrite
  /\ Finish(p) /\ Release(p)

\* The write of a command, or one whose reader is gone; a crash of its process
\* is one of the last two outcomes.
UnattendedWrite ==
  /\ writer # None /\ ~\E p \in Readers : Waits(p)
  /\ \/ Replace /\ synced' = draft
     \/ Uncertain /\ (Replace \/ Keep) /\ UNCHANGED synced
  /\ EndWrite
  /\ UNCHANGED <<guard, reader>>

----------------------------------------------------------------------------
(* Account commands and management requests.                                *)

\* Document::add: a login brings a new token, an import any existing one.
Add(a, t) ==
  /\ VaultFree
  /\ a \notin drawn /\ drawn' = drawn \cup {a}
  /\ issued' = issued \cup {t}
  /\ MayReserve(disk, a, t)
  /\ StartWrite(Manager,
       [Reserve(disk, a, t) EXCEPT !.accounts[a] =
          [cred |-> [tok |-> t, pending |-> FALSE], enabled |-> TRUE]], {})
  /\ UNCHANGED <<guard, reader, exposed, replays>>

Remove(a) ==
  /\ VaultFree
  /\ Live(disk, a)
  /\ MayReserve(disk, a, disk.accounts[a].cred.tok)
  /\ StartWrite(Manager,
       [Reserve(disk, a, disk.accounts[a].cred.tok) EXCEPT !.accounts[a] = None], {})
  /\ UNCHANGED <<guard, reader, history>>

SetEnabled(a, e) ==
  /\ VaultFree
  /\ Live(disk, a)
  /\ StartWrite(Manager, [disk EXCEPT !.accounts[a].enabled = e], {})
  /\ UNCHANGED <<guard, reader, history>>

\* Every process dies, and a rename that was never synced may be undone.
PowerLoss ==
  /\ Uncertain
  /\ disk' \in {disk, synced} /\ synced' = disk' /\ draft' = disk'
  /\ writer' = None /\ settled' = {}
  /\ guard' = [a \in Ids |-> None]
  /\ pc' = [p \in Readers |-> "idle"]
  /\ self' = [p \in Readers |-> None]
  /\ cred' = [p \in Readers |-> None]
  /\ answer' = [p \in Readers |-> None]
  /\ UNCHANGED history

ReaderStep(p) ==
  \/ \E a \in Ids : Read(p, a)
  \/ Quota(p) \/ Verify(p) \/ Lock(p) \/ Recheck(p)
  \/ Fence(p) \/ FenceWritten(p)
  \/ Send(p) \/ \E t \in Tokens : Answer(p, t)
  \/ Install(p) \/ InstallWritten(p)
  \/ WriteGoesWrong(p) \/ Abandon(p)

ManagerStep ==
  \/ \E a \in Ids, t \in Tokens : Add(a, t)
  \/ \E a \in Ids : Remove(a)
  \/ \E a \in Ids, e \in BOOLEAN : SetEnabled(a, e)

Next ==
  \/ \E p \in Readers : ReaderStep(p)
  \/ ManagerStep
  \/ UnattendedWrite
  \/ PowerLoss

Spec == Init /\ [][Next]_vars

----------------------------------------------------------------------------
(* Properties.                                                              *)

\* Every variable keeps its type.
TypeOK ==
  /\ disk \in Document /\ synced \in Document /\ draft \in Document
  /\ writer \in Readers \cup {Manager, None}
  /\ settled \subseteq Ids \X Tokens
  /\ guard \in [Ids -> Readers \cup {None}]
  /\ pc \in [Readers -> Steps]
  /\ self \in [Readers -> Ids \cup {None}]
  /\ cred \in [Readers -> Credential \cup {None}]
  /\ answer \in [Readers -> Tokens \cup {None}]
  /\ drawn \subseteq Ids /\ issued \subseteq Tokens
  /\ exposed \subseteq Ids \X Tokens
  /\ replays \subseteq Ids \X Ids \X Tokens

\* No account presents a refresh token again when an earlier presentation by
\* the same account may have consumed it (the comment at service.rs:746).
AccountNeverReplays == \A r \in replays : r[1] # r[2]

\* Nor does any other account, whatever was removed and registered meanwhile
\* (reserve_factory_refresh: "registration cannot bypass a fence").
TokenNeverReplayed == replays = {}

\* A read that started now, from a document d, would present the token.
Usable(d, a, t) == Holds(d, a, [tok |-> t, pending |-> FALSE])

\* No version of the document that is on disk, or that a power loss may bring
\* back, lets a read pick up a presented token: the fence was durable before the
\* request left.
FenceIsDurable ==
  \A e \in exposed : ~Usable(disk, e[1], e[2]) /\ ~Usable(synced, e[1], e[2])

\* A presented token stays with its account in the ledger, on disk and after a
\* power loss, when the account is long removed.
LineageIsDurable ==
  \A e \in exposed : disk.owners[e[2]] = e[1] /\ synced.owners[e[2]] = e[1]

\* Two accounts never share a refresh token, so that rotating it for one cannot
\* break the other.
Unshared(d) ==
  \A a, b \in Ids :
    Live(d, a) /\ Live(d, b) /\ a # b => d.accounts[a].cred.tok # d.accounts[b].cred.tok

NoSharedToken == Unshared(disk)

\* A refresh that ends after its account was removed, disabled or joined by
\* another changes no account's presence or switch, and no other credential.
ChangesOnlyOneCredential(old, new) ==
  \E mine \in Ids : \A a \in Ids :
    /\ Live(new, a) <=> Live(old, a)
    /\ Live(old, a) =>
         /\ new.accounts[a].enabled = old.accounts[a].enabled
         /\ a = mine \/ new.accounts[a].cred = old.accounts[a].cred

RefreshRespectsManagement ==
  [][(\E p \in Readers : InstallWritten(p)) => ChangesOnlyOneCredential(disk, disk')]_vars

----------------------------------------------------------------------------
(* The inductive invariant behind the properties of the fenced kinds; the   *)
(* versions of the document are the one on disk, the one a power loss may   *)
(* bring back, and the one being written.                                   *)

Locked == {"recheck", "fence", "fencing", "send"} \cup Refreshing

\* A reader holds a token that exists, of a drawn account, not yet fenced until
\* the fence; it owns the refresh lock from Lock on, and its write while it waits.
ReaderInv ==
  \A p \in Readers :
    /\ pc[p] # "idle" =>
         self[p] \in drawn /\ cred[p] \in Credential /\ cred[p].tok \in issued
    /\ pc[p] \in {"quota", "lock", "recheck", "fence"} => ~cred[p].pending
    /\ pc[p] \in Locked => guard[self[p]] = p
    /\ pc[p] \in {"install", "installing"} => answer[p] \in issued
    /\ pc[p] \in {"fencing", "installing"} => writer = p

Known(d) ==
  \A a \in Ids : Live(d, a) => a \in drawn /\ d.accounts[a].cred.tok \in issued

DocumentInv ==
  /\ Known(disk) /\ Known(synced) /\ Known(draft)
  /\ writer = None => draft = disk /\ settled = {}
  /\ \A e \in exposed : e[1] \in drawn /\ e[2] \in issued

\* No version offers a presented token to a read, and a token about to be
\* presented is new, and out of reach already.
FenceInv ==
  /\ \A e \in exposed :
       /\ ~Usable(disk, e[1], e[2]) /\ ~Usable(synced, e[1], e[2])
       /\ e \in settled \/ ~Usable(draft, e[1], e[2])
  /\ \A p \in Readers :
       /\ pc[p] \in {"fencing", "send"} =>
            <<self[p], cred[p].tok>> \notin exposed /\ ~Usable(draft, self[p], cred[p].tok)
       /\ pc[p] = "send" =>
            ~Usable(disk, self[p], cred[p].tok) /\ ~Usable(synced, self[p], cred[p].tok)
       /\ pc[p] = "install" =>
            answer[p] = cred[p].tok \/ <<self[p], answer[p]>> \notin exposed

\* Every version names the owner of every token presented or about to be.
LedgerInv ==
  /\ \A e \in exposed :
       disk.owners[e[2]] = e[1] /\ synced.owners[e[2]] = e[1] /\ draft.owners[e[2]] = e[1]
  /\ \A p \in Readers :
       /\ pc[p] \in {"fencing", "send"} => draft.owners[cred[p].tok] = self[p]
       /\ pc[p] = "send" =>
            disk.owners[cred[p].tok] = self[p] /\ synced.owners[cred[p].tok] = self[p]

SharingInv == Unshared(disk) /\ Unshared(synced) /\ Unshared(draft)

IInv ==
  /\ TypeOK /\ ReaderInv /\ DocumentInv
  /\ Fenced   => FenceInv /\ AccountNeverReplays
  /\ Ledgered => LedgerInv /\ SharingInv /\ TokenNeverReplayed
==============================================================================
