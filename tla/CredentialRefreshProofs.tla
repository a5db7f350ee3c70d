------------------------ MODULE CredentialRefreshProofs ------------------------
(****************************************************************************)
(* Theorems about CredentialRefresh, for every set of readers, accounts and *)
(* tokens.                                                                  *)
(****************************************************************************)
EXTENDS CredentialRefresh, TLAPS

USE NoneIsNothing, ManagerIsNoReader, KindsAreSwitches

----------------------------------------------------------------------------
(* What the document operators return.                                      *)

LEMMA EmptyIsDocument == EmptyDocument \in Document
BY DEF EmptyDocument, Document

LEMMA ReserveResult ==
  ASSUME NEW d \in Document, NEW a \in Ids, NEW t \in Tokens
  PROVE  /\ Reserve(d, a, t) \in Document
         /\ Reserve(d, a, t).accounts = d.accounts
         /\ \A u \in Tokens \ {t} : Reserve(d, a, t).owners[u] = d.owners[u]
         /\ Ledgered => Reserve(d, a, t).owners[t] = a
BY DEF Reserve, Document

LEMMA SetCredentialResult ==
  ASSUME NEW d \in Document, NEW a \in Ids, NEW c \in Credential, Live(d, a)
  PROVE  /\ SetCredential(d, a, c) \in Document
         /\ SetCredential(d, a, c).owners = d.owners
         /\ \A b \in Ids \ {a} : SetCredential(d, a, c).accounts[b] = d.accounts[b]
         /\ SetCredential(d, a, c).accounts[a] = [cred |-> c, enabled |-> d.accounts[a].enabled]
<1>1. d.accounts[a] \in Account
  BY DEF Document, Live
<1>2. [d.accounts[a] EXCEPT !.cred = c] = [cred |-> c, enabled |-> d.accounts[a].enabled]
  BY <1>1 DEF Account
<1>3. SetCredential(d, a, c) =
        [d EXCEPT !.accounts = [d.accounts EXCEPT ![a] = [d.accounts[a] EXCEPT !.cred = c]]]
  BY DEF SetCredential, Document
<1>4. [cred |-> c, enabled |-> d.accounts[a].enabled] \in Account
  BY <1>1 DEF Account
<1> QED BY <1>2, <1>3, <1>4 DEF Document

\* Registration, removal and the enabled switch, as Add, Remove and SetEnabled
\* write them.
LEMMA PutAccountResult ==
  ASSUME NEW d \in Document, NEW a \in Ids, NEW x \in Account \cup {None}
  PROVE  /\ [d EXCEPT !.accounts[a] = x] \in Document
         /\ [d EXCEPT !.accounts[a] = x].owners = d.owners
         /\ \A b \in Ids \ {a} : [d EXCEPT !.accounts[a] = x].accounts[b] = d.accounts[b]
         /\ [d EXCEPT !.accounts[a] = x].accounts[a] = x
BY DEF Document

LEMMA SetEnabledResult ==
  ASSUME NEW d \in Document, NEW a \in Ids, NEW e \in BOOLEAN, Live(d, a)
  PROVE  /\ [d EXCEPT !.accounts[a].enabled = e] \in Document
         /\ [d EXCEPT !.accounts[a].enabled = e].owners = d.owners
         /\ \A b \in Ids \ {a} :
              [d EXCEPT !.accounts[a].enabled = e].accounts[b] = d.accounts[b]
         /\ [d EXCEPT !.accounts[a].enabled = e].accounts[a] =
              [cred |-> d.accounts[a].cred, enabled |-> e]
<1>1. d.accounts[a] \in Account
  BY DEF Document, Live
<1>2. [d.accounts[a] EXCEPT !.enabled = e] = [cred |-> d.accounts[a].cred, enabled |-> e]
  BY <1>1 DEF Account
<1>3. [d EXCEPT !.accounts[a].enabled = e] =
        [d EXCEPT !.accounts = [d.accounts EXCEPT ![a] = [d.accounts[a] EXCEPT !.enabled = e]]]
  BY DEF Document
<1>4. [cred |-> d.accounts[a].cred, enabled |-> e] \in Account
  BY <1>1 DEF Account
<1> QED BY <1>2, <1>3, <1>4 DEF Document

LEMMA InstalledResult ==
  ASSUME NEW d \in Document, NEW a \in Ids, NEW c \in Credential, NEW t \in Tokens
  PROVE  /\ Installed(d, a, c, t) \in Document
         /\ Installed(d, a, c, t).owners = Reserve(d, a, t).owners
         /\ \A b \in Ids \ {a} : Installed(d, a, c, t).accounts[b] = d.accounts[b]
         /\ IF Holds(d, a, c)
            THEN Installed(d, a, c, t).accounts[a] =
                   [cred |-> [tok |-> t, pending |-> FALSE], enabled |-> d.accounts[a].enabled]
            ELSE Installed(d, a, c, t).accounts[a] = d.accounts[a]
<1> DEFINE r == Reserve(d, a, t)
           u == [tok |-> t, pending |-> FALSE]
<1>1. /\ r \in Document
      /\ r.accounts = d.accounts
  BY ReserveResult
<1>2. u \in Credential
  BY DEF Credential
<1>3. CASE Holds(d, a, c)
  <2>1. Live(r, a)
    BY <1>1, <1>3 DEF Holds, Live
  <2> HIDE DEF r, u
  <2>2. /\ SetCredential(r, a, u) \in Document
        /\ SetCredential(r, a, u).owners = r.owners
        /\ \A b \in Ids \ {a} : SetCredential(r, a, u).accounts[b] = r.accounts[b]
        /\ SetCredential(r, a, u).accounts[a] = [cred |-> u, enabled |-> r.accounts[a].enabled]
    BY <1>1, <1>2, <2>1, SetCredentialResult
  <2>3. Installed(d, a, c, t) = SetCredential(r, a, u)
    BY <1>3 DEF Installed, r, u
  <2> QED BY <1>1, <1>3, <2>2, <2>3 DEF r, u
<1>4. CASE ~Holds(d, a, c)
  BY <1>1, <1>4 DEF Installed
<1> QED BY <1>3, <1>4

----------------------------------------------------------------------------
(* Types.                                                                   *)

\* A live account of a document is a record.
LEMMA LiveAccount ==
  ASSUME NEW d \in Document, NEW a \in Ids, Live(d, a)
  PROVE  d.accounts[a] \in Account /\ d.accounts[a].cred \in Credential
BY DEF Document, Live, Account


Base == TypeOK /\ ReaderInv /\ DocumentInv

LEMMA BaseInit == Init => Base
BY EmptyIsDocument
DEF Base, Init, TypeOK, ReaderInv, DocumentInv, Known, Live, EmptyDocument, Steps, Locked, Refreshing

\* A write that starts from the current document.
LEMMA BaseStartWrite ==
  ASSUME Base, VaultFree, NEW who \in Readers \cup {Manager},
         NEW d \in Document, NEW answered \in SUBSET (Ids \X Tokens),
         StartWrite(who, d, answered)
  PROVE  /\ disk' = disk /\ synced' = synced /\ draft' = d /\ writer' = who
         /\ disk' \in Document /\ synced' \in Document /\ draft' \in Document
         /\ writer' \in Readers \cup {Manager} /\ settled' = answered
         /\ writer' # None
         /\ \A p \in Readers : pc[p] \notin {"fencing", "installing"}
BY DEF Base, TypeOK, ReaderInv, VaultFree, StartWrite

\* A write that ends, whatever its outcome.
LEMMA BaseEndWrite ==
  ASSUME Base, Replace \/ Keep, synced' = draft \/ synced' = synced, EndWrite
  PROVE  /\ disk' \in Document /\ synced' \in Document /\ draft' = disk'
         /\ writer' = None /\ settled' = {}
         /\ drawn' = drawn /\ issued' = issued /\ replays' = replays
         /\ exposed' \subseteq exposed
         /\ Known(disk') /\ Known(synced') /\ Known(draft')
         /\ Known(disk)' /\ Known(synced)' /\ Known(draft)'
         /\ \A e \in exposed' : e[1] \in drawn' /\ e[2] \in issued'
         /\ DocumentInv'
BY DEF Base, TypeOK, DocumentInv, Known, Replace, Keep, EndWrite

LEMMA BaseRead ==
  ASSUME Base, NEW p \in Readers, NEW a \in Ids, Read(p, a)
  PROVE  Base'
<1>1. disk.accounts[a] \in Account /\ disk.accounts[a].cred \in Credential
  BY LiveAccount DEF Base, TypeOK, Read, Enabled
<1>2. a \in drawn /\ disk.accounts[a].cred.tok \in issued
  BY DEF Base, DocumentInv, Known, Read, Enabled
<1> QED BY <1>1, <1>2 DEF Base, TypeOK, ReaderInv, DocumentInv, Known, Live, Read, Goto,
       vault, history, Steps, Locked, Refreshing

LEMMA BaseLocalSteps ==
  ASSUME Base, NEW p \in Readers, Quota(p) \/ Verify(p) \/ Lock(p)
  PROVE  Base'
<1> USE DEF Base, TypeOK, ReaderInv, DocumentInv, Known, Live, Goto, Finish, vault, history,
            Steps, Locked, Refreshing
<1>1. CASE Quota(p)
  BY <1>1 DEF Quota
<1>2. CASE Verify(p)
  BY <1>2 DEF Verify
<1>3. CASE Lock(p)
  BY <1>3 DEF Lock
<1> QED BY <1>1, <1>2, <1>3

LEMMA BaseRecheck ==
  ASSUME Base, NEW p \in Readers, Recheck(p)
  PROVE  Base'
<1> DEFINE a == self[p]
<1>1. a \in Ids /\ a \in drawn
  BY DEF Base, TypeOK, ReaderInv, Recheck
<1>2. /\ disk.accounts[a] \in Account /\ disk.accounts[a].cred \in Credential
      /\ disk.accounts[a].cred.tok \in issued
  BY <1>1, LiveAccount DEF Base, TypeOK, DocumentInv, Known, Recheck, Enabled
<1>3. CASE disk.accounts[a].cred = cred[p]
  BY <1>1, <1>2, <1>3 DEF Base, TypeOK, ReaderInv, DocumentInv, Known, Live, Recheck, Goto,
       vault, history, Steps, Locked, Refreshing
<1>4. CASE disk.accounts[a].cred # cred[p]
  BY <1>1, <1>2, <1>4 DEF Base, TypeOK, ReaderInv, DocumentInv, Known, Live, Recheck, Goto,
       Release, vault, history, Steps, Locked, Refreshing
<1> QED BY <1>3, <1>4

\* The fence write: only the marker of one credential changes.
FenceEffect(p, a, latest) ==
  /\ a \in Ids /\ a \in drawn /\ Live(disk, a)
  /\ latest \in Credential /\ latest.tok = cred[p].tok /\ latest.pending
  /\ cred[p].tok \in issued /\ cred[p].tok \in Tokens
  /\ cred[p] = [tok |-> cred[p].tok, pending |-> FALSE]
  /\ disk.accounts[a].cred = cred[p]
  /\ cred' = [cred EXCEPT ![p] = latest]
  /\ draft' \in Document
  /\ draft'.owners = Reserve(disk, a, cred[p].tok).owners
  /\ \A b \in Ids \ {a} : draft'.accounts[b] = disk.accounts[b]
  /\ draft'.accounts[a] = [cred |-> latest, enabled |-> disk.accounts[a].enabled]

LEMMA FenceDocument ==
  ASSUME Base, NEW p \in Readers, Fence(p)
  PROVE  FenceEffect(p, self[p], Marked(cred[p]))
<1> DEFINE a == self[p]
           latest == Marked(cred[p])
           r == Reserve(disk, a, latest.tok)
<1>1. /\ a \in Ids /\ a \in drawn /\ Live(disk, a)
      /\ cred[p] \in Credential /\ cred[p].tok \in issued /\ ~cred[p].pending
      /\ disk.accounts[a].cred = cred[p] /\ disk \in Document
  BY DEF Base, TypeOK, ReaderInv, Fence, Enabled, Holds
<1>2. /\ latest \in Credential /\ latest.tok = cred[p].tok /\ latest.pending
      /\ cred[p].tok \in Tokens
      /\ cred[p] = [tok |-> cred[p].tok, pending |-> FALSE]
  BY <1>1 DEF Credential, Marked
<1>3. r \in Document /\ r.accounts = disk.accounts /\ Live(r, a)
  BY <1>1, <1>2, ReserveResult DEF Live
<1>4. /\ draft' = SetCredential(r, a, latest)
      /\ cred' = [cred EXCEPT ![p] = latest]
  BY DEF Fence, StartWrite
<1> HIDE DEF r, latest
<1>5. /\ SetCredential(r, a, latest) \in Document
      /\ SetCredential(r, a, latest).owners = r.owners
      /\ \A b \in Ids \ {a} : SetCredential(r, a, latest).accounts[b] = r.accounts[b]
      /\ SetCredential(r, a, latest).accounts[a] =
           [cred |-> latest, enabled |-> r.accounts[a].enabled]
  BY <1>1, <1>2, <1>3, SetCredentialResult
<1> QED BY <1>1, <1>2, <1>3, <1>4, <1>5 DEF FenceEffect, r, latest

LEMMA BaseFence ==
  ASSUME Base, NEW p \in Readers, Fence(p)
  PROVE  Base'
<1> DEFINE a == self[p]
           latest == Marked(cred[p])
<1>0. FenceEffect(p, a, latest)
  BY FenceDocument
<1>1. /\ a \in Ids /\ a \in drawn /\ Live(disk, a)
      /\ latest \in Credential /\ latest.tok = cred[p].tok
      /\ cred[p].tok \in issued
      /\ cred' = [cred EXCEPT ![p] = latest]
      /\ draft' \in Document
      /\ \A b \in Ids \ {a} : draft'.accounts[b] = disk.accounts[b]
      /\ draft'.accounts[a].cred = latest
  BY <1>0 DEF FenceEffect
<1>2. /\ disk' = disk /\ synced' = synced /\ writer' = p /\ settled' = {}
      /\ guard' = guard /\ self' = self /\ answer' = answer
      /\ pc[p] = "fence" /\ pc' = [pc EXCEPT ![p] = "fencing"]
      /\ drawn' = drawn /\ issued' = issued /\ exposed' = exposed /\ replays' = replays
  BY DEF Fence, StartWrite, Goto, history
<1>3. \A q \in Readers : pc[q] \notin {"fencing", "installing"}
  BY DEF Base, TypeOK, ReaderInv, VaultFree, Fence
<1> HIDE DEF latest
<1>4. TypeOK'
  BY <1>1, <1>2 DEF Base, TypeOK, Steps
<1>5. ReaderInv'
  BY <1>1, <1>2, <1>3 DEF Base, TypeOK, ReaderInv, Locked, Refreshing
<1>6. Known(draft)'
  BY <1>1, <1>2 DEF Base, DocumentInv, Known, Live
<1>7. DocumentInv'
  BY <1>2, <1>6 DEF Base, TypeOK, DocumentInv, Known
<1> QED BY <1>4, <1>5, <1>7 DEF Base

LEMMA BaseSend ==
  ASSUME Base, NEW p \in Readers, Send(p)
  PROVE  Base'
<1>1. /\ self[p] \in Ids /\ self[p] \in drawn /\ cred[p].tok \in Tokens /\ cred[p].tok \in issued
  BY DEF Base, TypeOK, ReaderInv, Send, Credential
<1>2. replays' \subseteq Ids \X Ids \X Tokens
  BY <1>1 DEF Base, TypeOK, Send
<1>3. exposed' \subseteq Ids \X Tokens
  BY <1>1 DEF Base, TypeOK, Send
<1> QED BY <1>1, <1>2, <1>3 DEF Base, TypeOK, ReaderInv, DocumentInv, Known, Live, Send, Goto,
       vault, Steps, Locked, Refreshing

LEMMA BaseAnswer ==
  ASSUME Base, NEW p \in Readers, NEW t \in Tokens, Answer(p, t)
  PROVE  Base'
BY DEF Base, TypeOK, ReaderInv, DocumentInv, Known, Live, Answer, Goto, vault, Steps, Locked,
       Refreshing

\* The document a refresh writes.
InstallEffect(p, a, t) ==
  /\ a \in Ids /\ a \in drawn /\ t \in Tokens /\ t \in issued
  /\ cred[p] \in Credential
  /\ draft' \in Document
  /\ draft'.owners = Reserve(disk, a, t).owners
  /\ \A b \in Ids \ {a} : draft'.accounts[b] = disk.accounts[b]
  /\ IF Holds(disk, a, cred[p])
     THEN draft'.accounts[a] =
            [cred |-> [tok |-> t, pending |-> FALSE], enabled |-> disk.accounts[a].enabled]
     ELSE draft'.accounts[a] = disk.accounts[a]

LEMMA InstallDocument ==
  ASSUME Base, NEW p \in Readers, Install(p)
  PROVE  InstallEffect(p, self[p], answer[p])
<1>1. /\ self[p] \in Ids /\ self[p] \in drawn /\ answer[p] \in Tokens /\ answer[p] \in issued
      /\ cred[p] \in Credential /\ disk \in Document
  BY DEF Base, TypeOK, ReaderInv, Install
<1>2. draft' = Installed(disk, self[p], cred[p], answer[p])
  BY DEF Install, StartWrite
<1> QED BY <1>1, <1>2, InstalledResult DEF InstallEffect

LEMMA BaseInstall ==
  ASSUME Base, NEW p \in Readers, Install(p)
  PROVE  Base'
<1> DEFINE a == self[p]
           t == answer[p]
<1>0. InstallEffect(p, a, t)
  BY InstallDocument
<1> HIDE DEF a, t
<1>1. /\ a \in Ids /\ a \in drawn /\ t \in Tokens /\ t \in issued
      /\ draft' \in Document
      /\ \A b \in Ids \ {a} : draft'.accounts[b] = disk.accounts[b]
      /\ \/ draft'.accounts[a].cred = [tok |-> t, pending |-> FALSE]
         \/ draft'.accounts[a] = disk.accounts[a]
  <2>1. CASE Holds(disk, a, cred[p])
    <3>1. draft'.accounts[a] =
            [cred |-> [tok |-> t, pending |-> FALSE], enabled |-> disk.accounts[a].enabled]
      BY <1>0, <2>1 DEF InstallEffect
    <3>2. draft'.accounts[a].cred = [tok |-> t, pending |-> FALSE]
      BY <3>1
    <3> QED BY <1>0, <3>2 DEF InstallEffect
  <2>2. CASE ~Holds(disk, a, cred[p])
    BY <1>0, <2>2 DEF InstallEffect
  <2> QED BY <2>1, <2>2
<1> USE DEF a, t
<1>2. /\ disk' = disk /\ synced' = synced /\ writer' = p
      /\ settled' \in {{}, {<<a, t>>}}
      /\ guard' = guard /\ self' = self /\ cred' = cred /\ answer' = answer
      /\ pc[p] = "install" /\ pc' = [pc EXCEPT ![p] = "installing"]
      /\ drawn' = drawn /\ issued' = issued /\ exposed' = exposed /\ replays' = replays
  BY DEF Install, StartWrite, Goto, history
<1>3. \A q \in Readers : pc[q] \notin {"fencing", "installing"}
  BY DEF Base, TypeOK, ReaderInv, VaultFree, Install
<1>4. TypeOK'
  BY <1>1, <1>2 DEF Base, TypeOK, Steps, Refreshing
<1>5. ReaderInv'
  BY <1>1, <1>2, <1>3 DEF Base, TypeOK, ReaderInv, Locked, Refreshing
<1>6. Known(draft)'
  BY <1>1, <1>2 DEF Base, DocumentInv, Known, Live
<1>7. DocumentInv'
  BY <1>2, <1>6 DEF Base, TypeOK, DocumentInv, Known
<1> QED BY <1>4, <1>5, <1>7 DEF Base

LEMMA BaseAbandon ==
  ASSUME Base, NEW p \in Readers, Abandon(p)
  PROVE  Base'
BY DEF Base, TypeOK, ReaderInv, DocumentInv, Known, Live, Abandon, Finish, Release, Goto,
       vault, history, Steps, Locked, Refreshing

LEMMA BaseFenceWritten ==
  ASSUME Base, NEW p \in Readers, FenceWritten(p)
  PROVE  Base'
<1>1. /\ disk' \in Document /\ synced' \in Document /\ draft' = disk'
      /\ writer' = None /\ settled' = {}
      /\ drawn' = drawn /\ issued' = issued /\ replays' = replays
      /\ exposed' \subseteq exposed
      /\ DocumentInv'
  BY BaseEndWrite DEF FenceWritten
<1> QED BY <1>1 DEF Base, TypeOK, ReaderInv, FenceWritten, Waits, Goto, Steps, Locked, Refreshing

LEMMA BaseInstallWritten ==
  ASSUME Base, NEW p \in Readers, InstallWritten(p)
  PROVE  Base'
<1>1. /\ disk' \in Document /\ synced' \in Document /\ draft' = disk'
      /\ writer' = None /\ settled' = {}
      /\ drawn' = drawn /\ issued' = issued /\ replays' = replays
      /\ exposed' \subseteq exposed
      /\ DocumentInv'
  BY BaseEndWrite DEF InstallWritten
<1>2. /\ self[p] \in drawn /\ answer[p] \in issued /\ answer[p] \in Tokens
      /\ writer = p /\ pc[p] = "installing"
      /\ [tok |-> answer[p], pending |-> FALSE] \in Credential
  BY DEF Base, TypeOK, ReaderInv, InstallWritten, Waits, Credential
<1>3. \A q \in Readers : q # p => pc[q] \notin {"fencing", "installing"}
  BY <1>2 DEF Base, ReaderInv
<1>4. guard' = [a \in Ids |-> IF guard[a] = p THEN None ELSE guard[a]]
  BY DEF InstallWritten, Release
<1>5. CASE Finish(p)
  BY <1>1, <1>2, <1>3, <1>4, <1>5
  DEF Base, TypeOK, ReaderInv, Finish, Goto, Steps, Locked, Refreshing
<1>6. CASE /\ cred' = [cred EXCEPT ![p] = [tok |-> answer[p], pending |-> FALSE]]
           /\ pc' = [pc EXCEPT ![p] = "retry"]
           /\ UNCHANGED <<self, answer>>
  <2>1. TypeOK'
    BY <1>1, <1>2, <1>4, <1>6 DEF Base, TypeOK, Steps
  <2>2. ReaderInv'
    BY <1>1, <1>2, <1>3, <1>4, <1>6 DEF Base, TypeOK, ReaderInv, Locked, Refreshing
  <2> QED BY <1>1, <2>1, <2>2 DEF Base
<1>7. \/ Finish(p)
      \/ /\ cred' = [cred EXCEPT ![p] = [tok |-> answer[p], pending |-> FALSE]]
         /\ pc' = [pc EXCEPT ![p] = "retry"]
         /\ UNCHANGED <<self, answer>>
  BY DEF InstallWritten, Goto
<1> QED BY <1>5, <1>6, <1>7

LEMMA BaseWriteGoesWrong ==
  ASSUME Base, NEW p \in Readers, WriteGoesWrong(p)
  PROVE  Base'
<1>1. /\ disk' \in Document /\ synced' \in Document /\ draft' = disk'
      /\ writer' = None /\ settled' = {}
      /\ drawn' = drawn /\ issued' = issued /\ replays' = replays
      /\ exposed' \subseteq exposed
      /\ DocumentInv'
  BY BaseEndWrite DEF WriteGoesWrong
<1>2. \A q \in Readers : q # p => pc[q] \notin {"fencing", "installing"}
  BY DEF Base, ReaderInv, WriteGoesWrong, Waits
<1> QED BY <1>1, <1>2 DEF Base, TypeOK, ReaderInv, WriteGoesWrong, Finish, Release, Goto, Steps,
       Locked, Refreshing

LEMMA BaseUnattendedWrite ==
  ASSUME Base, UnattendedWrite
  PROVE  Base'
<1>1. /\ disk' \in Document /\ synced' \in Document /\ draft' = disk'
      /\ writer' = None /\ settled' = {}
      /\ drawn' = drawn /\ issued' = issued /\ replays' = replays
      /\ exposed' \subseteq exposed
      /\ DocumentInv'
  BY BaseEndWrite DEF UnattendedWrite
<1>2. \A q \in Readers : pc[q] \notin {"fencing", "installing"}
  BY DEF Base, ReaderInv, UnattendedWrite, Waits
<1> QED BY <1>1, <1>2 DEF Base, TypeOK, ReaderInv, UnattendedWrite, reader, Steps, Locked,
       Refreshing

----------------------------------------------------------------------------
(* Commands.                                                                *)

AddEffect(a, t) ==
  /\ a \notin drawn
  /\ drawn' = drawn \cup {a} /\ issued' = issued \cup {t}
  /\ draft' \in Document
  /\ draft'.owners = Reserve(disk, a, t).owners
  /\ \A b \in Ids \ {a} : draft'.accounts[b] = disk.accounts[b]
  /\ Live(draft', a) /\ draft'.accounts[a].cred = [tok |-> t, pending |-> FALSE]

LEMMA AddDocument ==
  ASSUME Base, NEW a \in Ids, NEW t \in Tokens, Add(a, t)
  PROVE  AddEffect(a, t)
<1> DEFINE r == Reserve(disk, a, t)
           x == [cred |-> [tok |-> t, pending |-> FALSE], enabled |-> TRUE]
<1>1. r \in Document /\ r.accounts = disk.accounts
  BY ReserveResult DEF Base, TypeOK
<1>2. x \in Account
  BY DEF Account, Credential
<1>3. /\ draft' = [r EXCEPT !.accounts[a] = x]
      /\ a \notin drawn /\ drawn' = drawn \cup {a} /\ issued' = issued \cup {t}
  BY DEF Add, StartWrite
<1>4. x # None /\ x.cred = [tok |-> t, pending |-> FALSE]
  BY <1>2
<1> HIDE DEF r, x
<1>5. /\ [r EXCEPT !.accounts[a] = x] \in Document
      /\ [r EXCEPT !.accounts[a] = x].owners = r.owners
      /\ \A b \in Ids \ {a} : [r EXCEPT !.accounts[a] = x].accounts[b] = r.accounts[b]
      /\ [r EXCEPT !.accounts[a] = x].accounts[a] = x
  BY <1>1, <1>2, PutAccountResult
<1> QED BY <1>1, <1>3, <1>4, <1>5 DEF AddEffect, Live, r

LEMMA BaseAdd ==
  ASSUME Base, NEW a \in Ids, NEW t \in Tokens, Add(a, t)
  PROVE  Base'
<1>0. AddEffect(a, t)
  BY AddDocument
<1>1. /\ disk' = disk /\ synced' = synced /\ writer' = Manager /\ settled' = {}
      /\ guard' = guard /\ pc' = pc /\ self' = self /\ cred' = cred /\ answer' = answer
      /\ exposed' = exposed /\ replays' = replays
      /\ drawn' \subseteq Ids /\ issued' \subseteq Tokens
      /\ drawn \subseteq drawn' /\ issued \subseteq issued' /\ a \in drawn' /\ t \in issued'
      /\ draft' \in Document
  BY <1>0 DEF Base, TypeOK, Add, AddEffect, StartWrite, reader
<1>2. \A q \in Readers : pc[q] \notin {"fencing", "installing"}
  BY DEF Base, TypeOK, ReaderInv, VaultFree, Add
<1>3. Known(draft)'
  BY <1>0, <1>1 DEF Base, DocumentInv, Known, Live, AddEffect
<1>4. TypeOK'
  BY <1>1 DEF Base, TypeOK
<1>5. ReaderInv'
  BY <1>1, <1>2 DEF Base, ReaderInv, Locked, Refreshing
<1>6. DocumentInv'
  BY <1>1, <1>3 DEF Base, DocumentInv, Known
<1> QED BY <1>4, <1>5, <1>6 DEF Base

RemoveEffect(a) ==
  /\ draft' \in Document
  /\ draft'.owners = Reserve(disk, a, disk.accounts[a].cred.tok).owners
  /\ \A b \in Ids \ {a} : draft'.accounts[b] = disk.accounts[b]
  /\ ~Live(draft', a)

LEMMA RemoveDocument ==
  ASSUME Base, NEW a \in Ids, Remove(a)
  PROVE  RemoveEffect(a)
<1> DEFINE t == disk.accounts[a].cred.tok
           r == Reserve(disk, a, t)
<1>1. disk \in Document /\ t \in Tokens
  BY LiveAccount DEF Base, TypeOK, Remove, Credential
<1>2. draft' = [r EXCEPT !.accounts[a] = None]
  BY DEF Remove, StartWrite
<1> HIDE DEF t
<1>3. r \in Document /\ r.accounts = disk.accounts
  BY <1>1, ReserveResult
<1> HIDE DEF r
<1>4. /\ [r EXCEPT !.accounts[a] = None] \in Document
      /\ [r EXCEPT !.accounts[a] = None].owners = r.owners
      /\ \A b \in Ids \ {a} : [r EXCEPT !.accounts[a] = None].accounts[b] = r.accounts[b]
      /\ [r EXCEPT !.accounts[a] = None].accounts[a] = None
  BY <1>3, PutAccountResult
<1> QED BY <1>2, <1>3, <1>4 DEF RemoveEffect, Live, r, t

SetEnabledEffect(a) ==
  /\ draft' \in Document
  /\ draft'.owners = disk.owners
  /\ \A b \in Ids \ {a} : draft'.accounts[b] = disk.accounts[b]
  /\ Live(disk, a) /\ Live(draft', a)
  /\ draft'.accounts[a].cred = disk.accounts[a].cred

LEMMA SetEnabledDocument ==
  ASSUME Base, NEW a \in Ids, NEW e \in BOOLEAN, SetEnabled(a, e)
  PROVE  SetEnabledEffect(a)
<1>1. disk \in Document /\ Live(disk, a)
  BY DEF Base, TypeOK, SetEnabled
<1>2. draft' = [disk EXCEPT !.accounts[a].enabled = e]
  BY DEF SetEnabled, StartWrite
<1>3. [cred |-> disk.accounts[a].cred, enabled |-> e] \in Account
  BY <1>1, LiveAccount DEF Account
<1> DEFINE new == [disk EXCEPT !.accounts[a].enabled = e]
<1>4. /\ new \in Document /\ new.owners = disk.owners
      /\ \A b \in Ids \ {a} : new.accounts[b] = disk.accounts[b]
      /\ new.accounts[a] = [cred |-> disk.accounts[a].cred, enabled |-> e]
  BY <1>1, SetEnabledResult
<1>5. draft' = new
  BY <1>2
<1> HIDE DEF new
<1> QED BY <1>1, <1>3, <1>4, <1>5 DEF SetEnabledEffect, Live

\* Removal and the switch draw no id and issue no token.
LEMMA BaseCommand ==
  ASSUME Base, NEW a \in Ids, Remove(a) \/ \E e \in BOOLEAN : SetEnabled(a, e)
  PROVE  Base'
<1>0. RemoveEffect(a) \/ SetEnabledEffect(a)
  BY RemoveDocument, SetEnabledDocument
<1>1. /\ disk' = disk /\ synced' = synced /\ writer' = Manager /\ settled' = {}
      /\ guard' = guard /\ pc' = pc /\ self' = self /\ cred' = cred /\ answer' = answer
      /\ exposed' = exposed /\ replays' = replays /\ drawn' = drawn /\ issued' = issued
      /\ VaultFree
  BY DEF Remove, SetEnabled, StartWrite, reader, history
<1>2. \A q \in Readers : pc[q] \notin {"fencing", "installing"}
  BY <1>1 DEF Base, TypeOK, ReaderInv, VaultFree
<1>3. draft' \in Document
  BY <1>0 DEF RemoveEffect, SetEnabledEffect
<1>4. Known(draft)'
  BY <1>0, <1>1 DEF Base, DocumentInv, Known, Live, RemoveEffect, SetEnabledEffect
<1>5. TypeOK'
  BY <1>1, <1>3 DEF Base, TypeOK
<1>6. ReaderInv'
  BY <1>1, <1>2 DEF Base, ReaderInv, Locked, Refreshing
<1>7. DocumentInv'
  BY <1>1, <1>4 DEF Base, DocumentInv, Known
<1> QED BY <1>5, <1>6, <1>7 DEF Base

LEMMA BasePowerLoss ==
  ASSUME Base, PowerLoss
  PROVE  Base'
BY DEF Base, TypeOK, ReaderInv, DocumentInv, Known, Live, PowerLoss, history, Steps, Locked,
       Refreshing

LEMMA BaseStutter ==
  ASSUME Base, UNCHANGED vars
  PROVE  Base'
BY DEF Base, TypeOK, ReaderInv, DocumentInv, Known, Live, vars, vault, reader, history, Locked

LEMMA BaseStep == Base /\ [Next]_vars => Base'
<1> SUFFICES ASSUME Base, [Next]_vars PROVE Base'
  OBVIOUS
<1>1. ASSUME NEW p \in Readers, ReaderStep(p) PROVE Base'
  BY <1>1, BaseRead, BaseLocalSteps, BaseRecheck, BaseFence, BaseSend, BaseAnswer, BaseInstall,
     BaseAbandon, BaseFenceWritten, BaseInstallWritten, BaseWriteGoesWrong DEF ReaderStep
<1>2. ASSUME ManagerStep PROVE Base'
  BY <1>2, BaseAdd, BaseCommand DEF ManagerStep
<1> QED BY <1>1, <1>2, BaseUnattendedWrite, BasePowerLoss, BaseStutter DEF Next

----------------------------------------------------------------------------
(* The fence.                                                               *)

FenceSafe == FenceInv /\ AccountNeverReplays

\* Two readers never hold one refresh lock.
LEMMA LockedApart ==
  ASSUME Base, NEW p \in Readers, NEW q \in Readers, pc[p] \in Locked, pc[q] \in Locked,
         self[p] = self[q]
  PROVE  p = q
BY DEF Base, ReaderInv

\* A write that starts with a document in which nothing becomes usable, except
\* what the write settles, keeps the invariant.
LEMMA FenceStartWrite ==
  ASSUME Base, FenceInv, VaultFree, NEW p \in Readers,
         disk' = disk, synced' = synced, exposed' = exposed,
         self' = self, answer' = answer,
         \A q \in Readers \ {p} : pc'[q] = pc[q] /\ cred'[q] = cred[q],
         cred'[p].tok = cred[p].tok,
         pc'[p] \in {pc[p], "fencing", "installing"},
         pc'[p] = "fencing" => pc[p] = "fence" /\ Usable(disk, self[p], cred[p].tok)
                               /\ ~Usable(draft', self[p], cred[p].tok),
         \A e \in exposed : e \in settled' \/ ~Usable(draft', e[1], e[2]),
         \A q \in Readers : pc[q] = "send" => ~Usable(draft', self[q], cred[q].tok)
  PROVE  FenceInv'
<1>1. \A q \in Readers : pc[q] # "fencing"
  BY DEF Base, TypeOK, ReaderInv, VaultFree
<1>2. pc'[p] = "fencing" => <<self[p], cred[p].tok>> \notin exposed
  BY DEF FenceInv
<1>3. \A e \in exposed' :
        /\ ~Usable(disk', e[1], e[2]) /\ ~Usable(synced', e[1], e[2])
        /\ e \in settled' \/ ~Usable(draft', e[1], e[2])
  BY DEF FenceInv
<1>4. \A q \in Readers : cred'[q].tok = cred[q].tok
  OBVIOUS
<1>5. ASSUME NEW q \in Readers
      PROVE  /\ pc'[q] = "fencing" => q = p
             /\ pc'[q] = "send" => pc[q] = "send"
             /\ pc'[q] = "install" => pc[q] = "install"
  BY <1>1
<1>6. ASSUME NEW q \in Readers
      PROVE  /\ pc'[q] \in {"fencing", "send"} =>
                  <<self'[q], cred'[q].tok>> \notin exposed'
                  /\ ~Usable(draft', self'[q], cred'[q].tok)
             /\ pc'[q] = "send" =>
                  ~Usable(disk', self'[q], cred'[q].tok) /\ ~Usable(synced', self'[q], cred'[q].tok)
             /\ pc'[q] = "install" =>
                  answer'[q] = cred'[q].tok \/ <<self'[q], answer'[q]>> \notin exposed'
  BY <1>2, <1>4, <1>5 DEF FenceInv
<1> QED BY <1>3, <1>6 DEF FenceInv, Usable, Holds, Live

LEMMA FenceEndWrite ==
  ASSUME Base, FenceInv,
         (Replace /\ synced' \in {draft, synced}) \/ (Keep /\ synced' = synced), EndWrite
  PROVE  /\ \A e \in exposed' :
              ~Usable(disk', e[1], e[2]) /\ ~Usable(synced', e[1], e[2]) /\ ~Usable(draft', e[1], e[2])
         /\ exposed' \subseteq exposed
         /\ disk' \in {disk, draft} /\ draft' \in {disk, draft} /\ synced' \in {synced, draft}
<1>1. CASE Replace
  BY <1>1 DEF FenceInv, Replace, EndWrite
<1>2. CASE Keep /\ synced' = synced
  BY <1>2 DEF FenceInv, Keep, EndWrite
<1> QED BY <1>1, <1>2

LEMMA FenceInit == Init => FenceSafe
BY DEF Init, FenceSafe, FenceInv, AccountNeverReplays

\* Steps that touch neither the vault nor the presentations.
LEMMA FenceLocalSteps ==
  ASSUME Fenced, Base, FenceSafe, NEW p \in Readers,
         (\E a \in Ids : Read(p, a)) \/ Quota(p) \/ Verify(p) \/ Lock(p) \/ Recheck(p) \/ Abandon(p)
  PROVE  FenceSafe'
<1>1. /\ UNCHANGED <<disk, synced, draft, settled, exposed, replays>>
      /\ \A q \in Readers \ {p} :
           pc'[q] = pc[q] /\ self'[q] = self[q] /\ cred'[q] = cred[q] /\ answer'[q] = answer[q]
      /\ pc'[p] \notin {"fencing", "send", "install"}
  BY DEF Base, TypeOK, Read, Quota, Verify, Lock, Recheck, Abandon, Finish, Goto, vault, history
<1> QED BY <1>1 DEF FenceSafe, FenceInv, AccountNeverReplays

LEMMA FenceAnswer ==
  ASSUME Base, FenceSafe, NEW p \in Readers, NEW t \in Tokens, Answer(p, t)
  PROVE  FenceSafe'
<1>1. t = cred[p].tok \/ <<self[p], t>> \notin exposed
  BY DEF Base, DocumentInv, Answer
<1> QED BY <1>1 DEF Base, TypeOK, FenceSafe, FenceInv, AccountNeverReplays, Answer, Goto, vault

LEMMA FenceSend ==
  ASSUME Base, FenceSafe, NEW p \in Readers, Send(p)
  PROVE  FenceSafe'
<1> DEFINE a == self[p]
           t == cred[p].tok
<1>1. /\ <<a, t>> \notin exposed
      /\ ~Usable(disk, a, t) /\ ~Usable(synced, a, t) /\ ~Usable(draft, a, t)
      /\ pc[p] \in Locked
  BY DEF FenceSafe, FenceInv, Send, Locked
<1>2. \A q \in Readers \ {p} :
        pc[q] \in {"fencing", "send", "install"} => self[q] # a
  BY <1>1, LockedApart DEF Locked, Refreshing
<1>3. /\ UNCHANGED <<disk, synced, draft, settled, self, cred, answer>>
      /\ exposed' = exposed \cup {<<a, t>>}
      /\ pc'[p] = "sent" /\ \A q \in Readers \ {p} : pc'[q] = pc[q]
      /\ replays' = replays \cup {<<e[1], a, t>> : e \in {x \in exposed : x[2] = t}}
  BY DEF Base, TypeOK, Send, Goto, vault
<1> HIDE DEF a, t
<1>4. AccountNeverReplays'
  <2>1. \A e \in exposed : e[2] = t => e[1] # a
    BY <1>1 DEF Base, TypeOK
  <2> QED BY <1>3, <2>1 DEF FenceSafe, AccountNeverReplays
<1>5. FenceInv'
  <2>1. \A e \in exposed' :
          /\ ~Usable(disk, e[1], e[2]) /\ ~Usable(synced, e[1], e[2])
          /\ e \in settled \/ ~Usable(draft, e[1], e[2])
    BY <1>1, <1>3 DEF FenceSafe, FenceInv
  <2>2. \A q \in Readers \ {p} :
          pc[q] \in {"fencing", "send"} => <<self[q], cred[q].tok>> \notin exposed'
    BY <1>2, <1>3 DEF FenceSafe, FenceInv
  <2>3. \A q \in Readers \ {p} :
          pc[q] = "install" => answer[q] = cred[q].tok \/ <<self[q], answer[q]>> \notin exposed'
    BY <1>2, <1>3 DEF FenceSafe, FenceInv
  <2> QED BY <1>3, <2>1, <2>2, <2>3 DEF FenceSafe, FenceInv
<1> QED BY <1>4, <1>5 DEF FenceSafe

LEMMA FenceFence ==
  ASSUME Base, FenceSafe, NEW p \in Readers, Fence(p)
  PROVE  FenceSafe'
<1> DEFINE a == self[p]
           latest == Marked(cred[p])
<1>0. FenceEffect(p, a, latest)
  BY FenceDocument
<1>1. /\ UNCHANGED <<disk, synced, exposed, self, answer, replays>>
      /\ pc[p] = "fence" /\ pc' = [pc EXCEPT ![p] = "fencing"]
      /\ VaultFree
  BY DEF Fence, StartWrite, Goto, history
<1> HIDE DEF a, latest
<1>2. /\ cred'[p] = latest /\ latest.tok = cred[p].tok
      /\ \A q \in Readers \ {p} : cred'[q] = cred[q] /\ pc'[q] = pc[q]
      /\ pc'[p] = "fencing"
  BY <1>0, <1>1 DEF Base, TypeOK, FenceEffect
<1>3. Usable(disk, a, cred[p].tok)
  BY <1>0 DEF FenceEffect, Usable, Holds
<1>4. \A u : ~Usable(draft', a, u)
  BY <1>0 DEF FenceEffect, Usable, Holds
<1>5. \A b \in Ids \ {a}, u \in Tokens : Usable(draft', b, u) <=> Usable(disk, b, u)
  BY <1>0 DEF FenceEffect, Usable, Holds, Live
<1>6. \A e \in exposed : ~Usable(draft', e[1], e[2])
  <2>1. \A e \in exposed : e[1] \in Ids /\ e[2] \in Tokens
    BY DEF Base, TypeOK
  <2>2. \A e \in exposed : ~Usable(disk, e[1], e[2])
    BY DEF FenceSafe, FenceInv
  <2> QED BY <1>4, <1>5, <2>1, <2>2
<1>7. ASSUME NEW q \in Readers, pc[q] = "send"
      PROVE  ~Usable(draft', self[q], cred[q].tok)
  <2>1. self[q] \in Ids
    BY <1>7 DEF Base, TypeOK, ReaderInv
  <2>2. cred[q].tok \in Tokens
    BY <1>7 DEF Base, TypeOK, ReaderInv, Credential
  <2>3. ~Usable(disk, self[q], cred[q].tok)
    BY <1>7 DEF FenceSafe, FenceInv
  <2> QED BY <1>4, <1>5, <2>1, <2>2, <2>3
<1>8. FenceInv'
  BY <1>1, <1>2, <1>3, <1>4, <1>6, <1>7, FenceStartWrite DEF FenceSafe, a
<1> QED BY <1>1, <1>8 DEF FenceSafe, AccountNeverReplays

\* When a write ends, a reader stays where it was, leaves, or goes on from its
\* fence to its request.
AfterWrite(q) ==
  \/ pc'[q] \notin {"fencing", "send", "install"}
  \/ /\ pc'[q] = pc[q] /\ pc[q] # "fencing"
     /\ self'[q] = self[q] /\ cred'[q] = cred[q] /\ answer'[q] = answer[q]
  \/ /\ pc'[q] = "send" /\ pc[q] = "fencing" /\ disk' = draft /\ synced' = draft
     /\ self'[q] = self[q] /\ cred'[q] = cred[q] /\ answer'[q] = answer[q]

LEMMA AfterWriteEnds ==
  ASSUME Fenced, Base,
         \/ \E p \in Readers : FenceWritten(p) \/ InstallWritten(p) \/ WriteGoesWrong(p)
         \/ UnattendedWrite
  PROVE  \A q \in Readers : AfterWrite(q)
<1>1. ASSUME NEW p \in Readers, FenceWritten(p) \/ InstallWritten(p) \/ WriteGoesWrong(p)
      PROVE \A q \in Readers \ {p} : pc[q] # "fencing"
  BY <1>1 DEF Base, ReaderInv, FenceWritten, InstallWritten, WriteGoesWrong, Waits
<1>2. ASSUME NEW p \in Readers, FenceWritten(p)
      PROVE \A q \in Readers : AfterWrite(q)
  BY <1>1, <1>2 DEF Base, TypeOK, FenceWritten, Waits, Goto, Replace, AfterWrite
<1>3. ASSUME NEW p \in Readers, InstallWritten(p) \/ WriteGoesWrong(p)
      PROVE \A q \in Readers : AfterWrite(q)
  BY <1>1, <1>3 DEF Base, TypeOK, InstallWritten, WriteGoesWrong, Finish, Goto, AfterWrite
<1>4. ASSUME UnattendedWrite
      PROVE \A q \in Readers : AfterWrite(q)
  BY <1>4 DEF Base, ReaderInv, UnattendedWrite, Waits, reader, AfterWrite
<1> QED BY <1>2, <1>3, <1>4

LEMMA FenceWriteEnds ==
  ASSUME Fenced, Base, FenceSafe,
         \/ \E p \in Readers : FenceWritten(p) \/ InstallWritten(p) \/ WriteGoesWrong(p)
         \/ UnattendedWrite
  PROVE  FenceSafe'
<1>1. /\ (Replace /\ synced' \in {draft, synced}) \/ (Keep /\ synced' = synced)
      /\ EndWrite /\ replays' = replays
  BY DEF FenceWritten, InstallWritten, WriteGoesWrong, UnattendedWrite, EndWrite
<1>2. /\ \A e \in exposed' :
           ~Usable(disk', e[1], e[2]) /\ ~Usable(synced', e[1], e[2]) /\ ~Usable(draft', e[1], e[2])
      /\ exposed' \subseteq exposed
      /\ disk' \in {disk, draft} /\ draft' \in {disk, draft} /\ synced' \in {synced, draft}
  BY <1>1, FenceEndWrite DEF FenceSafe
<1>3. \A q \in Readers : AfterWrite(q)
  BY AfterWriteEnds
<1>4. FenceInv'
  <2>1. ASSUME NEW q \in Readers
        PROVE  /\ pc'[q] \in {"fencing", "send"} =>
                    <<self'[q], cred'[q].tok>> \notin exposed'
                    /\ ~Usable(draft', self'[q], cred'[q].tok)
               /\ pc'[q] = "send" =>
                    ~Usable(disk', self'[q], cred'[q].tok) /\ ~Usable(synced', self'[q], cred'[q].tok)
               /\ pc'[q] = "install" =>
                    answer'[q] = cred'[q].tok \/ <<self'[q], answer'[q]>> \notin exposed'
    <3>1. /\ pc[q] \in {"fencing", "send"} =>
               <<self[q], cred[q].tok>> \notin exposed /\ ~Usable(draft, self[q], cred[q].tok)
          /\ pc[q] = "send" =>
               ~Usable(disk, self[q], cred[q].tok) /\ ~Usable(synced, self[q], cred[q].tok)
          /\ pc[q] = "install" =>
               answer[q] = cred[q].tok \/ <<self[q], answer[q]>> \notin exposed
      BY DEF FenceSafe, FenceInv
    <3>2. CASE pc'[q] \notin {"fencing", "send", "install"}
      BY <3>2
    <3>3. CASE /\ pc'[q] = pc[q] /\ pc[q] # "fencing"
               /\ self'[q] = self[q] /\ cred'[q] = cred[q] /\ answer'[q] = answer[q]
      BY <1>2, <3>1, <3>3
    <3>4. CASE /\ pc'[q] = "send" /\ pc[q] = "fencing" /\ disk' = draft /\ synced' = draft
               /\ self'[q] = self[q] /\ cred'[q] = cred[q] /\ answer'[q] = answer[q]
      <4>1. draft' = draft
        BY <3>4, <1>1 DEF EndWrite
      <4> QED BY <1>2, <3>1, <3>4, <4>1
    <3> QED BY <1>3, <3>2, <3>3, <3>4 DEF AfterWrite
  <2> QED BY <1>2, <2>1 DEF FenceInv, Usable, Holds, Live
<1> QED BY <1>1, <1>4 DEF FenceSafe, AccountNeverReplays

LEMMA FenceInstall ==
  ASSUME Base, FenceSafe, NEW p \in Readers, Install(p)
  PROVE  FenceSafe'
<1> DEFINE a == self[p]
           t == answer[p]
<1>0. InstallEffect(p, a, t)
  BY InstallDocument
<1>1. /\ UNCHANGED <<disk, synced, exposed, self, cred, answer, replays>>
      /\ pc[p] = "install" /\ pc' = [pc EXCEPT ![p] = "installing"]
      /\ VaultFree
      /\ t = cred[p].tok /\ Holds(disk, a, cred[p]) => settled' = {<<a, t>>}
  BY DEF Install, StartWrite, Goto, history
<1>2. /\ \A q \in Readers \ {p} : pc'[q] = pc[q]
      /\ pc'[p] = "installing"
  BY <1>1 DEF Base, TypeOK
<1>3. t = cred[p].tok \/ <<a, t>> \notin exposed
  BY <1>1 DEF FenceSafe, FenceInv
<1>4. \A q \in Readers : pc[q] = "send" => self[q] # a
  BY <1>1, LockedApart DEF Locked, Refreshing
<1> HIDE DEF a, t
<1>5. \A b \in Ids \ {a}, u \in Tokens : Usable(draft', b, u) <=> Usable(disk, b, u)
  BY <1>0 DEF InstallEffect, Usable, Holds, Live
<1>6. \A u \in Tokens :
        Usable(draft', a, u) => Usable(disk, a, u) \/ (Holds(disk, a, cred[p]) /\ u = t)
  <2>1. CASE Holds(disk, a, cred[p])
    <3>1. draft'.accounts[a] =
            [cred |-> [tok |-> t, pending |-> FALSE], enabled |-> disk.accounts[a].enabled]
      BY <1>0, <2>1 DEF InstallEffect
    <3>2. draft'.accounts[a].cred = [tok |-> t, pending |-> FALSE]
      BY <3>1
    <3>3. \A u \in Tokens : [tok |-> t, pending |-> FALSE] = [tok |-> u, pending |-> FALSE] => u = t
      OBVIOUS
    <3> QED BY <2>1, <3>2, <3>3 DEF Usable, Holds
  <2>2. CASE ~Holds(disk, a, cred[p])
    <3>1. draft'.accounts[a] = disk.accounts[a]
      BY <1>0, <2>2 DEF InstallEffect
    <3> QED BY <3>1 DEF Usable, Holds, Live
  <2> QED BY <2>1, <2>2
<1>7. \A e \in exposed : e \in settled' \/ ~Usable(draft', e[1], e[2])
  <2> TAKE e \in exposed
  <2>1. e \in Ids \X Tokens /\ ~Usable(disk, e[1], e[2])
    BY DEF Base, TypeOK, FenceSafe, FenceInv
  <2>2. CASE e[1] # a
    BY <1>5, <2>1, <2>2
  <2>3. CASE e[1] = a
    <3> SUFFICES ASSUME Usable(draft', a, e[2]) PROVE e \in settled'
      BY <2>3
    <3>1. Holds(disk, a, cred[p]) /\ e = <<a, t>>
      BY <1>6, <2>1, <2>3
    <3> QED BY <1>1, <1>3, <3>1
  <2> QED BY <2>2, <2>3
<1>8. \A q \in Readers : pc[q] = "send" => ~Usable(draft', self[q], cred[q].tok)
  BY <1>4, <1>5 DEF Base, ReaderInv, TypeOK, Credential, FenceSafe, FenceInv
<1>9. FenceInv'
  BY <1>1, <1>2, <1>7, <1>8, FenceStartWrite DEF FenceSafe
<1> QED BY <1>1, <1>9 DEF FenceSafe, AccountNeverReplays

NothingNewUsable ==
  \A b \in drawn \cap Ids, u \in Tokens : Usable(draft', b, u) => Usable(disk, b, u)

LEMMA FenceCommand ==
  ASSUME Base, FenceSafe, ManagerStep
  PROVE  FenceSafe'
<1>1. /\ UNCHANGED <<disk, synced, exposed, replays, pc, self, cred, answer>>
      /\ VaultFree
  BY DEF ManagerStep, Add, Remove, SetEnabled, StartWrite, reader, history
<1>2. NothingNewUsable
  <2>1. ASSUME NEW a \in Ids, NEW t \in Tokens, Add(a, t)
        PROVE NothingNewUsable
    <3>1. AddEffect(a, t)
      BY <2>1, AddDocument
    <3> QED BY <3>1 DEF AddEffect, NothingNewUsable, Usable, Holds, Live
  <2>2. ASSUME NEW a \in Ids, Remove(a)
        PROVE NothingNewUsable
    <3>1. RemoveEffect(a)
      BY <2>2, RemoveDocument
    <3> QED BY <3>1 DEF RemoveEffect, NothingNewUsable, Usable, Holds, Live
  <2>3. ASSUME NEW a \in Ids, NEW e \in BOOLEAN, SetEnabled(a, e)
        PROVE NothingNewUsable
    <3>1. SetEnabledEffect(a)
      BY <2>3, SetEnabledDocument
    <3> QED BY <3>1 DEF SetEnabledEffect, NothingNewUsable, Usable, Holds, Live
  <2> QED BY <2>1, <2>2, <2>3 DEF ManagerStep
<1>3. \A q \in Readers : pc[q] # "fencing"
  BY <1>1 DEF Base, TypeOK, ReaderInv, VaultFree
<1>4. \A e \in exposed : ~Usable(draft', e[1], e[2])
  BY <1>2 DEF NothingNewUsable, Base, TypeOK, DocumentInv, FenceSafe, FenceInv
<1>5. \A q \in Readers : pc[q] = "send" => ~Usable(draft', self[q], cred[q].tok)
  BY <1>2 DEF NothingNewUsable, Base, TypeOK, ReaderInv, Credential, FenceSafe, FenceInv
<1>6. FenceInv'
  BY <1>1, <1>3, <1>4, <1>5 DEF FenceSafe, FenceInv, Usable, Holds, Live
<1> QED BY <1>1, <1>6 DEF FenceSafe, AccountNeverReplays

LEMMA FencePowerLoss ==
  ASSUME Base, FenceSafe, PowerLoss
  PROVE  FenceSafe'
BY DEF FenceSafe, FenceInv, AccountNeverReplays, PowerLoss, history

LEMMA FenceStutter ==
  ASSUME FenceSafe, UNCHANGED vars
  PROVE  FenceSafe'
BY DEF FenceSafe, FenceInv, AccountNeverReplays, vars, vault, reader, history, Usable, Holds, Live

LEMMA FenceStep == ASSUME Fenced PROVE Base /\ FenceSafe /\ [Next]_vars => FenceSafe'
<1> SUFFICES ASSUME Base, FenceSafe, [Next]_vars PROVE FenceSafe'
  OBVIOUS
<1>1. ASSUME NEW p \in Readers, ReaderStep(p) PROVE FenceSafe'
  BY <1>1, FenceLocalSteps, FenceFence, FenceSend, FenceAnswer, FenceInstall, FenceWriteEnds
  DEF ReaderStep
<1> QED BY <1>1, FenceCommand, FenceWriteEnds, FencePowerLoss, FenceStutter DEF Next

----------------------------------------------------------------------------
(* The ledger.                                                              *)

LedgerSafe == LedgerInv /\ SharingInv /\ TokenNeverReplayed

OwnersGrow(old, new) ==
  \A t \in Tokens : old.owners[t] # None => new.owners[t] = old.owners[t]

\* A reservation never takes a token from its owner.
LEMMA ReserveGrows ==
  ASSUME NEW d \in Document, NEW a \in Ids, NEW t \in Tokens, MayReserve(d, a, t)
  PROVE  OwnersGrow(d, Reserve(d, a, t))
<1>1. CASE Ledgered
  BY <1>1, ReserveResult DEF MayReserve, OwnersGrow
<1>2. CASE ~Ledgered
  BY <1>2 DEF Reserve, OwnersGrow
<1> QED BY <1>1, <1>2

\* Every write that starts extends the ledger of the document it read, and
\* shares no token that document does not share.
LEMMA LedgerFenceDraft ==
  ASSUME Base, SharingInv, Ledgered, NEW p \in Readers, Fence(p)
  PROVE  /\ OwnersGrow(disk, draft') /\ Unshared(draft')
         /\ draft'.owners[cred[p].tok] = self[p] /\ cred'[p].tok = cred[p].tok
<1> DEFINE a == self[p]
           latest == Marked(cred[p])
<1>1. FenceEffect(p, a, latest)
  BY FenceDocument
<1>2. MayReserve(disk, a, cred[p].tok)
  BY <1>1 DEF Fence, FenceEffect
<1> HIDE DEF a, latest
<1>3. /\ a \in Ids /\ cred[p].tok \in Tokens /\ disk \in Document /\ latest.tok = cred[p].tok
      /\ cred'[p] = latest
  BY <1>1 DEF Base, TypeOK, FenceEffect
<1>4. OwnersGrow(disk, draft') /\ draft'.owners[cred[p].tok] = a
  BY <1>1, <1>2, <1>3, ReserveGrows, ReserveResult DEF FenceEffect, OwnersGrow
<1>5. \A b \in Ids : Live(draft', b) => Live(disk, b) /\ draft'.accounts[b].cred.tok = disk.accounts[b].cred.tok
  BY <1>1 DEF FenceEffect, Live
<1>6. Unshared(draft')
  BY <1>5 DEF SharingInv, Unshared
<1> QED BY <1>3, <1>4, <1>6 DEF a

LEMMA LedgerInstallDraft ==
  ASSUME Base, SharingInv, Ledgered, NEW p \in Readers, Install(p)
  PROVE  OwnersGrow(disk, draft') /\ Unshared(draft')
<1> DEFINE a == self[p]
           t == answer[p]
<1>1. InstallEffect(p, a, t)
  BY InstallDocument
<1>2. MayReserve(disk, a, t)
  BY DEF Install
<1> HIDE DEF a, t
<1>3. a \in Ids /\ t \in Tokens /\ disk \in Document
  BY <1>1 DEF Base, TypeOK, InstallEffect
<1>4. OwnersGrow(disk, draft')
  BY <1>1, <1>2, <1>3, ReserveGrows DEF InstallEffect, OwnersGrow
<1>5. /\ \A b \in Ids : Live(draft', b) => Live(disk, b)
      /\ \A b \in Ids \ {a} : draft'.accounts[b] = disk.accounts[b]
      /\ Live(draft', a) => draft'.accounts[a].cred.tok \in {t, disk.accounts[a].cred.tok}
  <2>1. CASE Holds(disk, a, cred[p])
    <3>1. /\ draft'.accounts[a] =
               [cred |-> [tok |-> t, pending |-> FALSE], enabled |-> disk.accounts[a].enabled]
          /\ Live(disk, a)
      BY <1>1, <2>1 DEF InstallEffect, Holds
    <3>2. draft'.accounts[a].cred = [tok |-> t, pending |-> FALSE]
      BY <3>1
    <3>3. draft'.accounts[a].cred.tok = t
      BY <3>2
    <3> QED BY <1>1, <3>1, <3>3 DEF InstallEffect, Live
  <2>2. CASE ~Holds(disk, a, cred[p])
    BY <1>1, <2>2 DEF InstallEffect, Live
  <2> QED BY <2>1, <2>2
<1>6. \A b \in Ids \ {a} : Live(disk, b) => disk.accounts[b].cred.tok # t
  BY <1>2 DEF MayReserve
<1>7. Unshared(draft')
  <2> SUFFICES ASSUME NEW x \in Ids, NEW y \in Ids, Live(draft', x), Live(draft', y), x # y
               PROVE  draft'.accounts[x].cred.tok # draft'.accounts[y].cred.tok
    BY DEF Unshared
  <2>1. disk.accounts[x].cred.tok # disk.accounts[y].cred.tok
    BY <1>5 DEF SharingInv, Unshared
  <2> QED BY <1>3, <1>5, <1>6, <2>1
<1> QED BY <1>4, <1>7

LEMMA LedgerManagerDraft ==
  ASSUME Base, SharingInv, Ledgered, ManagerStep
  PROVE  OwnersGrow(disk, draft') /\ Unshared(draft')
<1>1. ASSUME NEW a \in Ids, NEW t \in Tokens, Add(a, t)
      PROVE  OwnersGrow(disk, draft') /\ Unshared(draft')
  <2>1. AddEffect(a, t) /\ MayReserve(disk, a, t) /\ disk \in Document
    BY <1>1, AddDocument DEF Base, TypeOK, Add
  <2>2. OwnersGrow(disk, draft')
    BY <2>1, ReserveGrows DEF AddEffect, OwnersGrow
  <2>3. /\ \A b \in Ids \ {a} : draft'.accounts[b] = disk.accounts[b]
        /\ draft'.accounts[a].cred.tok = t
        /\ \A b \in Ids \ {a} : Live(disk, b) => disk.accounts[b].cred.tok # t
    BY <1>1, <2>1 DEF AddEffect, MayReserve
  <2>4. Unshared(draft')
    BY <2>3 DEF SharingInv, Unshared, Live
  <2> QED BY <2>2, <2>4
<1>2. ASSUME NEW a \in Ids, Remove(a)
      PROVE  OwnersGrow(disk, draft') /\ Unshared(draft')
  <2>1. RemoveEffect(a)
    BY <1>2, RemoveDocument
  <2>2. disk.accounts[a].cred.tok \in Tokens /\ disk \in Document
    BY <1>2, LiveAccount DEF Base, TypeOK, Remove, Credential
  <2>3. MayReserve(disk, a, disk.accounts[a].cred.tok)
    BY <1>2 DEF Remove
  <2>4. OwnersGrow(disk, draft')
    BY <2>1, <2>2, <2>3, ReserveGrows DEF RemoveEffect, OwnersGrow
  <2>5. Unshared(draft')
    BY <2>1 DEF RemoveEffect, SharingInv, Unshared, Live
  <2> QED BY <2>4, <2>5
<1>3. ASSUME NEW a \in Ids, NEW e \in BOOLEAN, SetEnabled(a, e)
      PROVE  OwnersGrow(disk, draft') /\ Unshared(draft')
  <2>1. SetEnabledEffect(a)
    BY <1>3, SetEnabledDocument
  <2>2. OwnersGrow(disk, draft')
    BY <2>1 DEF SetEnabledEffect, OwnersGrow
  <2>3. \A b \in Ids :
          Live(draft', b) => Live(disk, b) /\ draft'.accounts[b].cred.tok = disk.accounts[b].cred.tok
    BY <2>1 DEF SetEnabledEffect, Live
  <2>4. Unshared(draft')
    BY <2>3 DEF SharingInv, Unshared
  <2> QED BY <2>2, <2>4
<1> QED BY <1>1, <1>2, <1>3 DEF ManagerStep

LEMMA LedgerStartWrite ==
  ASSUME Base, LedgerSafe, VaultFree,
         disk' = disk, synced' = synced, exposed' = exposed, replays' = replays, self' = self,
         \A q \in Readers : cred'[q] = cred[q] \/ cred'[q].tok = cred[q].tok,
         OwnersGrow(disk, draft'), Unshared(draft'),
         \A q \in Readers :
           \/ pc'[q] \notin {"fencing", "send"}
           \/ pc'[q] = pc[q]
           \/ pc'[q] = "fencing" /\ draft'.owners[cred[q].tok] = self[q]
  PROVE  LedgerSafe'
<1>1. draft = disk /\ \A q \in Readers : pc[q] # "fencing"
  BY DEF Base, TypeOK, DocumentInv, ReaderInv, VaultFree
<1>2. \A e \in exposed : e[1] \in Ids /\ e[2] \in Tokens /\ e[1] # None
  BY DEF Base, TypeOK
<1>3. \A q \in Readers : pc[q] = "send" => self[q] # None /\ cred[q].tok \in Tokens
  BY DEF Base, TypeOK, ReaderInv, Credential
<1>4. \A e \in exposed' :
        disk'.owners[e[2]] = e[1] /\ synced'.owners[e[2]] = e[1] /\ draft'.owners[e[2]] = e[1]
  BY <1>2 DEF LedgerSafe, LedgerInv, OwnersGrow
<1>5. ASSUME NEW q \in Readers
      PROVE  /\ pc'[q] \in {"fencing", "send"} => draft'.owners[cred'[q].tok] = self'[q]
             /\ pc'[q] = "send" =>
                  disk'.owners[cred'[q].tok] = self'[q] /\ synced'.owners[cred'[q].tok] = self'[q]
  BY <1>1, <1>3 DEF LedgerSafe, LedgerInv, OwnersGrow
<1> QED BY <1>4, <1>5 DEF LedgerSafe, LedgerInv, SharingInv, Unshared, Live, TokenNeverReplayed

LEMMA LedgerInit == Init => LedgerSafe
BY DEF Init, LedgerSafe, LedgerInv, SharingInv, Unshared, Live, EmptyDocument, TokenNeverReplayed

LEMMA LedgerLocalSteps ==
  ASSUME Ledgered, Base, LedgerSafe, NEW p \in Readers,
         \/ \E a \in Ids : Read(p, a)
         \/ Quota(p) \/ Verify(p) \/ Lock(p) \/ Recheck(p) \/ Abandon(p)
         \/ \E t \in Tokens : Answer(p, t)
  PROVE  LedgerSafe'
<1>1. /\ UNCHANGED <<disk, synced, draft, exposed, replays>>
      /\ \A q \in Readers \ {p} :
           pc'[q] = pc[q] /\ self'[q] = self[q] /\ cred'[q] = cred[q]
      /\ pc'[p] \notin {"fencing", "send"}
  BY DEF Base, TypeOK, Read, Quota, Verify, Lock, Recheck, Abandon, Answer, Finish, Goto, vault,
         history
<1> QED BY <1>1 DEF LedgerSafe, LedgerInv, SharingInv, Unshared, Live, TokenNeverReplayed

LEMMA LedgerWriteStarts ==
  ASSUME Ledgered, Base, LedgerSafe,
         (\E p \in Readers : Fence(p) \/ Install(p)) \/ ManagerStep
  PROVE  LedgerSafe'
<1>1. ASSUME NEW p \in Readers, Fence(p) PROVE LedgerSafe'
  <2>1. /\ OwnersGrow(disk, draft') /\ Unshared(draft')
        /\ draft'.owners[cred[p].tok] = self[p] /\ cred'[p].tok = cred[p].tok
    BY <1>1, LedgerFenceDraft DEF LedgerSafe
  <2>2. /\ UNCHANGED <<disk, synced, exposed, replays, self>> /\ VaultFree
        /\ \A q \in Readers \ {p} : pc'[q] = pc[q] /\ cred'[q] = cred[q]
        /\ pc'[p] = "fencing"
    BY <1>1 DEF Base, TypeOK, Fence, StartWrite, Goto, history
  <2> QED BY <2>1, <2>2, LedgerStartWrite
<1>2. ASSUME NEW p \in Readers, Install(p) PROVE LedgerSafe'
  <2>1. OwnersGrow(disk, draft') /\ Unshared(draft')
    BY <1>2, LedgerInstallDraft DEF LedgerSafe
  <2>2. /\ UNCHANGED <<disk, synced, exposed, replays, self, cred>> /\ VaultFree
        /\ \A q \in Readers \ {p} : pc'[q] = pc[q]
        /\ pc'[p] = "installing"
    BY <1>2 DEF Base, TypeOK, Install, StartWrite, Goto, history
  <2> QED BY <2>1, <2>2, LedgerStartWrite
<1>3. ASSUME ManagerStep PROVE LedgerSafe'
  <2>1. OwnersGrow(disk, draft') /\ Unshared(draft')
    BY <1>3, LedgerManagerDraft DEF LedgerSafe
  <2>2. UNCHANGED <<disk, synced, exposed, replays, pc, self, cred>> /\ VaultFree
    BY <1>3 DEF ManagerStep, Add, Remove, SetEnabled, StartWrite, reader, history
  <2> QED BY <2>1, <2>2, LedgerStartWrite
<1> QED BY <1>1, <1>2, <1>3

LEMMA LedgerWriteEnds ==
  ASSUME Ledgered, Base, LedgerSafe,
         \/ \E p \in Readers : FenceWritten(p) \/ InstallWritten(p) \/ WriteGoesWrong(p)
         \/ UnattendedWrite
  PROVE  LedgerSafe'
<1>1. /\ exposed' \subseteq exposed /\ replays' = replays
      /\ disk' \in {disk, draft} /\ draft' = disk' /\ synced' \in {synced, draft}
  BY DEF FenceWritten, InstallWritten, WriteGoesWrong, UnattendedWrite, EndWrite, Replace, Keep
<1>2. \A q \in Readers : AfterWrite(q)
  BY AfterWriteEnds
<1>3. \A e \in exposed' :
        disk'.owners[e[2]] = e[1] /\ synced'.owners[e[2]] = e[1] /\ draft'.owners[e[2]] = e[1]
  BY <1>1 DEF LedgerSafe, LedgerInv
<1>4. ASSUME NEW q \in Readers, pc'[q] \in {"fencing", "send"}
      PROVE  /\ pc'[q] = "send"
             /\ disk'.owners[cred'[q].tok] = self'[q] /\ synced'.owners[cred'[q].tok] = self'[q]
             /\ draft'.owners[cred'[q].tok] = self'[q]
  BY <1>1, <1>2, <1>4 DEF LedgerSafe, LedgerInv, AfterWrite
<1>5. SharingInv'
  BY <1>1 DEF LedgerSafe, SharingInv, Unshared, Live
<1> QED BY <1>1, <1>3, <1>4, <1>5 DEF LedgerSafe, LedgerInv, TokenNeverReplayed

\* The fence keeps the account from replaying; the ledger names it as the only
\* account that could.
LEMMA LedgerSend ==
  ASSUME Base, FenceSafe, LedgerSafe, NEW p \in Readers, Send(p)
  PROVE  LedgerSafe'
<1> DEFINE a == self[p]
           t == cred[p].tok
<1>1. /\ <<a, t>> \notin exposed
      /\ disk.owners[t] = a /\ synced.owners[t] = a /\ draft.owners[t] = a
  BY DEF FenceSafe, FenceInv, LedgerSafe, LedgerInv, Send
<1>2. \A e \in exposed : e[2] # t
  BY <1>1 DEF Base, TypeOK, LedgerSafe, LedgerInv
<1>3. /\ UNCHANGED <<disk, synced, draft, self, cred>>
      /\ exposed' = exposed \cup {<<a, t>>}
      /\ pc'[p] = "sent" /\ \A q \in Readers \ {p} : pc'[q] = pc[q]
      /\ replays' = replays \cup {<<e[1], a, t>> : e \in {x \in exposed : x[2] = t}}
  BY DEF Base, TypeOK, Send, Goto, vault
<1> HIDE DEF a, t
<1>4. replays' = {}
  BY <1>2, <1>3 DEF LedgerSafe, TokenNeverReplayed
<1>5. \A e \in exposed' :
        disk'.owners[e[2]] = e[1] /\ synced'.owners[e[2]] = e[1] /\ draft'.owners[e[2]] = e[1]
  BY <1>1, <1>3 DEF LedgerSafe, LedgerInv
<1> QED BY <1>3, <1>4, <1>5
    DEF LedgerSafe, LedgerInv, SharingInv, Unshared, Live, TokenNeverReplayed

LEMMA LedgerPowerLoss ==
  ASSUME LedgerSafe, PowerLoss
  PROVE  LedgerSafe'
BY DEF LedgerSafe, LedgerInv, SharingInv, Unshared, Live, TokenNeverReplayed, PowerLoss, history

LEMMA LedgerStutter ==
  ASSUME LedgerSafe, UNCHANGED vars
  PROVE  LedgerSafe'
BY DEF LedgerSafe, LedgerInv, SharingInv, Unshared, Live, TokenNeverReplayed, vars, vault, reader,
       history

LEMMA LedgerStep ==
  ASSUME Ledgered PROVE Base /\ FenceSafe /\ LedgerSafe /\ [Next]_vars => LedgerSafe'
<1> SUFFICES ASSUME Base, FenceSafe, LedgerSafe, [Next]_vars PROVE LedgerSafe'
  OBVIOUS
<1>1. ASSUME NEW p \in Readers, ReaderStep(p) PROVE LedgerSafe'
  BY <1>1, LedgerLocalSteps, LedgerWriteStarts, LedgerWriteEnds, LedgerSend DEF ReaderStep
<1> QED BY <1>1, LedgerWriteStarts, LedgerWriteEnds, LedgerPowerLoss, LedgerStutter DEF Next

----------------------------------------------------------------------------
(* What a refresh installs.                                                 *)

\* The document a reader waits to have written is the one on disk, but for the
\* credential of its account: nobody else writes in between.
SameButFor(mine, old, new) ==
  \A a \in Ids :
    /\ Live(new, a) <=> Live(old, a)
    /\ Live(old, a) =>
         /\ new.accounts[a].enabled = old.accounts[a].enabled
         /\ a = mine \/ new.accounts[a].cred = old.accounts[a].cred

InstallInv == \A p \in Readers : pc[p] = "installing" => SameButFor(self[p], disk, draft)

LEMMA InstallDrafts ==
  ASSUME Base, NEW p \in Readers, Install(p)
  PROVE  disk' = disk /\ SameButFor(self[p], disk, draft')
<1> DEFINE a == self[p]
           u == [cred |-> [tok |-> answer[p], pending |-> FALSE],
                 enabled |-> disk.accounts[a].enabled]
<1>1. /\ a \in Ids /\ disk' = disk
      /\ \A b \in Ids \ {a} : draft'.accounts[b] = disk.accounts[b]
      /\ draft'.accounts[a] = disk.accounts[a]
         \/ (Holds(disk, a, cred[p]) /\ draft'.accounts[a] = u)
  BY InstallDocument DEF InstallEffect, Base, TypeOK, ReaderInv, Install, StartWrite
<1>2. Holds(disk, a, cred[p]) => Live(disk, a) /\ u \in Account
  <2>1. Holds(disk, a, cred[p]) => disk.accounts[a] \in Account
    BY <1>1 DEF Base, TypeOK, Document, Holds, Live
  <2>2. answer[p] \in Tokens
    BY DEF Base, TypeOK, ReaderInv, Install
  <2> QED BY <2>1, <2>2 DEF Holds, Account, Credential
<1>3. u.enabled = disk.accounts[a].enabled
  OBVIOUS
<1> HIDE DEF a, u
<1>4. SameButFor(a, disk, draft')
  <2>1. \A b \in Ids : b # a => draft'.accounts[b] = disk.accounts[b]
    BY <1>1
  <2>2. u \in Account => u # None
    OBVIOUS
  <2>3. Live(draft', a) <=> Live(disk, a)
    BY <1>1, <1>2, <2>2 DEF Live
  <2>4. draft'.accounts[a].enabled = disk.accounts[a].enabled
    BY <1>1, <1>3
  <2> QED BY <2>1, <2>3, <2>4 DEF SameButFor, Live
<1> QED BY <1>1, <1>4 DEF a

LEMMA InstallStep ==
  ASSUME Base, InstallInv, [Next]_vars
  PROVE  InstallInv'
<1> SUFFICES ASSUME NEW q \in Readers, pc'[q] = "installing"
             PROVE  SameButFor(self[q], disk, draft)'
  BY DEF InstallInv
<1>1. /\ pc \in [Readers -> Steps] /\ self \in [Readers -> Ids \cup {None}]
      /\ pc[q] = "installing" => writer = q /\ SameButFor(self[q], disk, draft)
      /\ \A p \in Readers : writer = p => p # None
  BY DEF Base, TypeOK, ReaderInv, InstallInv
<1>2. ASSUME UNCHANGED <<disk, draft>>, self'[q] = self[q], pc[q] = "installing"
      PROVE  SameButFor(self[q], disk, draft)'
  BY <1>1, <1>2 DEF SameButFor, Live
<1>3. ASSUME NEW p \in Readers, ReaderStep(p) PROVE SameButFor(self[q], disk, draft)'
  <2>1. CASE Install(p) /\ p = q
    <3>1. disk' = disk /\ SameButFor(self[q], disk, draft') /\ self' = self
      BY <2>1, InstallDrafts DEF Install
    <3> QED BY <3>1 DEF SameButFor, Live
  <2>2. CASE Install(p) /\ p # q
    <3>1. pc[q] = "installing" /\ VaultFree
      BY <1>1, <2>2 DEF Install, Goto
    <3> QED BY <1>1, <3>1 DEF VaultFree
  <2>3. CASE (\E a \in Ids : Read(p, a)) \/ Verify(p) \/ Recheck(p) \/ Fence(p)
    <3>1. pc'[q] = pc[q] \/ pc'[q] # "installing"
      BY <1>1, <2>3 DEF Read, Verify, Recheck, Fence, Finish, Goto
    <3>2. VaultFree
      BY <2>3 DEF Read, Verify, Recheck, Fence
    <3> QED BY <1>1, <3>1, <3>2 DEF VaultFree
  <2>4. CASE Quota(p) \/ Lock(p) \/ Send(p) \/ (\E t \in Tokens : Answer(p, t)) \/ Abandon(p)
    <3>1. UNCHANGED <<disk, draft>> /\ pc[q] = "installing"
      BY <1>1, <2>4 DEF Quota, Lock, Send, Answer, Abandon, Finish, Goto, vault
    <3>2. self'[q] = self[q]
      BY <1>1, <2>4 DEF Quota, Lock, Send, Answer, Abandon, Finish, Goto
    <3> QED BY <1>2, <3>1, <3>2
  <2>5. CASE FenceWritten(p) \/ InstallWritten(p) \/ WriteGoesWrong(p)
    <3>1. writer = p /\ pc'[p] # "installing"
      BY <1>1, <2>5 DEF FenceWritten, InstallWritten, WriteGoesWrong, Waits, Finish, Goto
    <3>2. q # p /\ pc'[q] = pc[q]
      BY <1>1, <2>5, <3>1 DEF FenceWritten, InstallWritten, WriteGoesWrong, Finish, Goto
    <3> QED BY <1>1, <3>1, <3>2
  <2> QED BY <1>3, <2>1, <2>2, <2>3, <2>4, <2>5 DEF ReaderStep
<1>4. CASE ManagerStep
  <2>1. VaultFree /\ pc' = pc
    BY <1>4 DEF ManagerStep, Add, Remove, SetEnabled, reader
  <2> QED BY <1>1, <2>1 DEF VaultFree
<1>5. CASE UnattendedWrite
  <2>1. pc' = pc /\ ~\E p \in Readers : Waits(p)
    BY <1>5 DEF UnattendedWrite, reader
  <2> QED BY <1>1, <2>1 DEF Waits
<1>6. CASE PowerLoss
  BY <1>6 DEF PowerLoss
<1>7. CASE UNCHANGED vars
  BY <1>2, <1>7 DEF vars, vault, reader
<1> QED BY <1>3, <1>4, <1>5, <1>6, <1>7 DEF Next

----------------------------------------------------------------------------
(* The theorems.                                                            *)

\* The inductive invariant.
THEOREM Inductive == Spec => []IInv
<1> DEFINE Safe == Base /\ (Fenced => FenceSafe) /\ (Ledgered => LedgerSafe)
<1>1. Init => Safe
  BY BaseInit, FenceInit, LedgerInit
<1>2. Safe /\ [Next]_vars => Safe'
  BY BaseStep, FenceStep, LedgerStep
<1>3. Safe => IInv
  BY DEF Base, FenceSafe, LedgerSafe, IInv
<1> QED BY <1>1, <1>2, <1>3, PTL DEF Spec

\* Every variable keeps its type.
THEOREM TypeCorrect == Spec => []TypeOK
<1>1. IInv => TypeOK
  BY DEF IInv
<1> QED BY <1>1, Inductive, PTL

\* The fenced kinds: no account presents a token again after a presentation
\* whose outcome was lost, whatever is dropped, killed, written or not written.
THEOREM FencedNeverReplays ==
  ASSUME Fenced
  PROVE  Spec => []AccountNeverReplays
<1>1. IInv => AccountNeverReplays
  BY DEF IInv
<1> QED BY <1>1, Inductive, PTL

\* The fence is durable before the request leaves: neither the document on disk
\* nor the one a power loss restores lets a read pick up a presented token.
THEOREM FenceDurable ==
  ASSUME Fenced
  PROVE  Spec => []FenceIsDurable
<1>1. IInv => FenceIsDurable
  BY DEF IInv, FenceInv, FenceIsDurable
<1> QED BY <1>1, Inductive, PTL

\* The ledgered kinds: no account at all presents a token again, whatever is
\* removed and registered in between.
THEOREM LedgeredNeverReplayed ==
  ASSUME Ledgered
  PROVE  Spec => []TokenNeverReplayed
<1>1. IInv => TokenNeverReplayed
  BY DEF IInv
<1> QED BY <1>1, Inductive, PTL

\* A presented token keeps its owner in the ledger, on disk and after a power
\* loss, for ever.
THEOREM LineageDurable ==
  ASSUME Ledgered
  PROVE  Spec => []LineageIsDurable
<1>1. IInv => LineageIsDurable
  BY DEF IInv, LedgerInv, LineageIsDurable
<1> QED BY <1>1, Inductive, PTL

\* Two saved accounts never share a refresh token.
THEOREM TokensUnshared ==
  ASSUME Ledgered
  PROVE  Spec => []NoSharedToken
<1>1. IInv => NoSharedToken
  BY DEF IInv, SharingInv, NoSharedToken
<1> QED BY <1>1, Inductive, PTL

\* A refresh that ends after its account was removed, disabled or joined by another
\* changes no account's presence or switch, and no other credential (ManagedProvider::read).
THEOREM RefreshesRespectManagement == Spec => RefreshRespectsManagement
<1>1. Init => InstallInv
  BY DEF Init, InstallInv
<1>2. IInv => Base
  BY DEF IInv, Base
<1>3. Base /\ InstallInv /\ [Next]_vars => InstallInv'
  BY InstallStep
<1>4. Base /\ InstallInv =>
        ((\E p \in Readers : InstallWritten(p)) => ChangesOnlyOneCredential(disk, disk'))
  <2> SUFFICES ASSUME Base, InstallInv, NEW p \in Readers, InstallWritten(p)
               PROVE  ChangesOnlyOneCredential(disk, disk')
    OBVIOUS
  <2>1. disk' = draft /\ pc[p] = "installing" /\ self[p] \in Ids
    BY DEF InstallWritten, Replace, Base, TypeOK, ReaderInv
  <2>2. SameButFor(self[p], disk, draft)
    BY <2>1 DEF InstallInv
  <2> QED BY <2>1, <2>2 DEF SameButFor, ChangesOnlyOneCredential
<1>5. Spec => []Base
  BY <1>2, Inductive, PTL
<1> QED BY <1>1, <1>3, <1>4, <1>5, PTL DEF Spec, RefreshRespectsManagement
==============================================================================
