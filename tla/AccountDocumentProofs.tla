-------------------------- MODULE AccountDocumentProofs --------------------------
(****************************************************************************)
(* The vault document stays sound, for every set of accounts, tokens, keys,  *)
(* kinds, tasks, processes and builds: IInv is inductive.  A transaction is  *)
(* followed from what it read (Understood) over its change (Outcome) to what *)
(* it writes (Final).                                                        *)
(****************************************************************************)
EXTENDS AccountDocument, FiniteSetTheorems, TLAPS

USE KindsAreKnown, NoneIsNothing, ReceiptsAreCounted

----------------------------------------------------------------------------
(* The tables of formats.                                                   *)

LEMMA RotatingKinds == Rotating = {"factory", "claude", "kiro", "antigravity"}
  BY DEF Rotating, TableFormat

LEMMA TableFormats ==
  /\ TableFormat["factory"] = 5 /\ TableFormat["claude"] = 6
  /\ TableFormat["kiro"] = 7 /\ TableFormat["antigravity"] = 8
  BY DEF TableFormat

LEMMA KnownKinds ==
  \A k \in Kinds : k \in {"key", "native", "factory", "claude", "copilot", "kiro", "antigravity"}
  BY DEF Since

LEMMA SinceFormats ==
  /\ Since["key"] = 1 /\ Since["native"] = 3 /\ Since["factory"] = 4 /\ Since["claude"] = 6
  /\ Since["copilot"] = 6 /\ Since["kiro"] = 7 /\ Since["antigravity"] = 8
  BY DEF Since

LEMMA FormatsOfKinds ==
  /\ \A k \in Rotating : TableFormat[k] \in 5..8
  /\ \A k \in Kinds : Since[k] \in 1..8
  /\ \A k \in Kinds \cap Rotating : k # "factory" => Since[k] = TableFormat[k]
  /\ \A k \in Kinds \ Rotating : k \notin {"native", "copilot"} => Since[k] = 1
  BY RotatingKinds, TableFormats, KnownKinds, SinceFormats

LEMMA TablesOfBuilds ==
  ASSUME NEW b \in Builds
  PROVE  /\ b \in Build /\ b.format \in 1..8 /\ b.tables \subseteq Rotating
         /\ \A k \in Rotating : TableFormat[k] <= b.format => k \in b.tables
         /\ \A k \in b.tables : k # "factory" => TableFormat[k] <= b.format
<1>1. b \in Build /\ b.format \in 1..8 /\ b.tables \subseteq Rotating
  BY BuildsAreBuilds DEF Build
<1>2. \A k \in Rotating \ {"factory"} : k \in b.tables <=> TableFormat[k] <= b.format
  BY BuildsAreBuilds
<1>3. b.format >= 5 => "factory" \in b.tables
  BY BuildsAreBuilds
<1> QED BY <1>1, <1>2, <1>3, TableFormats

----------------------------------------------------------------------------
(* What the operators make of a document.                                   *)

LEMMA Fields ==
  ASSUME NEW d \in Document
  PROVE  /\ d.version \in 1..8 /\ d.accounts \in [Ids -> {None} \cup Account]
         /\ d.receipts \in SUBSET Keys
         /\ d.owners \in [Rotating -> [Tokens -> {None} \cup Ids]]
         /\ Live(d) \subseteq Ids /\ \A a \in Live(d) : d.accounts[a] \in Account
  BY DEF Document, Live

LEMMA CredentialFields ==
  ASSUME NEW c \in Credential
  PROVE  /\ c.kind \in Kinds
         /\ c.kind \in Rotating => c.token \in Tokens
         /\ c = [kind |-> c.kind, token |-> c.token]
  BY DEF Credential

LEMMA AtLeastResult ==
  ASSUME NEW d \in Document, NEW v \in 1..8
  PROVE  /\ AtLeast(d, v) \in Document
         /\ AtLeast(d, v).version >= d.version /\ AtLeast(d, v).version >= v
         /\ AtLeast(d, v).accounts = d.accounts /\ AtLeast(d, v).receipts = d.receipts
         /\ AtLeast(d, v).owners = d.owners
<1>1. d.version \in 1..8
  BY Fields
<1>2. AtLeast(d, v) = [d EXCEPT !.version = IF d.version < v THEN v ELSE d.version]
  BY DEF AtLeast
<1> QED BY <1>1, <1>2 DEF Document

\* Reserving a token for an account leaves every reservation there was.
LEMMA ReserveResult ==
  ASSUME NEW b \in Builds, NEW d \in Document, NEW a \in Ids, NEW c \in Credential,
         MayReserve(b, d, a, c),
         NEW r, r = Reserve(b, d, a, c)
  PROVE  /\ r \in Document /\ r.version >= d.version
         /\ r.accounts = d.accounts /\ r.receipts = d.receipts
         /\ \A k \in Rotating \ b.tables : r.owners[k] = d.owners[k]
         /\ \A k \in Rotating, t \in Tokens :
              d.owners[k][t] # None => r.owners[k][t] = d.owners[k][t]
         /\ c.kind \in b.tables => r.owners[c.kind][c.token] = a
<1>1. CASE c.kind \notin b.tables
  BY <1>1, Fields DEF Reserve, Document
<1>2. CASE c.kind \in b.tables
  <2> DEFINE e == [d EXCEPT !.owners[c.kind][c.token] = a]
  <2>1. c.kind \in Rotating /\ c.token \in Tokens
    BY <1>2, TablesOfBuilds, CredentialFields
  <2>2. e \in Document /\ e.version = d.version /\ e.accounts = d.accounts /\ e.receipts = d.receipts
    BY <2>1 DEF Document
  <2>3. e.owners = [d.owners EXCEPT ![c.kind][c.token] = a]
    BY DEF Document
  <2>4. Format(b, c.kind) \in 1..8
    BY <2>1, FormatsOfKinds DEF Format, Asked
  <2>5. r = AtLeast(e, Format(b, c.kind))
    BY <1>2 DEF Reserve
  <2>6. d.owners[c.kind][c.token] \in {None, a}
    BY <1>2 DEF MayReserve
  <2>7. d.owners \in [Rotating -> [Tokens -> {None} \cup Ids]]
    BY Fields
  <2> HIDE DEF e
  <2>8. /\ r \in Document /\ r.version >= d.version
        /\ r.accounts = d.accounts /\ r.receipts = d.receipts /\ r.owners = e.owners
    BY <2>2, <2>4, <2>5, AtLeastResult
  <2> QED BY <1>2, <2>1, <2>3, <2>6, <2>7, <2>8
<1> QED BY <1>1, <1>2

\* A build that accepts a sound document understands a sound one, of the same
\* format and accounts, with the tables that are reserved in that format.
LEMMA UnderstoodResult ==
  ASSUME NEW b \in Builds, NEW d \in Document, Sound(d), Accepts(b, d),
         NEW u, u = Understood(b, d)
  PROVE  /\ u \in Document /\ Sound(u) /\ u.version = d.version /\ d.version <= b.format
         /\ u.accounts = d.accounts /\ u.receipts = d.receipts
         /\ \A k \in Rotating \ b.tables, t \in Tokens : u.owners[k][t] = None
         /\ \A k \in b.tables : u.owners[k] = d.owners[k]
<1>1. d.version <= b.format /\ Parses(b, d) /\ InFormat(u)
  BY DEF Accepts
<1>2. /\ d.accounts \in [Ids -> {None} \cup Account]
      /\ d.owners \in [Rotating -> [Tokens -> {None} \cup Ids]]
      /\ d.version \in 1..8 /\ d.receipts \in SUBSET Keys
  BY Fields
<1> DEFINE acc == [a \in Ids |-> IF d.accounts[a] # None /\ b.format < 4
                                 THEN [d.accounts[a] EXCEPT !.enabled = TRUE]
                                 ELSE d.accounts[a]]
           rec == IF b.format < 2 THEN {} ELSE d.receipts
           own == [k \in Rotating |-> IF k \in b.tables THEN d.owners[k]
                                      ELSE [t \in Tokens |-> None]]
<1>3. u = [d EXCEPT !.accounts = acc, !.receipts = rec, !.owners = own]
  BY DEF Understood
\* The fields it does not know are as it takes them to be.
<1>4. acc = d.accounts
  <2> SUFFICES ASSUME NEW a \in Ids PROVE acc[a] = d.accounts[a]
    BY <1>2
  <2>1. CASE d.accounts[a] = None \/ b.format >= 4
    BY <2>1, TablesOfBuilds
  <2>2. CASE d.accounts[a] # None /\ b.format < 4
    <3>1. d.accounts[a] \in Account /\ a \in Live(d)
      BY <1>2, <2>2 DEF Live
    <3>2. d.accounts[a].enabled = TRUE
      <4>1. d.version < 4
        BY <1>1, <1>2, <2>2, TablesOfBuilds
      <4>2. (\E o \in Live(d) : ~d.accounts[o].enabled) => d.version >= 4
        BY DEF Sound, InFormat
      <4>3. d.accounts[a].enabled \in BOOLEAN
        BY <3>1 DEF Account
      <4> QED BY <1>2, <3>1, <4>1, <4>2, <4>3
    <3>3. [d.accounts[a] EXCEPT !.enabled = TRUE] = d.accounts[a]
      BY <3>1, <3>2 DEF Account
    <3> QED BY <2>2, <3>3
  <2> QED BY <2>1, <2>2, TablesOfBuilds
<1>6. /\ own \in [Rotating -> [Tokens -> {None} \cup Ids]]
      /\ \A k \in Rotating \ b.tables, t \in Tokens : own[k][t] = None
      /\ \A k \in b.tables : own[k] = d.owners[k]
  BY <1>2, TablesOfBuilds
<1>7. rec = d.receipts
  <2>1. d.receipts # {} => d.version >= 2
    BY DEF Sound, InFormat
  <2>2. CASE b.format < 2
    BY <1>1, <1>2, <2>1, <2>2, TablesOfBuilds
  <2>3. CASE ~(b.format < 2)
    BY <2>3
  <2> QED BY <2>2, <2>3
<1> HIDE DEF acc, own, rec
<1>8. /\ u \in Document /\ u.version = d.version /\ u.accounts = d.accounts
      /\ u.owners = own /\ u.receipts = d.receipts
  BY <1>2, <1>3, <1>4, <1>6, <1>7 DEF Document
<1>9. Live(u) = Live(d) /\ \A p \in Providers : Of(u, p) = Of(d, p)
  BY <1>8 DEF Live, Of
<1>10. OneActiveIn(u) /\ DistinctIn(u) /\ IsFiniteSet(u.receipts)
  BY <1>8, <1>9 DEF Sound, OneActiveIn, DistinctIn
<1> QED BY <1>1, <1>6, <1>8, <1>10 DEF Sound
----------------------------------------------------------------------------
(* What a change may make of the document a transaction has read.           *)

\* A build reserves nothing in a table it does not know.
OnlyKnown(b, d) == \A k \in Rotating \ b.tables : \A t \in Tokens : d.owners[k][t] = None

\* Every account is of the document's format, or will be once the document is
\* upgraded for the tables in it.
Covered(b, d) ==
  \A a \in Live(d) :
    \/ d.accounts[a].credential.kind = "factory"
    \/ Since[d.accounts[a].credential.kind] <= d.version
    \/ /\ d.accounts[a].credential.kind \in b.tables
       /\ Reserved(d, d.accounts[a].credential.kind)

\* An account has a token that was reserved for another only if it had it already.
TokensStay(u, d) ==
  \A a \in Live(d), k \in Rotating, t \in Tokens :
    /\ d.accounts[a].credential = [kind |-> k, token |-> t]
    /\ u.owners[k][t] \notin {None, a}
    => a \in Live(u) /\ u.accounts[a].credential = [kind |-> k, token |-> t]

\* No account is enabled, or disabled.
EnabledStays(u, d) ==
  \A o \in Live(u) \cap Live(d) : d.accounts[o].enabled = u.accounts[o].enabled

Outcome(b, u, d) ==
  /\ d \in Document /\ d.version >= u.version /\ d.receipts = u.receipts
  /\ OnlyKnown(b, d) /\ Covered(b, d)
  /\ \A k \in Rotating, t \in Tokens : u.owners[k][t] # None => d.owners[k][t] = u.owners[k][t]
  /\ (\E a \in Live(d) : ~d.accounts[a].enabled) => d.version >= 4
  /\ OneActiveIn(d) /\ DistinctIn(d)
  /\ TokensStay(u, d)

\* Changing one account in the table of accounts.
LEMMA PutResult ==
  ASSUME NEW d \in Document, NEW a \in Ids, NEW x \in {None} \cup Account,
         NEW e, e = [d EXCEPT !.accounts[a] = x]
  PROVE  /\ e \in Document /\ e.version = d.version /\ e.receipts = d.receipts
         /\ e.owners = d.owners
         /\ e.accounts[a] = x /\ \A o \in Ids \ {a} : e.accounts[o] = d.accounts[o]
  BY DEF Document

\* What was covered stays covered in a higher format.
LEMMA CoveredBefore ==
  ASSUME NEW b \in Builds, NEW u \in Document, InFormat(u), NEW a \in Live(u),
         NEW v \in 1..8, v >= u.version
  PROVE  \/ u.accounts[a].credential.kind = "factory"
         \/ Since[u.accounts[a].credential.kind] <= v
<1>1. u.accounts[a] \in Account /\ u.version \in 1..8
  BY Fields
<1>2. u.accounts[a].credential.kind \in Kinds
  BY <1>1, CredentialFields DEF Account
<1>3. Since[u.accounts[a].credential.kind] \in 1..8
  BY <1>2, FormatsOfKinds
<1> QED BY <1>1, <1>3 DEF InFormat

LEMMA AddOutcome ==
  ASSUME NEW b \in Builds, NEW u \in Document, Sound(u), OnlyKnown(b, u),
         NEW a \in Ids, a \notin Live(u), NEW p \in Providers, NEW l \in Labels,
         NEW i \in Identities, NEW c \in Credential,
         Since[c.kind] <= b.format, ~Clashes(u, p, l, i), MayReserve(b, u, a, c),
         NEW d, d = Added(b, u, a, p, l, i, c)
  PROVE  Outcome(b, u, d) /\ EnabledStays(u, d) /\ Live(d) \subseteq Live(u) \cup {a}
<1> DEFINE r == Reserve(b, u, a, c)
           g == IF c.kind \in {"native", "copilot"} THEN AtLeast(r, Since[c.kind]) ELSE r
           x == [provider |-> p, label |-> l, identity |-> i,
                 active |-> ~HasActive(u, p), enabled |-> TRUE, credential |-> c]
<1>1. d = [g EXCEPT !.accounts[a] = x]
  BY DEF Added
<1>2. /\ r \in Document /\ r.version >= u.version
      /\ r.accounts = u.accounts /\ r.receipts = u.receipts
      /\ \A k \in Rotating \ b.tables : r.owners[k] = u.owners[k]
      /\ \A k \in Rotating, t \in Tokens :
           u.owners[k][t] # None => r.owners[k][t] = u.owners[k][t]
      /\ c.kind \in b.tables => r.owners[c.kind][c.token] = a
  BY ReserveResult
<1>3. c.kind \in Kinds /\ Since[c.kind] \in 1..8
  BY CredentialFields, FormatsOfKinds
<1>4. /\ g \in Document /\ g.version >= u.version /\ g.version \in 1..8 /\ u.version \in 1..8
      /\ g.accounts = u.accounts /\ g.receipts = u.receipts /\ g.owners = r.owners
      /\ c.kind \in {"native", "copilot"} => g.version >= Since[c.kind]
  <2>1. u.version \in 1..8 /\ r.version \in 1..8
    BY <1>2, Fields
  <2> HIDE DEF r
  <2>2. CASE c.kind \in {"native", "copilot"}
    <3>1. g = AtLeast(r, Since[c.kind])
      BY <2>2
    <3> HIDE DEF g
    <3>2. g \in Document /\ g.version \in 1..8
      BY <1>2, <1>3, <3>1, AtLeastResult, Fields
    <3> QED BY <1>2, <1>3, <2>1, <3>1, <3>2, AtLeastResult
  <2>3. CASE c.kind \notin {"native", "copilot"}
    BY <1>2, <2>1, <2>3
  <2> QED BY <2>2, <2>3
<1>5. x \in Account /\ x # None
  <2>1. HasActive(u, p) \in BOOLEAN
    BY DEF HasActive
  <2>2. x \in Account
    BY <2>1 DEF Account
  <2> QED BY <2>2
<1>7. /\ x.provider = p /\ x.label = l /\ x.identity = i /\ x.active = ~HasActive(u, p)
      /\ x.enabled = TRUE /\ x.credential = c
  OBVIOUS
<1> HIDE DEF r, g, x
<1>6. /\ d \in Document /\ d.version = g.version /\ d.receipts = u.receipts
      /\ d.owners = r.owners
      /\ d.accounts[a] = x /\ \A o \in Ids \ {a} : d.accounts[o] = u.accounts[o]
  <2>1. /\ d \in Document /\ d.version = g.version /\ d.receipts = g.receipts
        /\ d.owners = g.owners
        /\ d.accounts[a] = x /\ \A o \in Ids \ {a} : d.accounts[o] = g.accounts[o]
    BY <1>1, <1>4, <1>5, PutResult
  <2> QED BY <1>4, <2>1
<1>8. Live(d) = Live(u) \cup {a}
  BY <1>5, <1>6 DEF Live
<1>9. \A o \in Live(u) : d.accounts[o] = u.accounts[o] /\ o # a
  BY <1>6 DEF Live
<1>10. \A q \in Providers : Of(d, q) = IF q = p THEN Of(u, q) \cup {a} ELSE Of(u, q)
  BY <1>6, <1>7, <1>8, <1>9 DEF Of
<1>11. OnlyKnown(b, d)
  BY <1>2, <1>6 DEF OnlyKnown
<1>12. Covered(b, d)
  <2>1. \A o \in Live(u) : \/ d.accounts[o].credential.kind = "factory"
                           \/ Since[d.accounts[o].credential.kind] <= d.version
    BY <1>4, <1>6, <1>9, CoveredBefore DEF Sound
  <2>2. \/ c.kind = "factory" \/ Since[c.kind] <= d.version
        \/ c.kind \in b.tables /\ Reserved(d, c.kind)
    <3>1. CASE c.kind \in Rotating /\ c.kind # "factory"
      <4>1. c.kind \in b.tables
        BY <1>3, <3>1, FormatsOfKinds, TablesOfBuilds
      <4>2. d.owners[c.kind][c.token] = a /\ c.token \in Tokens /\ a # None
        BY <1>2, <1>6, <3>1, <4>1, CredentialFields
      <4> QED BY <4>1, <4>2 DEF Reserved
    <3>2. CASE c.kind \notin Rotating
      <4>1. CASE c.kind \in {"native", "copilot"}
        BY <1>4, <1>6, <4>1
      <4>2. CASE c.kind \notin {"native", "copilot"}
        BY <1>3, <1>4, <1>6, <3>2, <4>2, FormatsOfKinds
      <4> QED BY <4>1, <4>2
    <3> QED BY <3>1, <3>2
  <2> QED BY <1>6, <1>7, <1>8, <2>1, <2>2 DEF Covered
<1>13. (\E o \in Live(d) : ~d.accounts[o].enabled) => d.version >= 4
  BY <1>4, <1>6, <1>7, <1>8, <1>9 DEF Sound, InFormat
<1>14. OneActiveIn(d)
  <2> SUFFICES ASSUME NEW q \in Providers, Of(d, q) # {}
               PROVE  \E s \in Of(d, q) : \A o \in Of(d, q) : d.accounts[o].active <=> o = s
    BY DEF OneActiveIn
  <2>1. \A o \in Of(u, q) : d.accounts[o] = u.accounts[o] /\ o # a
    BY <1>9 DEF Of
  <2>2. Of(u, q) # {} => \E s \in Of(u, q) : \A o \in Of(u, q) : u.accounts[o].active <=> o = s
    BY DEF Sound, OneActiveIn
  <2>3. CASE q # p
    BY <1>10, <2>1, <2>2, <2>3
  <2>4. CASE q = p /\ Of(u, p) = {}
    <3>1. d.accounts[a].active
      BY <1>6, <1>7, <2>4 DEF HasActive
    <3>2. Of(d, q) = {a}
      BY <1>10, <2>4
    <3> QED BY <3>1, <3>2
  <2>5. CASE q = p /\ Of(u, p) # {}
    <3>1. PICK s \in Of(u, p) : \A o \in Of(u, p) : u.accounts[o].active <=> o = s
      BY <2>2, <2>5
    <3>2. ~d.accounts[a].active
      BY <1>6, <1>7, <3>1 DEF HasActive
    <3>3. \A o \in Of(d, q) : o = a \/ o \in Of(u, p)
      BY <1>10, <2>5
    <3>4. s \in Of(d, q) /\ s # a
      BY <1>10, <2>1, <2>5
    <3> QED BY <2>1, <2>5, <3>1, <3>2, <3>3, <3>4
  <2> QED BY <2>3, <2>4, <2>5
<1>15. DistinctIn(d)
  <2> SUFFICES ASSUME NEW q \in Providers, NEW o1 \in Of(d, q), NEW o2 \in Of(d, q), o1 # o2
               PROVE  /\ d.accounts[o1].label # d.accounts[o2].label
                      /\ d.accounts[o1].identity # d.accounts[o2].identity
    BY DEF DistinctIn
  <2>1. \A o \in Of(u, q) : d.accounts[o] = u.accounts[o] /\ o # a
    BY <1>9 DEF Of
  <2>2. CASE o1 \in Of(u, q) /\ o2 \in Of(u, q)
    BY <2>1, <2>2 DEF Sound, DistinctIn
  <2>3. q = p => \A o \in Of(u, p) : u.accounts[o].label # l /\ u.accounts[o].identity # i
    BY DEF Clashes
  <2>4. CASE o1 \notin Of(u, q) \/ o2 \notin Of(u, q)
    BY <1>6, <1>7, <1>10, <2>1, <2>3, <2>4
  <2> QED BY <2>2, <2>4
<1>16. TokensStay(u, d)
  <2> SUFFICES ASSUME NEW o \in Live(d), NEW k \in Rotating, NEW t \in Tokens,
                      d.accounts[o].credential = [kind |-> k, token |-> t],
                      u.owners[k][t] \notin {None, o}
               PROVE  o \in Live(u) /\ u.accounts[o].credential = [kind |-> k, token |-> t]
    BY DEF TokensStay
  <2>1. CASE o \in Live(u)
    BY <1>9, <2>1
  <2>2. CASE o = a
    <3>1. c.kind = k /\ c.token = t
      BY <1>6, <1>7, <2>2
    <3>2. k \in b.tables
      BY DEF OnlyKnown
    <3> QED BY <2>2, <3>1, <3>2 DEF MayReserve
  <2> QED BY <1>8, <2>1, <2>2
<1>17. EnabledStays(u, d)
  BY <1>9 DEF EnabledStays
<1> QED BY <1>2, <1>4, <1>6, <1>8, <1>11, <1>12, <1>13, <1>14, <1>15, <1>16, <1>17 DEF Outcome

\* A change that disables no account leaves the format of disabled accounts.
LEMMA NothingDisabled ==
  ASSUME NEW u \in Document, Sound(u), NEW d \in Document, d.version >= u.version,
         Live(d) \subseteq Live(u),
         \A o \in Live(d) : d.accounts[o].enabled = u.accounts[o].enabled
  PROVE  (\E o \in Live(d) : ~d.accounts[o].enabled) => d.version >= 4
<1>1. u.version \in 1..8 /\ d.version \in 1..8
  BY Fields
<1>2. (\E o \in Live(u) : ~u.accounts[o].enabled) => u.version >= 4
  BY DEF Sound, InFormat
<1>3. (\E o \in Live(d) : ~d.accounts[o].enabled) => (\E o \in Live(u) : ~u.accounts[o].enabled)
  OBVIOUS
<1> QED BY <1>1, <1>2, <1>3

\* A change that adds no account, and gives none another provider, identity or kind.
LEMMA ChangeOutcome ==
  ASSUME NEW b \in Builds, NEW u \in Document, Sound(u), NEW d \in Document,
         d.version >= u.version, d.receipts = u.receipts, OnlyKnown(b, d),
         \A k \in Rotating, t \in Tokens :
           u.owners[k][t] # None => d.owners[k][t] = u.owners[k][t],
         Live(d) \subseteq Live(u),
         \A o \in Live(d) :
           /\ d.accounts[o].provider = u.accounts[o].provider
           /\ d.accounts[o].identity = u.accounts[o].identity
           /\ d.accounts[o].credential.kind = u.accounts[o].credential.kind,
         (\E o \in Live(d) : ~d.accounts[o].enabled) => d.version >= 4,
         OneActiveIn(d),
         \A q \in Providers : \A o1, o2 \in Of(d, q) :
           o1 # o2 => d.accounts[o1].label # d.accounts[o2].label,
         TokensStay(u, d)
  PROVE  Outcome(b, u, d)
<1>1. \A q \in Providers : Of(d, q) \subseteq Of(u, q)
  BY DEF Of
<1>2. DistinctIn(d)
  <2> SUFFICES ASSUME NEW q \in Providers, NEW o1 \in Of(d, q), NEW o2 \in Of(d, q), o1 # o2
               PROVE  d.accounts[o1].identity # d.accounts[o2].identity
    BY DEF DistinctIn
  <2>1. o1 \in Live(d) /\ o2 \in Live(d)
    BY DEF Of
  <2>2. u.accounts[o1].identity # u.accounts[o2].identity
    BY <1>1 DEF Sound, DistinctIn
  <2> QED BY <2>1, <2>2
<1>3. Covered(b, d)
  <2> SUFFICES ASSUME NEW o \in Live(d)
               PROVE  \/ d.accounts[o].credential.kind = "factory"
                      \/ Since[d.accounts[o].credential.kind] <= d.version
    BY DEF Covered
  <2>1. o \in Live(u) /\ d.accounts[o].credential.kind = u.accounts[o].credential.kind
    OBVIOUS
  <2>2. InFormat(u) /\ d.version \in 1..8
    BY Fields DEF Sound
  <2> QED BY <2>1, <2>2, CoveredBefore
<1> QED BY <1>2, <1>3 DEF Outcome

LEMMA RemoveOutcome ==
  ASSUME NEW b \in Builds, NEW u \in Document, Sound(u), OnlyKnown(b, u),
         NEW a \in Live(u), MayReserve(b, u, a, u.accounts[a].credential),
         NEW d \in Removed(b, u, a)
  PROVE  Outcome(b, u, d) /\ EnabledStays(u, d) /\ Live(d) \subseteq Live(u)
<1> DEFINE c == u.accounts[a].credential
           p == u.accounts[a].provider
           r == Reserve(b, u, a, c)
           w == WithoutAccount(b, u, a)
<1>1. a \in Ids /\ u.accounts[a] \in Account
  BY Fields
<1>2. c \in Credential /\ p \in Providers /\ u.accounts[a].active \in BOOLEAN
  BY <1>1 DEF Account
<1> HIDE DEF c, p
<1>3. w = [r EXCEPT !.accounts[a] = None]
  BY DEF WithoutAccount, c
<1>4. /\ r \in Document /\ r.version >= u.version
      /\ r.accounts = u.accounts /\ r.receipts = u.receipts
      /\ \A k \in Rotating \ b.tables : r.owners[k] = u.owners[k]
      /\ \A k \in Rotating, t \in Tokens :
           u.owners[k][t] # None => r.owners[k][t] = u.owners[k][t]
  BY <1>1, <1>2, ReserveResult DEF c
<1> HIDE DEF r, w
<1>5. /\ w \in Document /\ w.version = r.version /\ w.receipts = u.receipts
      /\ w.owners = r.owners
      /\ w.accounts[a] = None /\ \A o \in Ids \ {a} : w.accounts[o] = u.accounts[o]
  <2>1. /\ w \in Document /\ w.version = r.version /\ w.receipts = r.receipts
        /\ w.owners = r.owners
        /\ w.accounts[a] = None /\ \A o \in Ids \ {a} : w.accounts[o] = r.accounts[o]
    BY <1>1, <1>3, <1>4, PutResult
  <2> QED BY <1>4, <2>1
<1>6. /\ Live(w) = Live(u) \ {a}
      /\ \A o \in Live(w) : w.accounts[o] = u.accounts[o]
      /\ \A q \in Providers : Of(w, q) = Of(u, q) \ {a}
  <2>1. Live(w) = Live(u) \ {a} /\ \A o \in Live(w) : w.accounts[o] = u.accounts[o]
    BY <1>5 DEF Live
  <2> QED BY <2>1 DEF Of
<1>7. \/ d = w /\ (u.accounts[a].active => Of(w, p) = {})
      \/ u.accounts[a].active /\ \E s \in Of(w, p) : d = Activated(w, s)
  BY DEF Removed, w, p
\* Either way, all of an account but who is active is as it was.
<1>8. /\ d \in Document /\ d.version = w.version /\ d.receipts = w.receipts
      /\ d.owners = w.owners /\ Live(d) = Live(w)
      /\ \A o \in Live(d) :
           /\ d.accounts[o].provider = u.accounts[o].provider
           /\ d.accounts[o].identity = u.accounts[o].identity
           /\ d.accounts[o].label = u.accounts[o].label
           /\ d.accounts[o].enabled = u.accounts[o].enabled
           /\ d.accounts[o].credential = u.accounts[o].credential
      /\ \/ /\ \A o \in Live(d) : d.accounts[o].active = u.accounts[o].active
            /\ u.accounts[a].active => Of(w, p) = {}
         \/ /\ u.accounts[a].active
            /\ \E s \in Of(w, p) :
                 /\ d.accounts[s].active
                 /\ \A o \in Live(d) \ {s} : d.accounts[o].active = u.accounts[o].active
  <2>1. CASE d = w /\ (u.accounts[a].active => Of(w, p) = {})
    BY <1>5, <1>6, <2>1
  <2>2. CASE u.accounts[a].active /\ \E s \in Of(w, p) : d = Activated(w, s)
    <3>1. PICK s \in Of(w, p) : d = Activated(w, s)
      BY <2>2
    <3>2. s \in Live(w) /\ s \in Ids /\ w.accounts[s] \in Account
      BY <1>5, Fields DEF Of
    <3> DEFINE y == [w.accounts[s] EXCEPT !.active = TRUE]
    <3>3. /\ y \in Account /\ y.active
          /\ y.provider = w.accounts[s].provider /\ y.identity = w.accounts[s].identity
          /\ y.label = w.accounts[s].label /\ y.enabled = w.accounts[s].enabled
          /\ y.credential = w.accounts[s].credential
      BY <3>2 DEF Account
    <3>4. y # None
      BY <3>3
    <3>5. d = [w EXCEPT !.accounts[s] = y]
      BY <3>1 DEF Activated
    <3> HIDE DEF y
    <3>6. /\ d \in Document /\ d.version = w.version /\ d.receipts = w.receipts
          /\ d.owners = w.owners
          /\ d.accounts[s] = y /\ \A o \in Ids \ {s} : d.accounts[o] = w.accounts[o]
      BY <1>5, <3>2, <3>3, <3>5, PutResult
    <3>7. Live(d) = Live(w)
      BY <3>2, <3>4, <3>6 DEF Live
    <3>8. \A o \in Live(d) : o \in Ids /\ w.accounts[o] = u.accounts[o]
      BY <1>6, <3>7 DEF Live
    <3> QED BY <2>2, <3>3, <3>6, <3>7, <3>8
  <2> QED BY <1>7, <2>1, <2>2
<1>9. \A q \in Providers : Of(d, q) = Of(u, q) \ {a}
  BY <1>6, <1>8 DEF Of
<1>10. OneActiveIn(d)
  <2> SUFFICES ASSUME NEW q \in Providers, Of(d, q) # {}
               PROVE  \E s \in Of(d, q) : \A o \in Of(d, q) : d.accounts[o].active <=> o = s
    BY DEF OneActiveIn
  <2>1. PICK s \in Of(u, q) : \A o \in Of(u, q) : u.accounts[o].active <=> o = s
    BY <1>9 DEF Sound, OneActiveIn
  <2>2. \A o \in Of(d, q) : o \in Of(u, q) /\ o \in Live(d) /\ d.accounts[o].provider = q
    BY <1>9 DEF Of
  <2>3. a \in Of(u, p)
    BY <1>1 DEF Of, p
  <2>4. CASE /\ \A o \in Live(d) : d.accounts[o].active = u.accounts[o].active
             /\ u.accounts[a].active => Of(w, p) = {}
    <3>1. ASSUME s = a PROVE FALSE
      <4>1. q = p
        BY <3>1 DEF Of, p
      <4>2. u.accounts[a].active
        BY <2>1, <3>1
      <4>3. Of(w, p) = {}
        BY <2>4, <4>2
      <4> QED BY <1>2, <1>6, <1>9, <4>1, <4>3
    <3>2. s \in Of(d, q)
      BY <1>9, <2>1, <3>1
    <3> QED BY <2>1, <2>2, <2>4, <3>2
  <2>5. ASSUME u.accounts[a].active, NEW n \in Of(w, p), d.accounts[n].active,
               \A o \in Live(d) \ {n} : d.accounts[o].active = u.accounts[o].active
        PROVE  \E s1 \in Of(d, q) : \A o \in Of(d, q) : d.accounts[o].active <=> o = s1
    <3>1. n \in Of(d, p)
      BY <1>2, <1>6, <1>9
    <3>2. CASE q = p
      <4>1. s = a
        BY <2>1, <2>3, <2>5, <3>2
      <4> QED BY <1>9, <2>1, <2>2, <2>5, <3>1, <3>2, <4>1
    <3>3. CASE q # p
      <4>1. n \notin Of(d, q) /\ s # a
        BY <2>2, <2>3, <3>1, <3>3, <1>2, <1>8 DEF Of, p
      <4> QED BY <1>9, <2>1, <2>2, <2>5, <4>1
    <3> QED BY <3>2, <3>3
  <2> QED BY <1>8, <2>4, <2>5
<1>11. \A q \in Providers : \A o1, o2 \in Of(d, q) :
         o1 # o2 => d.accounts[o1].label # d.accounts[o2].label
  <2> SUFFICES ASSUME NEW q \in Providers, NEW o1 \in Of(d, q), NEW o2 \in Of(d, q), o1 # o2
               PROVE  d.accounts[o1].label # d.accounts[o2].label
    OBVIOUS
  <2>1. o1 \in Of(u, q) /\ o2 \in Of(u, q) /\ o1 \in Live(d) /\ o2 \in Live(d)
    BY <1>9 DEF Of
  <2>2. u.accounts[o1].label # u.accounts[o2].label
    BY <2>1 DEF Sound, DistinctIn
  <2> QED BY <1>8, <2>1, <2>2
<1>12. (\E o \in Live(d) : ~d.accounts[o].enabled) => d.version >= 4
  <2>1. d \in Document /\ d.version >= u.version
    BY <1>4, <1>5, <1>8
  <2>2. \A o \in Live(d) : d.accounts[o].enabled = u.accounts[o].enabled
    BY <1>8
  <2>3. Live(d) \subseteq Live(u)
    BY <1>6, <1>8
  <2> QED BY <2>1, <2>2, <2>3, NothingDisabled
<1>13. OnlyKnown(b, d)
  BY <1>4, <1>5, <1>8 DEF OnlyKnown
<1>14. TokensStay(u, d)
  BY <1>6, <1>8 DEF TokensStay
<1>15. d.version >= u.version
  BY <1>4, <1>5, <1>8
<1>16. EnabledStays(u, d)
  BY <1>8 DEF EnabledStays
<1>17. /\ \A k \in Rotating, t \in Tokens :
            u.owners[k][t] # None => d.owners[k][t] = u.owners[k][t]
       /\ Live(d) \subseteq Live(u)
  BY <1>4, <1>5, <1>6, <1>8
<1> QED BY <1>5, <1>8, <1>10, <1>11, <1>12, <1>13, <1>14, <1>15, <1>16, <1>17, ChangeOutcome

LEMMA RotateOutcome ==
  ASSUME NEW b \in Builds, NEW u \in Document, Sound(u), OnlyKnown(b, u),
         NEW a \in Live(u), NEW token \in Tokens,
         NEW c, c = [u.accounts[a].credential EXCEPT !.token = token],
         u.accounts[a].credential.kind \in Rotating, MayReserve(b, u, a, c),
         NEW d, d = Rotated(b, u, a, c)
  PROVE  Outcome(b, u, d) /\ EnabledStays(u, d) /\ Live(d) \subseteq Live(u)
<1> DEFINE r == Reserve(b, u, a, c)
           x == [u.accounts[a] EXCEPT !.credential = c]
<1>1. a \in Ids /\ u.accounts[a] \in Account
  BY Fields
<1>2. c \in Credential /\ c.kind = u.accounts[a].credential.kind
  BY <1>1 DEF Account, Credential
<1>3. /\ r \in Document /\ r.version >= u.version
      /\ r.accounts = u.accounts /\ r.receipts = u.receipts
      /\ \A k \in Rotating \ b.tables : r.owners[k] = u.owners[k]
      /\ \A k \in Rotating, t \in Tokens :
           u.owners[k][t] # None => r.owners[k][t] = u.owners[k][t]
  BY <1>1, <1>2, ReserveResult
<1>4. d = [r EXCEPT !.accounts[a] = x]
  <2>1. d = [r EXCEPT !.accounts[a] = [r.accounts[a] EXCEPT !.credential = c]]
    BY DEF Rotated
  <2> QED BY <1>3, <2>1
<1>5. /\ x \in Account /\ x.credential = c
      /\ x.provider = u.accounts[a].provider /\ x.identity = u.accounts[a].identity
      /\ x.label = u.accounts[a].label /\ x.enabled = u.accounts[a].enabled
      /\ x.active = u.accounts[a].active
  BY <1>1, <1>2 DEF Account
<1>6. x # None
  BY <1>5
<1> HIDE DEF r, x
<1>7. /\ d \in Document /\ d.version = r.version /\ d.receipts = u.receipts
      /\ d.owners = r.owners
      /\ d.accounts[a] = x /\ \A o \in Ids \ {a} : d.accounts[o] = u.accounts[o]
  <2>1. r \in Document /\ a \in Ids /\ x \in Account
    BY <1>1, <1>3, <1>5
  <2>2. /\ d \in Document /\ d.version = r.version /\ d.receipts = r.receipts
        /\ d.owners = r.owners
        /\ d.accounts[a] = x /\ \A o \in Ids \ {a} : d.accounts[o] = r.accounts[o]
    BY <1>4, <2>1, PutResult
  <2> QED BY <1>3, <2>2
<1>8. /\ Live(d) = Live(u)
      /\ \A o \in Live(u) \ {a} : d.accounts[o] = u.accounts[o]
  BY <1>6, <1>7 DEF Live
<1>9. \A o \in Live(d) :
           /\ d.accounts[o].provider = u.accounts[o].provider
           /\ d.accounts[o].identity = u.accounts[o].identity
           /\ d.accounts[o].label = u.accounts[o].label
           /\ d.accounts[o].enabled = u.accounts[o].enabled
           /\ d.accounts[o].active = u.accounts[o].active
           /\ d.accounts[o].credential.kind = u.accounts[o].credential.kind
  BY <1>2, <1>5, <1>7, <1>8
<1>10. \A q \in Providers : Of(d, q) = Of(u, q) /\ \A o \in Of(d, q) : o \in Live(d)
  BY <1>8, <1>9 DEF Of
<1>11. OneActiveIn(d)
  <2> SUFFICES ASSUME NEW q \in Providers, Of(d, q) # {}
               PROVE  \E s \in Of(d, q) : \A o \in Of(d, q) : d.accounts[o].active <=> o = s
    BY DEF OneActiveIn
  <2>1. PICK s \in Of(u, q) : \A o \in Of(u, q) : u.accounts[o].active <=> o = s
    BY <1>10 DEF Sound, OneActiveIn
  <2>2. \A o \in Of(d, q) : d.accounts[o].active <=> o = s
    BY <1>9, <1>10, <2>1
  <2> QED BY <1>10, <2>2
<1>12. \A q \in Providers : \A o1, o2 \in Of(d, q) :
         o1 # o2 => d.accounts[o1].label # d.accounts[o2].label
  <2> SUFFICES ASSUME NEW q \in Providers, NEW o1 \in Of(d, q), NEW o2 \in Of(d, q), o1 # o2
               PROVE  d.accounts[o1].label # d.accounts[o2].label
    OBVIOUS
  <2>1. u.accounts[o1].label # u.accounts[o2].label
    BY <1>10 DEF Sound, DistinctIn
  <2> QED BY <1>9, <1>10, <2>1
<1>13. (\E o \in Live(d) : ~d.accounts[o].enabled) => d.version >= 4
  <2>1. d \in Document /\ d.version >= u.version
    BY <1>3, <1>7
  <2>2. \A o \in Live(d) : d.accounts[o].enabled = u.accounts[o].enabled
    BY <1>9
  <2> QED BY <1>8, <2>1, <2>2, NothingDisabled
<1>14. OnlyKnown(b, d)
  BY <1>3, <1>7 DEF OnlyKnown
<1>15. TokensStay(u, d)
  <2> SUFFICES ASSUME NEW o \in Live(d), NEW k \in Rotating, NEW t \in Tokens,
                      d.accounts[o].credential = [kind |-> k, token |-> t],
                      u.owners[k][t] \notin {None, o}
               PROVE  o \in Live(u) /\ u.accounts[o].credential = [kind |-> k, token |-> t]
    BY DEF TokensStay
  <2>1. CASE o # a
    BY <1>8, <2>1
  <2>2. CASE o = a
    <3>1. c.kind = k /\ c.token = t
      BY <1>5, <1>7, <2>2
    <3>2. k \in b.tables
      BY DEF OnlyKnown
    <3> QED BY <2>2, <3>1, <3>2 DEF MayReserve
  <2> QED BY <2>1, <2>2
<1>16. d.version >= u.version
  BY <1>3, <1>7
<1>17. /\ d \in Document /\ d.receipts = u.receipts /\ Live(d) \subseteq Live(u)
       /\ \A o \in Live(d) :
            /\ d.accounts[o].provider = u.accounts[o].provider
            /\ d.accounts[o].identity = u.accounts[o].identity
            /\ d.accounts[o].credential.kind = u.accounts[o].credential.kind
       /\ \A k \in Rotating, t \in Tokens :
            u.owners[k][t] # None => d.owners[k][t] = u.owners[k][t]
  <2>1. d \in Document /\ d.receipts = u.receipts /\ Live(d) \subseteq Live(u)
    BY <1>7, <1>8
  <2>2. \A o \in Live(d) : d.accounts[o].credential.kind = u.accounts[o].credential.kind
    BY <1>2, <1>5, <1>7, <1>8
  <2>3. \A k \in Rotating, t \in Tokens :
          u.owners[k][t] # None => d.owners[k][t] = u.owners[k][t]
    BY <1>3, <1>7
  <2> QED BY <1>9, <2>1, <2>2, <2>3
<1>18. EnabledStays(u, d)
  BY <1>9 DEF EnabledStays
<1> QED BY <1>11, <1>12, <1>13, <1>14, <1>15, <1>16, <1>17, <1>18, ChangeOutcome

\* Patching leaves the accounts and their credentials, tokens and receipts alone.
Alike(u, d) ==
  /\ d \in Document /\ d.version >= u.version
  /\ d.receipts = u.receipts /\ d.owners = u.owners /\ Live(d) = Live(u)
  /\ \A o \in Live(u) :
       /\ d.accounts[o].provider = u.accounts[o].provider
       /\ d.accounts[o].identity = u.accounts[o].identity
       /\ d.accounts[o].credential = u.accounts[o].credential

DisabledNeeds4(d) == (\E o \in Live(d) : ~d.accounts[o].enabled) => d.version >= 4

LEMMA SwitchedResult ==
  ASSUME NEW u \in Document, DisabledNeeds4(u), NEW a \in Live(u),
         NEW e \in {None} \cup BOOLEAN, NEW d, d = Switched(u, a, e)
  PROVE  /\ Alike(u, d) /\ DisabledNeeds4(d)
         /\ \A o \in Live(u) : /\ d.accounts[o].label = u.accounts[o].label
                               /\ d.accounts[o].active = u.accounts[o].active
         /\ \A o \in Live(u) \ {a} : d.accounts[o].enabled = u.accounts[o].enabled
         /\ e = None => d.accounts[a].enabled = u.accounts[a].enabled
         /\ e # None => d.accounts[a].enabled = e
<1>1. u.version \in 1..8 /\ a \in Ids /\ u.accounts[a] \in Account
  BY Fields
<1>2. CASE e = None
  <2>1. d = u
    BY <1>2 DEF Switched
  <2> QED BY <1>1, <1>2, <2>1 DEF Alike
<1>3. CASE e # None
  <2> DEFINE x == [u.accounts[a] EXCEPT !.enabled = e]
             g == [u EXCEPT !.accounts[a].enabled = e]
  <2>1. d = AtLeast(g, 4)
    BY <1>3 DEF Switched
  <2>2. g = [u EXCEPT !.accounts[a] = x]
    OBVIOUS
  <2>3. /\ x \in Account /\ x.provider = u.accounts[a].provider
        /\ x.identity = u.accounts[a].identity /\ x.credential = u.accounts[a].credential
        /\ x.label = u.accounts[a].label /\ x.active = u.accounts[a].active
        /\ x.enabled = e
    BY <1>1, <1>3 DEF Account
  <2>4. x # None
    BY <2>3
  <2> HIDE DEF x, g
  <2>5. /\ g \in Document /\ g.version = u.version /\ g.receipts = u.receipts
        /\ g.owners = u.owners
        /\ g.accounts[a] = x /\ \A o \in Ids \ {a} : g.accounts[o] = u.accounts[o]
    BY <1>1, <2>2, <2>3, PutResult
  <2>6. /\ d \in Document /\ d.version >= u.version /\ d.version >= 4
        /\ d.receipts = u.receipts /\ d.owners = u.owners /\ d.accounts = g.accounts
    BY <2>1, <2>5, AtLeastResult
  <2>7. Live(d) = Live(u) /\ \A o \in Live(u) \ {a} : d.accounts[o] = u.accounts[o]
    BY <2>4, <2>5, <2>6 DEF Live
  <2>8. d.accounts[a] = x
    BY <2>5, <2>6
  <2> QED BY <1>3, <2>3, <2>6, <2>7, <2>8 DEF Alike, DisabledNeeds4
<1> QED BY <1>2, <1>3

LEMMA RenamedResult ==
  ASSUME NEW u \in Document, DisabledNeeds4(u), NEW a \in Live(u),
         NEW l \in {None} \cup Labels, NEW d, d = Renamed(u, a, l)
  PROVE  /\ Alike(u, d) /\ DisabledNeeds4(d)
         /\ \A o \in Live(u) : /\ d.accounts[o].active = u.accounts[o].active
                               /\ d.accounts[o].enabled = u.accounts[o].enabled
         /\ \A o \in Live(u) \ {a} : d.accounts[o].label = u.accounts[o].label
         /\ d.accounts[a].label = IF l = None THEN u.accounts[a].label ELSE l
<1>1. u.version \in 1..8 /\ a \in Ids /\ u.accounts[a] \in Account
  BY Fields
<1>2. CASE l = None
  <2>1. d = u
    BY <1>2 DEF Renamed
  <2> QED BY <1>1, <1>2, <2>1 DEF Alike
<1>3. CASE l # None
  <2> DEFINE x == [u.accounts[a] EXCEPT !.label = l]
  <2>1. d = [u EXCEPT !.accounts[a] = x]
    BY <1>3 DEF Renamed
  <2>2. /\ x \in Account /\ x.provider = u.accounts[a].provider
        /\ x.identity = u.accounts[a].identity /\ x.credential = u.accounts[a].credential
        /\ x.label = l /\ x.active = u.accounts[a].active
        /\ x.enabled = u.accounts[a].enabled
    BY <1>1, <1>3 DEF Account
  <2>3. x # None
    BY <2>2
  <2> HIDE DEF x
  <2>4. /\ d \in Document /\ d.version = u.version /\ d.receipts = u.receipts
        /\ d.owners = u.owners
        /\ d.accounts[a] = x /\ \A o \in Ids \ {a} : d.accounts[o] = u.accounts[o]
    BY <1>1, <2>1, <2>2, PutResult
  <2>5. Live(d) = Live(u) /\ \A o \in Live(u) \ {a} : d.accounts[o] = u.accounts[o]
    BY <2>3, <2>4 DEF Live
  <2> QED BY <1>1, <1>3, <2>2, <2>4, <2>5 DEF Alike, DisabledNeeds4
<1> QED BY <1>2, <1>3

LEMMA SelectedResult ==
  ASSUME NEW u \in Document, DisabledNeeds4(u), OneActiveIn(u), NEW a \in Live(u),
         NEW d, d = Selected(u, a)
  PROVE  /\ Alike(u, d) /\ DisabledNeeds4(d) /\ OneActiveIn(d)
         /\ \A o \in Live(u) : /\ d.accounts[o].label = u.accounts[o].label
                               /\ d.accounts[o].enabled = u.accounts[o].enabled
<1> DEFINE p == u.accounts[a].provider
           acc == [o \in Ids |-> IF o \in Of(u, p)
                                 THEN [u.accounts[o] EXCEPT !.active = (o = a)]
                                 ELSE u.accounts[o]]
<1>1. u.version \in 1..8 /\ u.accounts \in [Ids -> {None} \cup Account] /\ a \in Ids
  BY Fields
<1>2. d = [u EXCEPT !.accounts = acc]
  BY DEF Selected
<1>3. \A o \in Ids : acc[o] = IF o \in Of(u, p)
                              THEN [u.accounts[o] EXCEPT !.active = (o = a)]
                              ELSE u.accounts[o]
  OBVIOUS
<1> HIDE DEF acc
<1>4. \A o \in Live(u) : /\ o \in Ids /\ acc[o] \in Account
                         /\ acc[o].provider = u.accounts[o].provider
                         /\ acc[o].identity = u.accounts[o].identity
                         /\ acc[o].credential = u.accounts[o].credential
                         /\ acc[o].label = u.accounts[o].label
                         /\ acc[o].enabled = u.accounts[o].enabled
                         /\ acc[o].active = IF o \in Of(u, p) THEN o = a
                                            ELSE u.accounts[o].active
  <2> TAKE o \in Live(u)
  <2>1. o \in Ids /\ u.accounts[o] \in Account
    BY Fields
  <2>2. CASE o \in Of(u, p)
    <3>1. acc[o] = [u.accounts[o] EXCEPT !.active = (o = a)]
      BY <1>3, <2>1, <2>2
    <3> QED BY <2>1, <2>2, <3>1 DEF Account
  <2>3. CASE o \notin Of(u, p)
    BY <1>3, <2>1, <2>3
  <2> QED BY <2>2, <2>3
<1>5. \A o \in Ids \ Live(u) : acc[o] = None
  BY <1>1, <1>3 DEF Live, Of
<1>6. \A o \in Live(u) : acc[o] # None
  BY <1>4
<1>7. acc \in [Ids -> {None} \cup Account]
  <2>1. \A o \in Ids : acc[o] \in {None} \cup Account
    BY <1>4, <1>5
  <2> QED BY <2>1 DEF acc
<1>8. /\ d \in Document /\ d.version = u.version /\ d.receipts = u.receipts
      /\ d.owners = u.owners /\ d.accounts = acc
  BY <1>2, <1>7 DEF Document
<1>9. Live(d) = Live(u)
  <2>1. Live(u) \subseteq Ids
    BY Fields
  <2> QED BY <1>5, <1>6, <1>8, <2>1 DEF Live
<1>10. Alike(u, d) /\ DisabledNeeds4(d)
  BY <1>1, <1>4, <1>8, <1>9 DEF Alike, DisabledNeeds4
<1>11. \A q \in Providers : Of(d, q) = Of(u, q)
  BY <1>4, <1>8, <1>9 DEF Of
<1>12. OneActiveIn(d)
  <2> SUFFICES ASSUME NEW q \in Providers, Of(u, q) # {}
               PROVE  \E s \in Of(u, q) : \A o \in Of(u, q) : acc[o].active <=> o = s
    BY <1>8, <1>11 DEF OneActiveIn
  <2>1. PICK s \in Of(u, q) : \A o \in Of(u, q) : u.accounts[o].active <=> o = s
    BY DEF OneActiveIn
  <2>2. CASE q = p
    <3>1. a \in Of(u, q)
      BY <2>2 DEF Of
    <3>2. \A o \in Of(u, q) : acc[o].active <=> o = a
      BY <1>4, <2>2 DEF Of
    <3> QED BY <3>1, <3>2
  <2>3. CASE q # p
    <3>1. \A o \in Of(u, q) : o \notin Of(u, p) /\ o \in Live(u)
      BY <2>3 DEF Of
    <3> QED BY <1>4, <2>1, <3>1
  <2> QED BY <2>2, <2>3
<1> QED BY <1>4, <1>8, <1>10, <1>12

LEMMA PatchOutcome ==
  ASSUME NEW b \in Builds, NEW u \in Document, Sound(u), OnlyKnown(b, u),
         NEW a \in Live(u), NEW l \in {None} \cup Labels, NEW active \in BOOLEAN,
         NEW e \in {None} \cup BOOLEAN, l # None => MayRename(u, a, l),
         NEW d, d = Patched(u, a, l, active, e)
  PROVE  /\ Outcome(b, u, d) /\ Live(d) \subseteq Live(u)
         /\ \A o \in Live(u) : \/ d.accounts[o].enabled = u.accounts[o].enabled
                               \/ o = a /\ d.accounts[o].enabled = e
<1> DEFINE m == Switched(u, a, e)
           n == Renamed(m, a, l)
<1>1. d = IF active THEN Selected(n, a) ELSE n
  BY DEF Patched
<1>2. DisabledNeeds4(u)
  BY DEF Sound, InFormat, DisabledNeeds4
<1>3. /\ Alike(u, m) /\ DisabledNeeds4(m)
      /\ \A o \in Live(u) : /\ m.accounts[o].label = u.accounts[o].label
                            /\ m.accounts[o].active = u.accounts[o].active
                            /\ \/ m.accounts[o].enabled = u.accounts[o].enabled
                               \/ o = a /\ m.accounts[o].enabled = e
  BY <1>2, SwitchedResult
<1> HIDE DEF m
<1>4. m \in Document /\ a \in Live(m)
  BY <1>3 DEF Alike
<1>5. /\ Alike(m, n) /\ DisabledNeeds4(n)
      /\ \A o \in Live(m) : /\ n.accounts[o].active = m.accounts[o].active
                            /\ n.accounts[o].enabled = m.accounts[o].enabled
      /\ \A o \in Live(m) \ {a} : n.accounts[o].label = m.accounts[o].label
      /\ n.accounts[a].label = IF l = None THEN m.accounts[a].label ELSE l
  BY <1>3, <1>4, RenamedResult
<1> HIDE DEF n
<1>6. /\ Alike(u, n) /\ n \in Document /\ Live(n) = Live(u)
      /\ \A o \in Live(u) : n.accounts[o].active = u.accounts[o].active
      /\ \A o \in Live(u) \ {a} : n.accounts[o].label = u.accounts[o].label
      /\ n.accounts[a].label = IF l = None THEN u.accounts[a].label ELSE l
  <2>1. u.version \in 1..8 /\ m.version \in 1..8 /\ n.version \in 1..8
    BY <1>4, <1>5, Fields DEF Alike
  <2> QED BY <1>3, <1>5, <2>1 DEF Alike
<1>7. \A q \in Providers : Of(n, q) = Of(u, q) /\ \A o \in Of(u, q) : o \in Live(u)
  BY <1>6 DEF Alike, Of
<1>8. OneActiveIn(n)
  <2> SUFFICES ASSUME NEW q \in Providers, Of(u, q) # {}
               PROVE  \E s \in Of(u, q) : \A o \in Of(u, q) : n.accounts[o].active <=> o = s
    BY <1>7 DEF OneActiveIn
  <2>1. PICK s \in Of(u, q) : \A o \in Of(u, q) : u.accounts[o].active <=> o = s
    BY DEF Sound, OneActiveIn
  <2> QED BY <1>6, <1>7, <2>1
<1>9. /\ Alike(u, d) /\ DisabledNeeds4(d) /\ OneActiveIn(d)
      /\ \A o \in Live(u) : /\ d.accounts[o].label = n.accounts[o].label
                            /\ d.accounts[o].enabled = n.accounts[o].enabled
  <2>1. CASE active
    <3>1. d = Selected(n, a) /\ a \in Live(n)
      BY <1>1, <1>6, <2>1
    <3>2. /\ Alike(n, d) /\ DisabledNeeds4(d) /\ OneActiveIn(d)
          /\ \A o \in Live(n) : /\ d.accounts[o].label = n.accounts[o].label
                                /\ d.accounts[o].enabled = n.accounts[o].enabled
      BY <1>5, <1>6, <1>8, <3>1, SelectedResult
    <3>3. u.version \in 1..8 /\ n.version \in 1..8 /\ d.version \in 1..8
      BY <1>6, <3>2, Fields DEF Alike
    <3> QED BY <1>6, <3>2, <3>3 DEF Alike
  <2>2. CASE ~active
    BY <1>1, <1>5, <1>6, <1>8, <2>2
  <2> QED BY <2>1, <2>2
<1>10. \A q \in Providers : Of(d, q) = Of(u, q)
  BY <1>9 DEF Alike, Of
<1>11. \A q \in Providers : \A o1, o2 \in Of(d, q) :
         o1 # o2 => d.accounts[o1].label # d.accounts[o2].label
  <2> SUFFICES ASSUME NEW q \in Providers, NEW o1 \in Of(u, q), NEW o2 \in Of(u, q), o1 # o2
               PROVE  n.accounts[o1].label # n.accounts[o2].label
    BY <1>7, <1>9, <1>10
  <2>1. u.accounts[o1].label # u.accounts[o2].label /\ o1 \in Live(u) /\ o2 \in Live(u)
    BY <1>7 DEF Sound, DistinctIn
  <2>2. CASE l = None
    BY <1>6, <2>1, <2>2
  <2>3. CASE l # None
    <3>1. \A o \in Of(u, u.accounts[a].provider) \ {a} : u.accounts[o].label # l
      BY <2>3 DEF MayRename
    <3>2. o1 = a \/ o2 = a => q = u.accounts[a].provider
      BY DEF Of
    <3> QED BY <1>6, <2>1, <2>3, <3>1, <3>2
  <2> QED BY <2>2, <2>3
<1>12. OnlyKnown(b, d)
  BY <1>9 DEF Alike, OnlyKnown
<1>13. TokensStay(u, d)
  BY <1>9 DEF Alike, TokensStay
<1>14. (\E o \in Live(d) : ~d.accounts[o].enabled) => d.version >= 4
  BY <1>9 DEF DisabledNeeds4
<1>15. /\ d \in Document /\ d.version >= u.version /\ d.receipts = u.receipts
       /\ Live(d) \subseteq Live(u)
       /\ \A o \in Live(d) :
            /\ d.accounts[o].provider = u.accounts[o].provider
            /\ d.accounts[o].identity = u.accounts[o].identity
            /\ d.accounts[o].credential.kind = u.accounts[o].credential.kind
       /\ \A k \in Rotating, t \in Tokens :
            u.owners[k][t] # None => d.owners[k][t] = u.owners[k][t]
  BY <1>9 DEF Alike
<1>16. \A o \in Live(u) : \/ d.accounts[o].enabled = u.accounts[o].enabled
                          \/ o = a /\ d.accounts[o].enabled = e
  BY <1>3, <1>5, <1>9 DEF Alike
<1> QED BY <1>9, <1>16, <1>11, <1>12, <1>13, <1>14, <1>15, ChangeOutcome

----------------------------------------------------------------------------
(* What is written.                                                         *)

LEMMA ReceiptResult ==
  ASSUME NEW u \in Document, Sound(u), NEW d \in Document, d.receipts = u.receipts,
         d.version >= u.version, NEW k \in {None} \cup Keys, MayReceipt(u, k),
         NEW e, e = WithReceipt(d, k)
  PROVE  /\ e \in Document /\ e.version >= d.version
         /\ e.accounts = d.accounts /\ e.owners = d.owners
         /\ u.receipts \subseteq e.receipts
         /\ IsFiniteSet(e.receipts) /\ Cardinality(e.receipts) <= MaxReceipts
         /\ e.receipts # {} => e.version >= 2
<1>1. /\ IsFiniteSet(u.receipts) /\ Cardinality(u.receipts) <= MaxReceipts
      /\ u.receipts # {} => u.version >= 2
  BY DEF Sound, InFormat
<1>2. u.version \in 1..8 /\ d.version \in 1..8 /\ u.receipts \in SUBSET Keys
  BY Fields
<1>3. CASE k = None
  <2>1. e = d
    BY <1>3 DEF WithReceipt
  <2> QED BY <1>1, <1>2, <2>1
<1>4. CASE k # None
  <2> DEFINE g == [d EXCEPT !.receipts = @ \cup {k}]
  <2>1. e = AtLeast(g, 2)
    BY <1>4 DEF WithReceipt
  <2>2. /\ g \in Document /\ g.version = d.version /\ g.accounts = d.accounts
        /\ g.owners = d.owners /\ g.receipts = u.receipts \cup {k}
    BY <1>4 DEF Document
  <2> HIDE DEF g
  <2>3. /\ e \in Document /\ e.version >= d.version /\ e.version >= 2
        /\ e.accounts = d.accounts /\ e.owners = d.owners
        /\ e.receipts = u.receipts \cup {k}
    BY <2>1, <2>2, AtLeastResult
  <2>4. k \notin u.receipts /\ Cardinality(u.receipts) < MaxReceipts
    BY <1>4 DEF MayReceipt
  <2>5. /\ IsFiniteSet(u.receipts \cup {k})
        /\ Cardinality(u.receipts \cup {k}) = Cardinality(u.receipts) + 1
        /\ Cardinality(u.receipts) \in Nat
    BY <1>1, <2>4, FS_AddElement, FS_CardinalityType
  <2> QED BY <2>3, <2>4, <2>5
<1> QED BY <1>3, <1>4

LEMMA UpgradeResult ==
  ASSUME NEW b \in Builds, NEW d \in Document, NEW k \in Rotating,
         NEW e, e = Upgrade(b, d, k)
  PROVE  /\ e \in Document /\ e.version >= d.version
         /\ e.accounts = d.accounts /\ e.owners = d.owners /\ e.receipts = d.receipts
         /\ k \in b.tables /\ Reserved(d, k) => e.version >= Format(b, k)
<1>1. Format(b, k) \in 1..8 /\ d.version \in 1..8
  BY Fields, FormatsOfKinds DEF Format, Asked
<1>2. CASE k \in b.tables /\ Reserved(d, k)
  <2>1. e = AtLeast(d, Format(b, k))
    BY <1>2 DEF Upgrade
  <2> QED BY <1>1, <2>1, AtLeastResult
<1>3. CASE ~(k \in b.tables /\ Reserved(d, k))
  BY <1>1, <1>3 DEF Upgrade
<1> QED BY <1>2, <1>3

LEMMA UpgradedResult ==
  ASSUME NEW b \in Builds, NEW d \in Document, NEW e, e = Upgraded(b, d)
  PROVE  /\ e \in Document /\ e.version >= d.version
         /\ e.accounts = d.accounts /\ e.owners = d.owners /\ e.receipts = d.receipts
         /\ \A k \in b.tables : Reserved(d, k) => e.version >= Format(b, k)
<1> DEFINE d1 == Upgrade(b, d, "factory")
           d2 == Upgrade(b, d1, "antigravity")
           d3 == Upgrade(b, d2, "kiro")
<1>1. e = Upgrade(b, d3, "claude")
  BY DEF Upgraded
<1>2. /\ d1 \in Document /\ d1.version >= d.version
      /\ d1.accounts = d.accounts /\ d1.owners = d.owners /\ d1.receipts = d.receipts
      /\ "factory" \in b.tables /\ Reserved(d, "factory") => d1.version >= Format(b, "factory")
  BY UpgradeResult, RotatingKinds
<1> HIDE DEF d1
<1>3. /\ d2 \in Document /\ d2.version >= d1.version
      /\ d2.accounts = d1.accounts /\ d2.owners = d1.owners /\ d2.receipts = d1.receipts
      /\ "antigravity" \in b.tables /\ Reserved(d1, "antigravity")
           => d2.version >= Format(b, "antigravity")
  BY <1>2, UpgradeResult, RotatingKinds
<1> HIDE DEF d2
<1>4. /\ d3 \in Document /\ d3.version >= d2.version
      /\ d3.accounts = d2.accounts /\ d3.owners = d2.owners /\ d3.receipts = d2.receipts
      /\ "kiro" \in b.tables /\ Reserved(d2, "kiro") => d3.version >= Format(b, "kiro")
  BY <1>3, UpgradeResult, RotatingKinds
<1> HIDE DEF d3
<1>5. /\ e \in Document /\ e.version >= d3.version
      /\ e.accounts = d3.accounts /\ e.owners = d3.owners /\ e.receipts = d3.receipts
      /\ "claude" \in b.tables /\ Reserved(d3, "claude") => e.version >= Format(b, "claude")
  BY <1>1, <1>4, UpgradeResult, RotatingKinds
<1>6. \A k \in Rotating : /\ Reserved(d1, k) <=> Reserved(d, k)
                          /\ Reserved(d2, k) <=> Reserved(d, k)
                          /\ Reserved(d3, k) <=> Reserved(d, k)
  BY <1>2, <1>3, <1>4 DEF Reserved
<1>7. /\ d.version \in 1..8 /\ d1.version \in 1..8 /\ d2.version \in 1..8
      /\ d3.version \in 1..8 /\ e.version \in 1..8
  BY <1>2, <1>3, <1>4, <1>5, Fields
<1>8. \A k \in Rotating : Format(b, k) \in 1..8
  BY FormatsOfKinds DEF Format, Asked
<1>9. ASSUME NEW k \in b.tables, Reserved(d, k) PROVE e.version >= Format(b, k)
  <2>1. k \in Rotating
    BY TablesOfBuilds
  <2> QED BY <1>2, <1>3, <1>4, <1>5, <1>6, <1>7, <1>8, <1>9, <2>1, RotatingKinds
<1> QED BY <1>2, <1>3, <1>4, <1>5, <1>7, <1>9

LEMMA WrittenResult ==
  ASSUME NEW b \in Builds, NEW u \in Document, Sound(u), NEW d, Outcome(b, u, d),
         NEW k \in {None} \cup Keys, MayReceipt(u, k),
         NEW e, e = Final(b, WithReceipt(d, k))
  PROVE  /\ e \in Document /\ Sound(e) /\ e.version >= u.version
         /\ e.accounts = d.accounts /\ e.owners = d.owners
         /\ u.receipts \subseteq e.receipts
         /\ b = Current => \A r \in Rotating : Reserved(e, r) => TableFormat[r] <= e.version
<1> DEFINE w == WithReceipt(d, k)
<1>1. d \in Document /\ d.version >= u.version /\ d.receipts = u.receipts
  BY DEF Outcome
<1>2. /\ w \in Document /\ w.version >= d.version
      /\ w.accounts = d.accounts /\ w.owners = d.owners
      /\ u.receipts \subseteq w.receipts
      /\ IsFiniteSet(w.receipts) /\ Cardinality(w.receipts) <= MaxReceipts
      /\ w.receipts # {} => w.version >= 2
  BY <1>1, ReceiptResult
<1> HIDE DEF w
<1>3. /\ e \in Document /\ e.version >= w.version
      /\ e.accounts = d.accounts /\ e.owners = d.owners /\ e.receipts = w.receipts
      /\ \A r \in b.tables : Reserved(w, r) => e.version >= Format(b, r)
  <2>1. e = Upgraded(b, w)
    BY DEF Final, w
  <2> QED BY <1>2, <2>1, UpgradedResult
<1>4. u.version \in 1..8 /\ d.version \in 1..8 /\ w.version \in 1..8 /\ e.version \in 1..8
  BY <1>1, <1>2, <1>3, Fields
<1>5. \A r \in Rotating : Reserved(w, r) <=> Reserved(e, r)
  BY <1>2, <1>3 DEF Reserved
<1>6. \A r \in Rotating : /\ Reserved(e, r) => r \in b.tables
                          /\ Reserved(e, r) /\ r # "factory" => TableFormat[r] <= e.version
  <2> TAKE r \in Rotating
  <2>1. Reserved(e, r) => r \in b.tables
    BY <1>3 DEF Outcome, OnlyKnown, Reserved
  <2>2. r \in b.tables /\ r # "factory" => Format(b, r) = TableFormat[r]
    BY TablesOfBuilds DEF Format, Asked
  <2>3. TableFormat[r] \in 5..8
    BY FormatsOfKinds
  <2> QED BY <1>3, <1>4, <1>5, <2>1, <2>2, <2>3
<1>7. Live(e) = Live(d) /\ \A p \in Providers : Of(e, p) = Of(d, p)
  BY <1>3 DEF Live, Of
<1>8. InFormat(e)
  <2>1. \A r \in Rotating \ {"factory"} : Reserved(e, r) => TableFormat[r] <= e.version
    BY <1>6
  <2>2. ASSUME NEW a \in Live(e), e.accounts[a].credential.kind # "factory"
        PROVE  Since[e.accounts[a].credential.kind] <= e.version
    <3> DEFINE c == e.accounts[a].credential
    <3>1. c \in Credential /\ c.kind \in Kinds
      BY <1>3, Fields, CredentialFields DEF Account
    <3>2. Since[c.kind] \in 1..8
      BY <3>1, FormatsOfKinds
    <3>3. CASE Since[c.kind] <= d.version
      BY <1>2, <1>3, <1>4, <3>2, <3>3
    <3>4. CASE c.kind \in b.tables /\ Reserved(d, c.kind)
      <4>1. c.kind \in Rotating /\ Reserved(e, c.kind)
        BY <1>3, <3>4, TablesOfBuilds DEF Reserved
      <4>2. Since[c.kind] = TableFormat[c.kind]
        BY <2>2, <3>1, <4>1, FormatsOfKinds
      <4> QED BY <1>6, <2>2, <4>1, <4>2
    <3>5. \/ Since[c.kind] <= d.version
          \/ c.kind \in b.tables /\ Reserved(d, c.kind)
      BY <1>3, <1>7, <2>2 DEF Outcome, Covered
    <3> QED BY <3>3, <3>4, <3>5
  <2>3. (\E a \in Live(e) : ~e.accounts[a].enabled) => e.version >= 4
    <3>1. (\E a \in Live(d) : ~d.accounts[a].enabled) => d.version >= 4
      BY DEF Outcome
    <3> QED BY <1>2, <1>3, <1>4, <1>7, <3>1
  <2>4. e.receipts # {} => e.version >= 2
    BY <1>2, <1>3, <1>4
  <2> QED BY <1>2, <1>3, <2>1, <2>2, <2>3, <2>4 DEF InFormat
<1>9. OneActiveIn(e) /\ DistinctIn(e)
  BY <1>3, <1>7 DEF Outcome, OneActiveIn, DistinctIn
<1>10. ASSUME b = Current
       PROVE  \A r \in Rotating : Reserved(e, r) => TableFormat[r] <= e.version
  <2> TAKE r \in Rotating
  <2>1. TableFormat[r] \in 5..8 /\ Format(b, r) = TableFormat[r] /\ r \in b.tables
    BY <1>10, FormatsOfKinds DEF Format, Asked, Current
  <2> QED BY <1>3, <1>4, <1>5, <2>1
<1> QED BY <1>1, <1>2, <1>3, <1>4, <1>8, <1>9, <1>10 DEF Sound

----------------------------------------------------------------------------
(* Transactions keep the invariant, and forget nothing.                     *)

\* What an open transaction has read.
LEMMA OpenResult ==
  ASSUME IInv, NEW t \in Tasks, Open(t), NEW b, b = tx[t].build, NEW u, u = tx[t].read
  PROVE  /\ b \in Builds /\ u \in Document /\ Sound(u) /\ OnlyKnown(b, u)
         /\ u.version = disk.version /\ disk.version <= b.format
         /\ u.accounts = disk.accounts /\ u.receipts = disk.receipts /\ Live(u) = Live(disk)
         /\ \A k \in b.tables : u.owners[k] = disk.owners[k]
<1>1. b \in Builds /\ Accepts(b, disk) /\ u = Understood(b, disk)
  BY DEF IInv, LockInv, ReadsAreCurrent, Tx
<1>2. disk \in Document /\ Sound(disk)
  BY DEF IInv, TypeOK
<1>3. /\ u \in Document /\ Sound(u) /\ u.version = disk.version /\ disk.version <= b.format
      /\ u.accounts = disk.accounts /\ u.receipts = disk.receipts
      /\ \A k \in Rotating \ b.tables, o \in Tokens : u.owners[k][o] = None
      /\ \A k \in b.tables : u.owners[k] = disk.owners[k]
  BY <1>1, <1>2, UnderstoodResult
<1> QED BY <1>1, <1>3 DEF OnlyKnown, Live

LEMMA CommitStep ==
  ASSUME IInv, NEW t \in Tasks, Open(t), NEW d, Outcome(tx[t].build, tx[t].read, d),
         Commit(t, d), drawn \subseteq drawn', drawn' \subseteq Ids, Live(d) \subseteq drawn'
  PROVE  /\ IInv' /\ TokensStayPut
         /\ disk' \in Document /\ disk'.accounts = d.accounts
         /\ \A k \in Rotating, o \in Tokens :
              kept[k][o] # None => disk'.owners[k][o] = kept[k][o]
         /\ disk.receipts \subseteq disk'.receipts
<1> DEFINE b == tx[t].build
           u == tx[t].read
<1>1. /\ b \in Builds /\ u \in Document /\ Sound(u)
      /\ u.version = disk.version /\ disk.version <= b.format
      /\ u.accounts = disk.accounts /\ u.receipts = disk.receipts /\ Live(u) = Live(disk)
      /\ \A k \in b.tables : u.owners[k] = disk.owners[k]
  BY OpenResult
<1>2. /\ kept' = IF b = Current THEN disk'.owners ELSE kept
      /\ at' = [at EXCEPT ![t] = "ended"] /\ UNCHANGED <<tx, inside, flocked>>
  BY DEF Commit, Goto
<1>3. Outcome(b, u, d)
  OBVIOUS
<1>4. PICK r \in {None} \cup Keys : MayReceipt(u, r) /\ disk' = Final(b, WithReceipt(d, r))
  BY DEF Commit
<1> HIDE DEF b, u
<1>5. /\ disk' \in Document /\ Sound(disk') /\ disk'.version >= u.version
      /\ disk'.accounts = d.accounts /\ disk'.owners = d.owners
      /\ u.receipts \subseteq disk'.receipts
      /\ b = Current =>
           \A k \in Rotating : Reserved(disk', k) => TableFormat[k] <= disk'.version
  <2>1. \A e : e = Final(b, WithReceipt(d, r)) =>
          /\ e \in Document /\ Sound(e) /\ e.version >= u.version
          /\ e.accounts = d.accounts /\ e.owners = d.owners
          /\ u.receipts \subseteq e.receipts
          /\ b = Current => \A k \in Rotating : Reserved(e, k) => TableFormat[k] <= e.version
    BY <1>1, <1>3, <1>4, WrittenResult
  <2> QED BY <1>4, <2>1
<1>6. /\ disk \in Document /\ disk.version \in 1..8 /\ disk'.version \in 1..8
      /\ disk'.owners \in [Rotating -> [Tokens -> {None} \cup Ids]]
      /\ u.owners \in [Rotating -> [Tokens -> {None} \cup Ids]]
  BY <1>1, <1>5, Fields DEF IInv, TypeOK
\* What a current build has kept, this build knows.
<1>7. ASSUME NEW k \in Rotating, NEW o \in Tokens, kept[k][o] # None
      PROVE  /\ u.owners[k][o] = kept[k][o] /\ disk'.owners[k][o] = kept[k][o]
             /\ TableFormat[k] <= disk'.version
  <2>1. disk.owners[k][o] = kept[k][o] /\ TableFormat[k] <= disk.version
    BY <1>7 DEF IInv, KeptInv
  <2>2. TableFormat[k] \in 5..8
    BY FormatsOfKinds
  <2>3. k \in b.tables
    BY <1>1, <1>6, <2>1, <2>2, TablesOfBuilds
  <2>4. u.owners[k][o] = kept[k][o]
    BY <1>1, <2>1, <2>3
  <2>5. d.owners[k][o] = u.owners[k][o]
    BY <1>3, <1>7, <2>4 DEF Outcome
  <2> QED BY <1>1, <1>5, <1>6, <2>1, <2>2, <2>4, <2>5
<1>8. TypeOK'
  <2>1. disk' \in Document
    BY <1>5
  <2>2. at' \in [Tasks -> {"idle", "entered", "open", "ended"}]
    BY <1>2 DEF IInv, TypeOK
  <2>3. UNCHANGED <<tx, inside, flocked>> /\ drawn' \subseteq Ids
    BY <1>2
  <2>4. kept' \in [Rotating -> [Tokens -> {None} \cup Ids]]
    BY <1>2, <1>6 DEF IInv, TypeOK
  <2> QED BY <2>1, <2>2, <2>3, <2>4 DEF IInv, TypeOK
<1>9. \A v \in Tasks : ~(at'[v] = "open") /\ (at'[v] # "idle" <=> at[v] # "idle")
                       /\ (at'[v] \in {"open", "ended"} <=> at[v] \in {"open", "ended"})
  <2> TAKE v \in Tasks
  <2>1. at[t] = "open" /\ t \in flocked
    BY DEF Open, IInv, LockInv
  <2>2. at[v] = "open" => v = t
    BY <2>1 DEF IInv, LockInv
  <2> QED BY <1>2, <2>1, <2>2 DEF IInv, TypeOK
<1>10. LockInv' /\ ReadsAreCurrent'
  BY <1>2, <1>9 DEF IInv, LockInv, ReadsAreCurrent, Open
<1>11. KeptInv'
  <2> SUFFICES ASSUME NEW k \in Rotating, NEW o \in Tokens, kept'[k][o] # None
               PROVE  disk'.owners[k][o] = kept'[k][o] /\ TableFormat[k] <= disk'.version
    BY DEF KeptInv
  <2>1. CASE b = Current
    BY <1>2, <1>5, <2>1 DEF Reserved
  <2>2. CASE b # Current
    BY <1>2, <1>7, <2>2
  <2> QED BY <2>1, <2>2
<1>12. Live(disk') \subseteq drawn'
  BY <1>5 DEF Live
<1>13. TokensStayPut
  <2> SUFFICES ASSUME NEW a \in Live(disk'), NEW k \in Rotating, NEW o \in Tokens,
                      disk'.accounts[a].credential = [kind |-> k, token |-> o],
                      kept[k][o] \notin {None, a}
               PROVE  a \in Live(disk) /\ disk.accounts[a].credential = [kind |-> k, token |-> o]
    BY DEF TokensStayPut
  <2>1. u.owners[k][o] \notin {None, a}
    BY <1>7
  <2>2. a \in Live(d) /\ d.accounts[a].credential = [kind |-> k, token |-> o]
    BY <1>5 DEF Live
  <2>3. a \in Live(u) /\ u.accounts[a].credential = [kind |-> k, token |-> o]
    BY <1>3, <2>1, <2>2 DEF Outcome, TokensStay
  <2> QED BY <1>1, <2>3
<1>14. IInv'
  BY <1>5, <1>8, <1>10, <1>11, <1>12 DEF IInv
<1> QED BY <1>1, <1>5, <1>7, <1>13, <1>14

LEMMA AddStep ==
  ASSUME IInv, NEW t \in Tasks, NEW a \in Ids, NEW p \in Providers, NEW l \in Labels,
         NEW i \in Identities, NEW c \in Credential, Add(t, a, p, l, i, c)
  PROVE  IInv' /\ TokensStayPut /\ Remembers
<1> DEFINE b == tx[t].build
           u == tx[t].read
           d == Added(b, u, a, p, l, i, c)
<1>1. /\ Open(t) /\ a \notin drawn /\ Since[c.kind] <= b.format
      /\ ~Clashes(u, p, l, i) /\ MayReserve(b, u, a, c)
      /\ drawn' = drawn \cup {a} /\ Commit(t, d)
  BY DEF Add
<1>2. /\ b \in Builds /\ u \in Document /\ Sound(u) /\ OnlyKnown(b, u)
      /\ u.accounts = disk.accounts /\ Live(u) = Live(disk)
  BY <1>1, OpenResult
<1>3. Live(disk) \subseteq drawn /\ drawn \subseteq Ids
  BY DEF IInv, TypeOK
<1> HIDE DEF b, u
<1>4. Outcome(b, u, d) /\ EnabledStays(u, d) /\ Live(d) \subseteq Live(u) \cup {a}
  BY <1>1, <1>2, <1>3, AddOutcome
<1> HIDE DEF d
<1>5. /\ IInv' /\ TokensStayPut
      /\ disk' \in Document /\ disk'.accounts = d.accounts
      /\ \A k \in Rotating, o \in Tokens :
           kept[k][o] # None => disk'.owners[k][o] = kept[k][o]
      /\ disk.receipts \subseteq disk'.receipts
  BY <1>1, <1>2, <1>3, <1>4, CommitStep DEF b, u
<1>6. \A o \in Live(disk) \cap Live(disk') :
        disk'.accounts[o].enabled = disk.accounts[o].enabled
  BY <1>2, <1>4, <1>5 DEF EnabledStays, Live
<1> QED BY <1>5, <1>6 DEF Remembers

LEMMA RemoveStep ==
  ASSUME IInv, NEW t \in Tasks, NEW a \in Ids, Remove(t, a)
  PROVE  IInv' /\ TokensStayPut /\ Remembers
<1> DEFINE b == tx[t].build
           u == tx[t].read
<1>1. PICK d \in Removed(b, u, a) :
        /\ Open(t) /\ a \in Live(u) /\ MayReserve(b, u, a, u.accounts[a].credential)
        /\ drawn' = drawn /\ Commit(t, d)
  BY DEF Remove, Removals
<1>2. /\ b \in Builds /\ u \in Document /\ Sound(u) /\ OnlyKnown(b, u)
      /\ u.accounts = disk.accounts /\ Live(u) = Live(disk)
  BY <1>1, OpenResult
<1>3. Live(disk) \subseteq drawn /\ drawn \subseteq Ids
  BY DEF IInv, TypeOK
<1> HIDE DEF b, u
<1>4. Outcome(b, u, d) /\ EnabledStays(u, d) /\ Live(d) \subseteq Live(u)
  BY <1>1, <1>2, <1>3, RemoveOutcome
<1>5. /\ IInv' /\ TokensStayPut
      /\ disk' \in Document /\ disk'.accounts = d.accounts
      /\ \A k \in Rotating, o \in Tokens :
           kept[k][o] # None => disk'.owners[k][o] = kept[k][o]
      /\ disk.receipts \subseteq disk'.receipts
  BY <1>1, <1>2, <1>3, <1>4, CommitStep DEF b, u
<1>6. \A o \in Live(disk) \cap Live(disk') :
        disk'.accounts[o].enabled = disk.accounts[o].enabled
  BY <1>2, <1>4, <1>5 DEF EnabledStays, Live
<1> QED BY <1>5, <1>6 DEF Remembers

LEMMA RotateStep ==
  ASSUME IInv, NEW t \in Tasks, NEW a \in Ids, NEW token \in Tokens, Rotate(t, a, token)
  PROVE  IInv' /\ TokensStayPut /\ Remembers
<1> DEFINE b == tx[t].build
           u == tx[t].read
           c == [u.accounts[a].credential EXCEPT !.token = token]
           d == Rotated(b, u, a, c)
<1>1. /\ Open(t) /\ a \in Live(u) /\ u.accounts[a].credential.kind \in Rotating
      /\ MayReserve(b, u, a, c) /\ drawn' = drawn /\ Commit(t, d)
  BY DEF Rotate
<1>2. /\ b \in Builds /\ u \in Document /\ Sound(u) /\ OnlyKnown(b, u)
      /\ u.accounts = disk.accounts /\ Live(u) = Live(disk)
  BY <1>1, OpenResult
<1>3. Live(disk) \subseteq drawn /\ drawn \subseteq Ids
  BY DEF IInv, TypeOK
<1> HIDE DEF b, u
<1>4. Outcome(b, u, d) /\ EnabledStays(u, d) /\ Live(d) \subseteq Live(u)
  BY <1>1, <1>2, <1>3, RotateOutcome
<1> HIDE DEF c, d
<1>5. /\ IInv' /\ TokensStayPut
      /\ disk' \in Document /\ disk'.accounts = d.accounts
      /\ \A k \in Rotating, o \in Tokens :
           kept[k][o] # None => disk'.owners[k][o] = kept[k][o]
      /\ disk.receipts \subseteq disk'.receipts
  BY <1>1, <1>2, <1>3, <1>4, CommitStep DEF b, u
<1>6. \A o \in Live(disk) \cap Live(disk') :
        disk'.accounts[o].enabled = disk.accounts[o].enabled
  BY <1>2, <1>4, <1>5 DEF EnabledStays, Live
<1> QED BY <1>5, <1>6 DEF Remembers

LEMMA PatchStep ==
  ASSUME IInv, NEW t \in Tasks, NEW a \in Ids, NEW l \in {None} \cup Labels,
         NEW active \in BOOLEAN, NEW e \in {None} \cup BOOLEAN, Patch(t, a, l, active, e)
  PROVE  IInv' /\ TokensStayPut /\ Remembers
<1> DEFINE b == tx[t].build
           u == tx[t].read
           d == Patched(u, a, l, active, e)
<1>1. /\ Open(t) /\ a \in Live(u) /\ (l # None => MayRename(u, a, l))
      /\ drawn' = drawn /\ Commit(t, d)
  BY DEF Patch
<1>2. /\ b \in Builds /\ u \in Document /\ Sound(u) /\ OnlyKnown(b, u)
      /\ u.accounts = disk.accounts /\ Live(u) = Live(disk)
  BY <1>1, OpenResult
<1>3. Live(disk) \subseteq drawn /\ drawn \subseteq Ids
  BY DEF IInv, TypeOK
<1> HIDE DEF b, u
<1>4. /\ Outcome(b, u, d) /\ Live(d) \subseteq Live(u)
      /\ \A o \in Live(u) : \/ d.accounts[o].enabled = u.accounts[o].enabled
                            \/ o = a /\ d.accounts[o].enabled = e
  BY <1>1, <1>2, <1>3, PatchOutcome
<1> HIDE DEF d
<1>5. /\ IInv' /\ TokensStayPut
      /\ disk' \in Document /\ disk'.accounts = d.accounts
      /\ \A k \in Rotating, o \in Tokens :
           kept[k][o] # None => disk'.owners[k][o] = kept[k][o]
      /\ disk.receipts \subseteq disk'.receipts
  BY <1>1, <1>2, <1>3, <1>4, CommitStep DEF b, u
<1>6. ASSUME NEW o \in Live(disk) \cap Live(disk'),
             ~disk.accounts[o].enabled, disk'.accounts[o].enabled
      PROVE  Patch(t, o, l, active, TRUE)
  <2>1. disk'.accounts[o].enabled \in BOOLEAN
    BY <1>5, Fields DEF Account
  <2>2. o = a /\ disk'.accounts[o].enabled = e
    BY <1>2, <1>4, <1>5, <1>6
  <2>3. e = TRUE
    BY <1>6, <2>1, <2>2
  <2> QED BY <2>2, <2>3
<1>7. \A o \in Live(disk) \cap Live(disk') :
        ~disk.accounts[o].enabled /\ disk'.accounts[o].enabled =>
          \E v \in Tasks, m \in {None} \cup Labels, z \in BOOLEAN : Patch(v, o, m, z, TRUE)
  <2> SUFFICES ASSUME NEW o \in Live(disk) \cap Live(disk'),
                      ~disk.accounts[o].enabled, disk'.accounts[o].enabled
               PROVE  \E v \in Tasks, m \in {None} \cup Labels, z \in BOOLEAN :
                        Patch(v, o, m, z, TRUE)
    OBVIOUS
  <2>1. Patch(t, o, l, active, TRUE)
    BY <1>6
  <2> QED BY <2>1
<1> QED BY <1>5, <1>7 DEF Remembers

----------------------------------------------------------------------------
(* The lock.                                                                *)

\* A step that writes nothing.
LEMMA UnwrittenStep ==
  ASSUME IInv, UNCHANGED <<disk, drawn, kept>>, LockInv', ReadsAreCurrent',
         at' \in [Tasks -> {"idle", "entered", "open", "ended"}],
         tx' \in [Tasks -> {None} \cup Tx],
         inside' \in [Processes -> {None} \cup Tasks],
         flocked' \subseteq Tasks
  PROVE  IInv' /\ TokensStayPut /\ Remembers
<1>1. TypeOK' /\ KeptInv' /\ Live(disk') \subseteq drawn' /\ Sound(disk')
  BY DEF IInv, TypeOK, KeptInv
<1>2. IInv'
  BY <1>1 DEF IInv
<1>3. TokensStayPut
  BY DEF TokensStayPut
<1>4. \A k \in Rotating, t \in Tokens : kept[k][t] # None => disk'.owners[k][t] = kept[k][t]
  BY DEF IInv, KeptInv
<1> QED BY <1>2, <1>3, <1>4 DEF Remembers

LEMMA EnterStep ==
  ASSUME IInv, NEW t \in Tasks, Enter(t)
  PROVE  IInv' /\ TokensStayPut /\ Remembers
<1>1. /\ at[t] = "idle" /\ inside[Process[t]] = None
      /\ inside' = [inside EXCEPT ![Process[t]] = t]
      /\ at' = [at EXCEPT ![t] = "entered"]
      /\ UNCHANGED <<disk, tx, flocked, drawn, kept>>
  BY DEF Enter, Goto
<1>2. TypeOK /\ LockInv /\ ReadsAreCurrent /\ Process[t] \in Processes
  BY DEF IInv, Processes
<1>3. LockInv' /\ ReadsAreCurrent'
  <2>1. \A v \in Tasks \ {t} : at'[v] = at[v] /\ at'[t] = "entered"
    BY <1>1, <1>2 DEF TypeOK
  <2>2. ASSUME NEW v \in Tasks, at'[v] # "idle" PROVE inside'[Process[v]] = v
    <3>1. Process[v] \in Processes
      BY DEF Processes
    <3> QED BY <1>1, <1>2, <2>1, <2>2, <3>1 DEF TypeOK, LockInv
  <2> QED BY <1>1, <1>2, <2>1, <2>2 DEF TypeOK, LockInv, ReadsAreCurrent, Open
<1>4. /\ at' \in [Tasks -> {"idle", "entered", "open", "ended"}]
      /\ inside' \in [Processes -> {None} \cup Tasks]
  BY <1>1, <1>2 DEF TypeOK
<1> QED BY <1>1, <1>2, <1>3, <1>4, UnwrittenStep DEF TypeOK

LEMMA BeginStep ==
  ASSUME IInv, NEW t \in Tasks, NEW b \in Builds, Begin(t, b)
  PROVE  IInv' /\ TokensStayPut /\ Remembers
<1>1. /\ at[t] = "entered" /\ \A v \in flocked : Process[v] = Process[t]
      /\ flocked' = flocked \cup {t}
      /\ UNCHANGED <<disk, inside, drawn, kept>>
  BY DEF Begin
<1>2. TypeOK /\ LockInv /\ ReadsAreCurrent
  BY DEF IInv
\* The flag of the process keeps the others of it out.
<1>3. flocked = {}
  <2> SUFFICES ASSUME NEW v \in flocked PROVE FALSE
    OBVIOUS
  <2>1. v \in Tasks /\ at[v] \in {"open", "ended"} /\ inside[Process[v]] = v
    BY <1>2 DEF TypeOK, LockInv
  <2>2. inside[Process[t]] = t /\ Process[v] = Process[t]
    BY <1>1, <1>2 DEF LockInv
  <2> QED BY <1>1, <2>1, <2>2
<1>4. \A v \in Tasks : at[v] \notin {"open", "ended"}
  BY <1>2, <1>3 DEF LockInv
<1>5. CASE Accepts(b, disk)
  <2> DEFINE new == [build |-> b, read |-> Understood(b, disk)]
  <2>1. at' = [at EXCEPT ![t] = "open"] /\ tx' = [tx EXCEPT ![t] = new]
    BY <1>5 DEF Begin, Goto
  <2>2. Understood(b, disk) \in Document
    BY <1>5, UnderstoodResult DEF IInv, TypeOK
  <2>3. new \in Tx /\ new.build = b /\ new.read = Understood(b, disk)
    BY <2>2 DEF Tx
  <2> HIDE DEF new
  <2>4. /\ at' \in [Tasks -> {"idle", "entered", "open", "ended"}]
        /\ tx' \in [Tasks -> {None} \cup Tx]
        /\ at'[t] = "open" /\ tx'[t] = new
        /\ \A v \in Tasks \ {t} : at'[v] = at[v]
    BY <1>2, <2>1, <2>3 DEF TypeOK
  <2>5. LockInv'
    BY <1>1, <1>2, <1>3, <1>4, <1>5, <2>3, <2>4 DEF LockInv, Open
  <2>6. ReadsAreCurrent'
    BY <1>1, <1>4, <2>3, <2>4 DEF ReadsAreCurrent, Open
  <2> QED BY <1>1, <1>2, <2>4, <2>5, <2>6, UnwrittenStep DEF TypeOK
<1>6. CASE ~Accepts(b, disk)
  <2>1. at' = [at EXCEPT ![t] = "ended"] /\ tx' = tx
    BY <1>6 DEF Begin, Goto
  <2>2. /\ at' \in [Tasks -> {"idle", "entered", "open", "ended"}]
        /\ at'[t] = "ended" /\ \A v \in Tasks \ {t} : at'[v] = at[v]
    BY <1>2, <2>1 DEF TypeOK
  <2>3. LockInv' /\ ReadsAreCurrent'
    BY <1>1, <1>2, <1>3, <1>4, <2>1, <2>2 DEF LockInv, ReadsAreCurrent, Open
  <2> QED BY <1>1, <1>2, <2>1, <2>2, <2>3, UnwrittenStep DEF TypeOK
<1> QED BY <1>5, <1>6

LEMMA UnlockStep ==
  ASSUME IInv, NEW t \in Tasks, Unlock(t)
  PROVE  IInv' /\ TokensStayPut /\ Remembers
<1>1. /\ at[t] \in {"open", "ended"} /\ flocked' = flocked \ {t}
      /\ tx' = [tx EXCEPT ![t] = None] /\ at' = [at EXCEPT ![t] = "entered"]
      /\ UNCHANGED <<disk, inside, drawn, kept>>
  BY DEF Unlock, Goto
<1>2. TypeOK /\ LockInv /\ ReadsAreCurrent
  BY DEF IInv
<1>3. /\ at' \in [Tasks -> {"idle", "entered", "open", "ended"}]
      /\ tx' \in [Tasks -> {None} \cup Tx]
      /\ at'[t] = "entered"
      /\ \A v \in Tasks \ {t} : at'[v] = at[v] /\ tx'[v] = tx[v]
  BY <1>1, <1>2 DEF TypeOK
<1>4. LockInv' /\ ReadsAreCurrent'
  BY <1>1, <1>2, <1>3 DEF LockInv, ReadsAreCurrent, Open
<1> QED BY <1>1, <1>2, <1>3, <1>4, UnwrittenStep DEF TypeOK

LEMMA LeaveStep ==
  ASSUME IInv, NEW t \in Tasks, Leave(t)
  PROVE  IInv' /\ TokensStayPut /\ Remembers
<1>1. /\ at[t] = "entered" /\ inside' = [inside EXCEPT ![Process[t]] = None]
      /\ at' = [at EXCEPT ![t] = "idle"]
      /\ UNCHANGED <<disk, tx, flocked, drawn, kept>>
  BY DEF Leave, Goto
<1>2. TypeOK /\ LockInv /\ ReadsAreCurrent
  BY DEF IInv
<1>3. /\ at' \in [Tasks -> {"idle", "entered", "open", "ended"}]
      /\ inside' \in [Processes -> {None} \cup Tasks]
      /\ at'[t] = "idle" /\ \A v \in Tasks \ {t} : at'[v] = at[v]
  BY <1>1, <1>2 DEF TypeOK
<1>4. ASSUME NEW v \in Tasks, at'[v] # "idle" PROVE inside'[Process[v]] = v
  <2>1. v # t /\ at[v] # "idle" /\ Process[v] \in Processes
    BY <1>3, <1>4 DEF Processes
  <2>2. inside[Process[v]] = v /\ inside[Process[t]] = t
    BY <1>1, <1>2, <2>1 DEF LockInv
  <2> QED BY <1>1, <1>2, <2>1, <2>2 DEF TypeOK
<1>5. LockInv' /\ ReadsAreCurrent'
  BY <1>1, <1>2, <1>3, <1>4 DEF LockInv, ReadsAreCurrent, Open
<1> QED BY <1>1, <1>2, <1>3, <1>5, UnwrittenStep DEF TypeOK

LEMMA CrashStep ==
  ASSUME IInv, NEW p \in Processes, Crash(p)
  PROVE  IInv' /\ TokensStayPut /\ Remembers
<1>1. /\ at' = [t \in Tasks |-> IF Process[t] = p THEN "idle" ELSE at[t]]
      /\ tx' = [t \in Tasks |-> IF Process[t] = p THEN None ELSE tx[t]]
      /\ inside' = [inside EXCEPT ![p] = None]
      /\ flocked' = {t \in flocked : Process[t] # p}
      /\ UNCHANGED <<disk, drawn, kept>>
  BY DEF Crash
<1>2. TypeOK /\ LockInv /\ ReadsAreCurrent
  BY DEF IInv
<1>3. \A t \in Tasks :
        /\ Process[t] = p => at'[t] = "idle" /\ tx'[t] = None
        /\ Process[t] # p => at'[t] = at[t] /\ tx'[t] = tx[t]
                            /\ inside'[Process[t]] = inside[Process[t]]
  <2> SUFFICES ASSUME NEW t \in Tasks
               PROVE  /\ Process[t] = p => at'[t] = "idle" /\ tx'[t] = None
                      /\ Process[t] # p => at'[t] = at[t] /\ tx'[t] = tx[t]
                            /\ inside'[Process[t]] = inside[Process[t]]
    OBVIOUS
  <2>1. Process[t] \in Processes
    BY DEF Processes
  <2> QED BY <1>1, <1>2, <2>1 DEF TypeOK
<1>4. /\ at' \in [Tasks -> {"idle", "entered", "open", "ended"}]
      /\ tx' \in [Tasks -> {None} \cup Tx]
      /\ inside' \in [Processes -> {None} \cup Tasks]
  <2>1. at' \in [Tasks -> {"idle", "entered", "open", "ended"}]
    BY <1>1, <1>2 DEF TypeOK
  <2>2. tx' \in [Tasks -> {None} \cup Tx]
    BY <1>1, <1>2 DEF TypeOK
  <2> QED BY <1>1, <1>2, <2>1, <2>2 DEF TypeOK
<1>5. LockInv'
  BY <1>1, <1>2, <1>3 DEF LockInv, Open
<1>6. ReadsAreCurrent'
  BY <1>1, <1>2, <1>3 DEF ReadsAreCurrent, Open
<1> QED BY <1>1, <1>2, <1>4, <1>5, <1>6, UnwrittenStep DEF TypeOK

----------------------------------------------------------------------------
(* The theorems.                                                            *)

LEMMA InitIInv == Init => IInv
<1> SUFFICES ASSUME Init PROVE IInv
  OBVIOUS
<1>1. /\ disk = EmptyDocument /\ at = [t \in Tasks |-> "idle"] /\ tx = [t \in Tasks |-> None]
      /\ inside = [p \in Processes |-> None] /\ flocked = {} /\ drawn = {}
      /\ kept = EmptyDocument.owners
  BY DEF Init
<1>2. /\ disk \in Document /\ disk.receipts = {} /\ Live(disk) = {}
      /\ \A k \in Rotating, t \in Tokens : disk.owners[k][t] = None
      /\ kept = disk.owners /\ kept \in [Rotating -> [Tokens -> {None} \cup Ids]]
  BY <1>1 DEF EmptyDocument, Document, Live
<1>3. TypeOK
  BY <1>1, <1>2 DEF TypeOK
<1>4. LockInv /\ ReadsAreCurrent
  BY <1>1 DEF LockInv, ReadsAreCurrent, Open
<1>5. KeptInv
  BY <1>2 DEF KeptInv
<1>6. InFormat(disk) /\ IsFiniteSet(disk.receipts)
  BY <1>2, FS_EmptySet DEF InFormat, Reserved
<1>7. \A p \in Providers : Of(disk, p) = {}
  BY <1>2 DEF Of
<1> QED BY <1>1, <1>2, <1>3, <1>4, <1>5, <1>6, <1>7 DEF IInv, Sound, OneActiveIn, DistinctIn

LEMMA NextIInv == IInv /\ [Next]_vars => IInv' /\ [TokensStayPut]_vars /\ [Remembers]_vars
<1> SUFFICES ASSUME IInv, [Next]_vars
             PROVE  IInv' /\ (TokensStayPut \/ UNCHANGED vars) /\ (Remembers \/ UNCHANGED vars)
  OBVIOUS
<1>1. ASSUME NEW t \in Tasks, Transact(t) PROVE IInv' /\ TokensStayPut /\ Remembers
  <2>1. CASE \E a \in Ids, p \in Providers, l \in Labels, i \in Identities, c \in Credential :
               Add(t, a, p, l, i, c)
    BY <2>1, AddStep
  <2>2. CASE \E a \in Ids : Remove(t, a)
    BY <2>2, RemoveStep
  <2>3. CASE \E a \in Ids, l \in {None} \cup Labels, active \in BOOLEAN, e \in {None} \cup BOOLEAN :
               Patch(t, a, l, active, e)
    BY <2>3, PatchStep
  <2>4. CASE \E a \in Ids, token \in Tokens : Rotate(t, a, token)
    BY <2>4, RotateStep
  <2> QED BY <1>1, <2>1, <2>2, <2>3, <2>4 DEF Transact
<1>2. ASSUME NEW t \in Tasks, Enter(t) \/ (\E b \in Builds : Begin(t, b)) \/ Unlock(t) \/ Leave(t)
      PROVE  IInv' /\ TokensStayPut /\ Remembers
  BY <1>2, EnterStep, BeginStep, UnlockStep, LeaveStep
<1>3. ASSUME NEW p \in Processes, Crash(p) PROVE IInv' /\ TokensStayPut /\ Remembers
  BY <1>3, CrashStep
<1>4. CASE UNCHANGED vars
  <2>1. UNCHANGED <<disk, at, tx, inside, flocked, drawn, kept>>
    BY <1>4 DEF vars
  <2>2. LockInv' /\ ReadsAreCurrent'
    BY <2>1 DEF IInv, LockInv, ReadsAreCurrent, Open
  <2> QED BY <2>1, <2>2, UnwrittenStep DEF IInv, TypeOK
<1> QED BY <1>1, <1>2, <1>3, <1>4 DEF Next

\* IInv, from which the others follow, holds in every reachable state.
THEOREM Inductive == Spec => []IInv
<1> QED BY InitIInv, NextIInv, PTL DEF Spec

\* Every variable keeps its type.
THEOREM TypeCorrect == Spec => []TypeOK
<1>1. IInv => TypeOK
  BY DEF IInv
<1> QED BY <1>1, Inductive, PTL

\* What a transaction commits onto is what it read, however many tasks of however
\* many processes open the vault, and wherever they are killed (VaultLock).
THEOREM ReadsCurrent == Spec => []ReadsAreCurrent
<1>1. IInv => ReadsAreCurrent
  BY DEF IInv
<1> QED BY <1>1, Inductive, PTL

\* The current build can always open the vault, after any sequence of writes of any
\* builds (the gates of Vault::begin and the upgrades of commit).
THEOREM AlwaysReadable == Spec => []Readable
<1>1. ASSUME IInv PROVE Readable
  <2>1. disk \in Document /\ InFormat(disk) /\ disk.version \in 1..8
    BY <1>1, Fields DEF IInv, TypeOK, Sound
  <2>2. Parses(Current, disk)
    <3> SUFFICES ASSUME NEW a \in Live(disk)
                 PROVE  Since[disk.accounts[a].credential.kind] <= 8
      BY DEF Parses, Current
    <3>1. disk.accounts[a].credential.kind \in Kinds
      BY <2>1, Fields, CredentialFields DEF Account
    <3> QED BY <3>1, FormatsOfKinds
  <2>3. Understood(Current, disk) = disk
    <3>1. \A o \in Rotating : o \in Current.tables
      BY DEF Current
    <3>2. Current.format = 8
      BY DEF Current
    <3> DEFINE acc == [a \in Ids |-> IF disk.accounts[a] # None /\ Current.format < 4
                                    THEN [disk.accounts[a] EXCEPT !.enabled = TRUE]
                                    ELSE disk.accounts[a]]
               own == [k \in Rotating |-> IF k \in Current.tables THEN disk.owners[k]
                                         ELSE [t \in Tokens |-> None]]
    <3>3. acc = disk.accounts
      BY <2>1, <3>2, Fields
    <3>4. own = disk.owners
      BY <2>1, <3>1, Fields
    <3>5. Understood(Current, disk) = [disk EXCEPT !.accounts = acc,
            !.receipts = IF Current.format < 2 THEN {} ELSE disk.receipts, !.owners = own]
      BY DEF Understood
    <3> HIDE DEF acc, own
    <3>6. Understood(Current, disk) = [disk EXCEPT !.accounts = disk.accounts,
            !.receipts = disk.receipts, !.owners = disk.owners]
      BY <3>2, <3>3, <3>4, <3>5
    <3> QED BY <2>1, <3>6 DEF Document
  <2> QED BY <2>1, <2>2, <2>3 DEF Readable, Accepts, Current
<1> QED BY <1>1, Inductive, PTL

\* A provider with accounts has exactly one active account, and its labels and
\* identities stay distinct, after any sequence of writes of any builds.
THEOREM AlwaysConsistent == Spec => []Consistent
<1>1. IInv => Consistent
  BY DEF IInv, Sound, Consistent
<1> QED BY <1>1, Inductive, PTL

\* No write of any build forgets a receipt, a reservation a current build has kept,
\* or that an account is disabled.
THEOREM NeverForgotten == Spec => NothingForgotten
<1> QED BY InitIInv, NextIInv, PTL DEF Spec, NothingForgotten

\* A token that is reserved for an account never becomes another's.
THEOREM TokensStayWithOwners == Spec => TokenStaysWithOwner
<1> QED BY InitIInv, NextIInv, PTL DEF Spec, TokenStaysWithOwner
==============================================================================
