----------------------------- MODULE Collection -----------------------------
(***************************************************************************)
(* One collection of usage: the selected accounts are fetched side by side, *)
(* each tried again while that is safe and there is time, and what they      *)
(* show is checked and made into one report (fetch.rs), with the accounts   *)
(* of the vault read through ManagedProvider (accounts/service.rs).         *)
(*                                                                         *)
(* The world is fixed: the selection it leads to, which accounts are on a   *)
(* personal plan and whether the accounts are of one mail address.  What    *)
(* the providers answer is not: every request may fail, and of the numbers  *)
(* a reply carries those of one lane may be anything.                       *)
(***************************************************************************)
EXTENDS Selection

CONSTANTS
  Accounts,      \* the accounts of a provider
  Mine,          \* the one whose key or token the environment has
  Worlds,        \* the worlds considered
  MaxOdd(_),     \* lanes out of the ordinary in a collection of a world
  MaxTrouble(_), \* those, requests that fail and changes of the saved account
  MaxLogins(_)   \* logins to the provider's own program, the first among them

ASSUME MineAssumption == Mine \in Accounts

\* An account is none of the two marks for whose login a request is made with.
ASSUME AskersApart == Accounts \cap {Self, Login} = {}

\* A saved account of a provider: of the fields of Account, those that the selection reads.
SavedAccount(p) ==
  [kind : SavedKinds(p), account : Accounts, enabled : BOOLEAN, system : BOOLEAN]

(* A mail address has at most one personal account where the world says so:  *)
(* "local identity is sufficient for a unique personal account" in fetch.rs. *)
ASSUME WorldsAreWorlds ==
  \A w \in Worlds :
    /\ w.provider \in Providers
    /\ w.mode \in {"named", "detected", "named_unsaved", "detected_unsaved"}
    /\ w.saved \in Seq(SavedAccount(w.provider))
    /\ w.oneMail => \A a, b \in w.personal : a = b
    /\ MaxOdd(w) \in Nat /\ MaxTrouble(w) \in Nat /\ MaxLogins(w) \in Nat \ {0}

VARIABLES
  world,      \* what the selection was made from
  plan,       \* the selected entries
  logins,     \* the accounts logged in to the provider's own program, in turn
  odd,        \* how many lanes were out of the ordinary so far
  faults,     \* how many requests failed, or found the account changed
  tasks       \* for each entry: its attempt, the replies of it, its result

vars == <<world, plan, logins, odd, faults, tasks>>

login == logins[Len(logins)]

-----------------------------------------------------------------------------
(* Saved accounts.                                                         *)

VaultErrors == {"Busy", "Storage"}

Vault(r, s, says, o) == Step(r, Question(s, Self, NoLanes, says, VaultErrors), o)

(* The fetch of the local adapter, or the quota request made with the        *)
(* credential of a saved account.                                           *)
Quota(p, kind, r) ==
  CASE kind # "local" /\ p = "codex" -> CodexApi(r)
    [] kind # "local" /\ p = "amp" -> AmpApi(r, Self)
    [] kind \in {"owned", "borrowed"} /\ p = "factory" -> FactoryOAuth(r)
    [] kind # "local" /\ p = "kiro" -> Owned(r["limits"].of,
                           KiroMetadata(r, KiroUsage(r, Self, kind = "borrowed")))
    [] OTHER -> Local(p, r)

(* Nothing to show is no usage. *)
Complete(o) == IF Open(o) THEN o ELSE Valid(o.shows # {}, o)

(* One outcome after another of the same account. *)
Then(o, p) == Owned(o.account, o ++ p)

(* What was read is shown only if the account still has the credential. *)
VerifyCurrent(r, o) ==
  Then(Complete(o),
    Vault(r, "verify", {"same", "changed", "missing"},
      Require(r.verify.says # "missing", "NotFound",
        Require(r.verify.says = "same", "Busy", Nothing))))

(* A reference is resolved before and after, and must be to the same login;   *)
(* one that runs out is refused by the two that know when it does.           *)
Borrowed(p, r, quota) ==
  LET resolve(s, o) ==
        Step(r, Question(s, Login, NoLanes, {"ok", "expiring", "missing"},
                         VaultErrors \cup {"Authentication"}),
          Require(r[s].says # "missing", "NotFound", o))
      expired == IF p = "kiro" THEN Fails("OwnerRefreshRequired") ELSE Fails("Authentication")
      usable == ~(r.resolve.says = "expiring" /\ p \in {"kiro", "antigravity"})
      again == resolve("resolve_again",
                 Require(/\ r["resolve_again"].of = r.resolve.of
                         /\ r["resolve_again"].says = r.resolve.says, "Busy", Nothing))
  IN  resolve("resolve", Then(Complete(IF usable THEN quota ELSE expired), again))

(* The refresh, under the account's lock.  The token is marked as sent first, *)
(* except that of Codex, and the new one must be installed in place of it.   *)
(* A credential that another process has renewed is used instead.            *)
Renewed(p, r, quota) ==
  LET still(s, o) ==
        Require(r[s].says # "missing", "NotFound",
          Require(r[s].says # "disabled", "SourceDisabled",
            Require(r[s].says # "changed", "Busy", o)))
      there(s, says, o) == Vault(r, s, {"disabled", "missing"} \cup says, still(s, o))
      rotate == Step(r, Question("rotate", Self, NoLanes, {"ok"}, HttpErrors),
                  there("installed", {"ok", "changed"}, quota))
  IN  there("latest", {"same", "renewed"},
        IF r.latest.says = "renewed" THEN quota
        ELSE IF p = "codex" THEN rotate
        ELSE Vault(r, "fence", {"ok", "missing", "changed"}, still("fence", rotate)))

(* Once the credential is another one, what is answered is of that. *)
Moved(r) == \/ "installed" \in DOMAIN r
            \/ "latest" \in DOMAIN r /\ r.latest.error = None /\ r.latest.says = "renewed"

(* ManagedProvider::read, with what the credential it has now is answered.    *)
Managed(p, kind, r, later, quota) ==
  LET says == {"fresh", "disabled", "missing"}
                \cup (IF kind = "owned" THEN {"expiring"} ELSE {})
                \cup (IF kind = "owned" /\ p # "codex" THEN {"pending"} ELSE {})
      read == CASE kind = "key" -> VerifyCurrent(r, quota)
                [] kind = "borrowed" -> VerifyCurrent(r, Borrowed(p, r, quota))
                [] kind = "owned" ->
                     IF r.read.says = "expiring" \/ Moved(r) \/ quota.error = "Authentication"
                     THEN Renewed(p, r, VerifyCurrent(later, quota))
                     ELSE VerifyCurrent(r, quota)
  IN  Vault(r, "read", says,
        Require(r.read.says # "missing", "NotFound",
          Require(r.read.says # "disabled", "SourceDisabled",
            Require(r.read.says # "pending", "CommitUncertain", read))))

(* What the errors of an account are to the collector. *)
AccountEnds == [Busy |-> "Transient", Storage |-> "CredentialStorage",
                CommitUncertain |-> "CredentialStorage", NotFound |-> "Authentication",
                OAuth |-> "Authentication", QuotaForbidden |-> "Authentication"]

ProviderErrors ==
  HttpErrors \cup QuotaErrors
    \cup {"Internal", "Cancelled", "CredentialStorage", "LocalCredentialStorage",
          "OwnerRefreshRequired", "SourceDisabled"}

ASSUME NoneIsNothing == None \notin Accounts \cup ProviderErrors \cup DOMAIN AccountEnds

Reported(kind, error) ==
  CASE error \in DOMAIN AccountEnds -> AccountEnds[error]
    [] error = "Authentication" /\ kind = "borrowed" -> "OwnerRefreshRequired"
    [] OTHER -> error

(* Mutant: every saved account may be asked again. *)
IdempotentIfSaved(p, kind) == IF kind = "local" THEN LocalIdempotent(p) ELSE kind # "failed"

(* ManagedProvider::idempotent, and that of the adapters. *)
Idempotent(p, kind) ==
  CASE kind = "local" -> LocalIdempotent(p)
    [] kind = "failed" -> FALSE
    [] OTHER -> p # "codex" /\ kind # "owned"

-----------------------------------------------------------------------------
(* A task: the attempt it is at, the replies so far, those after the        *)
(* credential was replaced, how often its refresh token was sent, and what   *)
(* follows: the next question, or the result.                               *)

NewTask == [attempt |-> 0, first |-> <<>>, later |-> <<>>, sent |-> 0, result |-> Nothing]

OfKind(kind, quota, managed) ==
  CASE kind = "local" -> quota
    [] kind = "failed" -> Fails("CredentialStorage")
    [] OTHER -> IF managed.error = None THEN managed ELSE Fails(Reported(kind, managed.error))

Answers(task) == IF Moved(task.first) THEN task.later ELSE task.first

Fetched(p, kind, task, quota) ==
  OfKind(kind, quota, Managed(p, kind, task.first, task.later, quota))

Outcome(kind, task) ==
  Fetched(world.provider, kind, task, Quota(world.provider, kind, Answers(task)))

(* A result has its replies beside it only while they matter to it. *)
Ended(task, result) ==
  LET replies(r) == IF result.error = None THEN r ELSE <<>>
  IN  [task EXCEPT !.result = result, !.first = replies(@), !.later = replies(@)]

(* Mutant: a report without windows is accepted. *)
AcceptedEmpty(o) == o

(* The collector refuses a report without windows, or with negative use. *)
Accepted(o) ==
  IF o.error = None /\ (o.shows = {} \/ \E w \in o.shows : Given(w.used) /\ w.used < 0)
  THEN Fails("InvalidData") ELSE o

(* Three attempts at most, the next only after a transient failure, and of   *)
(* an adapter that may be asked again.                                      *)
Retriable(kind, task, error) ==
  error = "Transient" /\ Idempotent(world.provider, kind) /\ task.attempt < 2

(* What a task does with what it knows: it asks on, tries again or ends. *)
Settle(kind, task, o) ==
  CASE o.asks # {} -> [task EXCEPT !.result = o]
    [] o.asks = {} /\ Retriable(kind, task, o.error) ->
         [NewTask EXCEPT !.attempt = task.attempt + 1, !.sent = task.sent,
                         !.result = Outcome(kind, NewTask)]
    [] OTHER -> Ended(task, Accepted(o))
Settled(kind, task) == Settle(kind, task, Outcome(kind, task))

Init ==
  /\ world \in Worlds
  /\ plan = Selected(world)
  /\ DOMAIN plan # {}
  /\ \E account \in Accounts : logins = <<account>>
  /\ odd = 0
  /\ faults = 0
  /\ tasks = [t \in DOMAIN plan |-> Settled(plan[t].kind, NewTask)]

Working(t) == tasks[t].result.asks # {}

-----------------------------------------------------------------------------
(* What the tasks are answered.                                            *)

(* Whose credential a request of the task carries. *)
Asker(t, of) ==
  CASE of = Login -> login
    [] of = Self /\ plan[t].kind = "local" -> Mine
    [] of = Self /\ plan[t].kind # "local" ->
         IF "resolve" \in DOMAIN tasks[t].first THEN tasks[t].first.resolve.of ELSE plan[t].account
    [] OTHER -> of

(* The accounts that are told apart by no more than a mail address and a     *)
(* plan, as a program says them: those of one address that are on no personal *)
(* plan ("email and plan, but no workspace ID" in codex.rs).                 *)
Alike(a, b) == a = b \/ (world.oneMail /\ {a, b} \cap world.personal = {})
Looks(a) == {b \in Accounts : Alike(a, b)}

(* The key or token of the environment is there or not throughout; that of a *)
(* saved account was checked before it was saved.                           *)
Says(t, q) ==
  IF q.step \notin {"key", "token"} THEN q.says
  ELSE IF plan[t].kind # "local" THEN {"ok"}
  ELSE IF world.keyed THEN q.says \ {"none", "missing"} ELSE q.says \cap {"none", "missing"}

(* The lanes of a reply: as they ordinarily are, one quarter used, or one of  *)
(* them empty or with one or two fields of it as they ordinarily are not.    *)
Numbers == {Absent, Bad, 0, Whole, Whole + 1}
Typical == [used |-> 1, limit |-> Whole, left |-> 3, spent |-> 1, over |-> 3]

Lane(fields, n) == [f \in Fields |-> IF f \in fields THEN n[f] ELSE Absent]
Ordinary(lanes) == [l \in DOMAIN lanes |-> Lane(lanes[l], Typical)]
OddLanes(fields) ==
  {Lane({}, Typical)}
    \cup {Lane(fields, [Typical EXCEPT ![f] = m, ![g] = n]) :
            f \in fields, g \in fields, m \in Numbers, n \in Numbers}
OutOfOrdinary(lanes) ==
  UNION {{[Ordinary(lanes) EXCEPT ![l] = lane] : lane \in OddLanes(lanes[l])} : l \in DOMAIN lanes}

With(r, s, reply) == [x \in DOMAIN r \cup {s} |-> IF x = s THEN reply ELSE r[x]]

Told(t, q, reply) ==
  LET moved == Moved(tasks[t].first)
      sent == IF q.step = "rotate" THEN 1 ELSE 0
      heard == [tasks[t] EXCEPT !.first = IF moved THEN @ ELSE With(@, q.step, reply),
                                !.later = IF moved THEN With(@, q.step, reply) ELSE @,
                                !.sent = @ + sent]
  IN  tasks' = [tasks EXCEPT ![t] = Settled(plan[t].kind, heard)]

(* What is found of a saved account when nothing happens to it while it is    *)
(* read.                                                                    *)
Unchanged == [verify |-> "same", latest |-> "same", fence |-> "ok", installed |-> "ok",
              resolve |-> "ok", resolve_again |-> "ok"]
Undisturbed(q, reply) ==
  reply.error = None /\ (q.step \in DOMAIN Unchanged => reply.says = Unchanged[q.step])

(* A question is answered, ordinarily or not, or it fails. *)
Replies(t, q) ==
  LET reply(error, says, wire) ==
        [error |-> error, says |-> says, wire |-> wire, of |-> Asker(t, q.of),
         like |-> Looks(Asker(t, q.of))]
      more == odd + faults < MaxTrouble(world)
      wires == IF more /\ odd < MaxOdd(world) THEN OutOfOrdinary(q.lanes) ELSE {}
      errors == IF more THEN q.fails ELSE {}
  IN  {reply(None, says, wire) : says \in Says(t, q), wire \in {Ordinary(q.lanes)} \cup wires}
        \cup {reply(error, None, Ordinary(q.lanes)) : error \in errors}

Proceed(t) ==
  /\ Working(t)
  /\ \E q \in tasks[t].result.asks : \E reply \in Replies(t, q) :
       LET strange == IF reply.wire # Ordinary(q.lanes) THEN 1 ELSE 0
           trouble == IF Undisturbed(q, reply) THEN 0 ELSE 1
       IN  /\ odd + faults + strange + trouble <= MaxTrouble(world)
           /\ odd' = odd + strange
           /\ faults' = faults + trouble
           /\ Told(t, q, reply)
  /\ UNCHANGED <<world, plan, logins>>

(* The deadline covers every attempt. *)
Expire(t) ==
  /\ Working(t)
  /\ tasks' = [tasks EXCEPT ![t] = Ended(@, Fails("Timeout"))]
  /\ UNCHANGED <<world, plan, logins, odd, faults>>

Panic(t) ==
  /\ Working(t)
  /\ tasks' = [tasks EXCEPT ![t] = Ended(@, Fails("Internal"))]
  /\ UNCHANGED <<world, plan, logins, odd, faults>>

(* Cancellation is looked at before anything else: no task goes on after it.  *)
Cancel ==
  /\ \E t \in DOMAIN plan : Working(t)
  /\ tasks' = [t \in DOMAIN plan |->
                 IF Working(t) THEN Ended(tasks[t], Fails("Cancelled")) ELSE tasks[t]]
  /\ UNCHANGED <<world, plan, logins, odd, faults>>

(* Somebody logs in to the provider's program while it is asked. *)
Switch ==
  /\ \E t \in DOMAIN plan : Working(t)
  /\ Len(logins) < MaxLogins(world)
  /\ \E account \in Accounts \ {login} : logins' = Append(logins, account)
  /\ UNCHANGED <<world, plan, odd, faults, tasks>>

Next ==
  \/ \E t \in DOMAIN plan : Proceed(t) \/ Expire(t) \/ Panic(t)
  \/ Cancel \/ Switch

Spec == Init /\ [][Next]_vars

-----------------------------------------------------------------------------
(* The report.                                                             *)

Succeeded(t) == tasks[t].result.error = None
OfVault(t) == plan[t].kind \in {"key", "owned", "borrowed"}
SavedUsages == {t \in DOMAIN plan : OfVault(t) /\ Succeeded(t)}

Account(t) == tasks[t].result.account
Personal(t) == Account(t) \in world.personal
SameMail(t, s) == world.oneMail \/ Account(t) = Account(s)

(* What is shown, whoever's it is. *)
Shown(t) == {[w EXCEPT !.of = None] : w \in tasks[t].result.shows}

(* Mutant: one mail address is one account. *)
DuplicateByMail(t) == \E s \in SavedUsages : SameMail(t, s)

(* reconcile_accounts: a local usage is dropped for a saved one of the same  *)
(* key; of Amp for one that shows the same; of Codex, whose local usage has   *)
(* a mail address and no more, for the only one of that address, when both   *)
(* are personal.                                                            *)
Duplicate(t) ==
  LET p == world.provider
      mail == {s \in SavedUsages : SameMail(t, s)}
  IN  CASE p \in CatalogKeys \cup KeyApis -> \E s \in SavedUsages : Account(s) = Account(t)
        [] p = "amp" -> \E s \in SavedUsages : Account(s) = Account(t) /\ Shown(s) = Shown(t)
        [] p = "codex" -> Personal(t) /\ Cardinality(mail) = 1 /\ \A s \in mail : Personal(s)
        [] OTHER -> FALSE

(* What is shown once every task has ended; the rest are its failures. *)
Reporting == \A t \in DOMAIN plan : ~Working(t)
Kept == {t \in DOMAIN plan : Succeeded(t) /\ ~(plan[t].kind = "local" /\ Duplicate(t))}

-----------------------------------------------------------------------------
(* Properties.                                                             *)

(* The types of the state: an ended task has an error or the usage of an     *)
(* account (Collector::collect).                                            *)
TypeOK ==
  /\ world \in Worlds /\ plan = Selected(world)
  /\ logins \in Seq(Accounts) /\ Len(logins) \in 1..MaxLogins(world)
  /\ odd \in 0..MaxOdd(world) /\ faults \in 0..MaxTrouble(world)
  /\ DOMAIN tasks = DOMAIN plan
  /\ \A t \in DOMAIN plan :
       /\ tasks[t].attempt \in 0..2
       /\ ~Working(t) =>
            LET o == tasks[t].result
            IN  /\ o.error = None => o.account \in Accounts /\ o.shows # {}
                /\ o.error # None => o.error \in ProviderErrors

(* What the providers said in the replies of a task. *)
Said(r) == {r[s].wire : s \in {x \in DOMAIN r : r[x].error = None}}
Wires(t) == Said(tasks[t].first) \cup Said(tasks[t].later)

(* A percentage left of an entitlement: without one it is a placeholder       *)
(* (oauth_primary.rs).  What MiniMax and Synthetic tell as a percentage counts *)
(* beside a limit of zero (key_api.rs and its tests).                        *)
Entitled == {"premium", "chat"}
Placeholder(row, shown, field) ==
  row.limit = 0 /\ (field = "left" \/ (field = "over" /\ shown \in Entitled))

(* The rows of a lane in the replies, or of the lanes that a window is put    *)
(* together from, and the values they have of a field.                      *)
MadeOf == [limit |-> {"limit", "account", "month"}, unnamed |-> {"unnamed", "named", "other"},
           team1 |-> {"team1", "budget"}, team2 |-> {"team2", "budget"}]
Behind(shown) == IF shown \in DOMAIN MadeOf THEN MadeOf[shown] ELSE {shown}
Rows(wires, shown) == UNION {{wire[l] : l \in Behind(shown) \cap DOMAIN wire} : wire \in wires}
Heard(wires, shown, field) ==
  {row[field] : row \in {x \in Rows(wires, shown) : ~Placeholder(x, shown, field)}} \ {Absent, Bad}

NothingLeft(wires, l) ==
  \/ 0 \in Heard(wires, l, "left") \cup Heard(wires, l, "over")
  \/ \E n \in Heard(wires, l, "spent") : n >= Whole
  \/ \E n \in Heard(wires, l, "used"), m \in Heard(wires, l, "limit") : n >= m /\ m > 0
SomethingLeft(wires, l) ==
  \/ \E n \in Heard(wires, l, "left") \cup Heard(wires, l, "over") : n > 0
  \/ \E n \in Heard(wires, l, "spent") : n < Whole
  \/ \E n \in Heard(wires, l, "used"), m \in Heard(wires, l, "limit") : n < m

(* A window is shown as used up only when the provider said that nothing of   *)
(* it is left, and as available only when it said that something is: what is *)
(* missing or malformed, a limit of zero and what is left of one are neither. *)
Honest ==
  \A t \in DOMAIN plan : ~Working(t) =>
    \A w \in tasks[t].result.shows :
      /\ w.quota = Whole => NothingLeft(Wires(t), w.lane)
      /\ w.quota \in 0..Whole - 1 => SomethingLeft(Wires(t), w.lane)

(* One account was logged in between two times of another, or of one that     *)
(* looks like it.                                                           *)
CameBetween(of, account) ==
  \E i, j, k \in DOMAIN logins :
    i < j /\ j < k /\ logins[i] \in Looks(account) /\ logins[j] = of /\ logins[k] = account

(* Whatever is shown of a task is of one account: that of the entry, of the   *)
(* login its reference is to, or of the key of the environment when there is *)
(* one, however the login changed while it was asked.  The code does not tell *)
(* apart what looks alike to Codex (codex.rs:392), nor a login that comes back *)
(* between two looks of Codex or of Antigravity's service, and it does not     *)
(* check what Codex supplements from the local credential.                   *)
Attributed ==
  \A t \in DOMAIN plan : ~Working(t) /\ Succeeded(t) =>
    LET kind == plan[t].kind
        codex == kind = "local" /\ world.provider = "codex"
        compared == codex \/ (kind = "local" /\ world.provider = "antigravity" /\ ~world.keyed)
        other == "url" \in DOMAIN tasks[t].first /\ tasks[t].first.url.says = "other"
    IN  /\ \A w \in tasks[t].result.shows :
             \/ w.of = Account(t)
             \/ codex /\ (w.lane = "extra" \/ w.of \in Looks(Account(t)))
             \/ compared /\ CameBetween(w.of, Account(t))
        /\ kind \in {"key", "owned"} => Account(t) = plan[t].account
        /\ kind = "borrowed" => Account(t) = tasks[t].first.resolve.of
        /\ (kind = "local" /\ world.keyed /\ world.provider # "codex" /\ ~other) =>
             Account(t) = Mine

(* No collection sends a refresh token twice: an attempt that may have spent  *)
(* it is not followed by another (Collector::collect, idempotent).           *)
SpentOnce == \A t \in DOMAIN plan : tasks[t].sent <= 1

(* Reconciling loses no account that was read, and of Amp no figures.        *)
NothingLost ==
  Reporting =>
    \A t \in DOMAIN plan : Succeeded(t) =>
      \E s \in Kept : /\ Account(s) = Account(t)
                      /\ world.provider = "amp" => Shown(s) = Shown(t)
=============================================================================
