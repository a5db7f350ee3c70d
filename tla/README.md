# Models of quotio-cli

quotio reports the usage quotas of some sixty AI and cloud providers. It runs as a
command, or as a local HTTP server that refreshes usage on a timer and lets a native
application manage the saved accounts. Several commands and servers may share one
credential vault, one usage cache and one configuration file.

This directory holds TLA+ models of the parts of quotio that are hard to test: what
happens when requests, processes, provider answers, crashes and power losses fall in
an order nobody wrote a test for. TLC checks the models on small instances, TLAPS
proves the most important properties for every instance. `PROJECT.json` maps every
definition to the lines of `src/` it models.

Paths below are relative to `src/`, the repository; its Rust sources are in `src/src/`.

## The system

| Part | State | Operations | Talks to | What is hard | Correct when |
| --- | --- | --- | --- | --- | --- |
| Account document (`accounts/mod.rs`) | accounts, retry receipts, owners of refresh tokens, format version | add, remove, rename, patch, select, reserve, receipt | the vault | documents are written by builds of several formats, and outlive accounts | one active account per provider, distinct labels and identities, nothing a newer build saved is dropped, every write stays readable |
| Vault (`accounts/vault.rs`, `encrypted_file.rs`) | the encrypted file or Keychain item, lock file, a flag per process | begin a transaction, commit, drop | every command and server | tasks of one process share a `flock`; a write may be visible and not durable | a transaction commits onto what it read |
| Credential refresh (`accounts/service.rs`) | locks per account, `refresh_pending` fences and the owners in the document | read usage, refresh a rotating token, verify | vault, provider, account management | the provider consumes the token when the request arrives, whatever becomes of the answer | a token that may be consumed is never presented again; removal and disabling are respected |
| Idempotent mutations (`server/management.rs`, `operations.rs`, `service.rs`) | operations in memory, receipts in the document | create, reference, update, remove; poll | vault, job pool | lost replies, retries elsewhere, restarts, uncertain commits | a key has one effect; what is reported completed is durable; no operation is forgotten |
| Usage cache (`cache.rs`) | an entry, a lock file and a temporary file per login | collect through the cache | collector, native logins | the login of another program changes at any time; processes are killed | an entry describes its login, whole; served snapshots are of a login seen in time |
| Usage server (`server.rs`) | generation, snapshot, settings, refresh lock, commit guard, pending scopes, wake-up | scheduled and manual refresh, account change, settings change, read | all of the above | each step is an await apart; clients leave | what is served has seen every reported change; the scheduler knows of each |
| Settings file (`settings.rs`) | the file, a lock file | load, patch with a revision | users' editors, the server | edits under the server, failure after the rename | memory and file agree once the file was read |
| OAuth sessions (`accounts/oauth.rs`, `server/management.rs`) | sessions, claims of keys, port 1455 | begin, poll, callback, cancel, expire, prune | providers, vault, generation | a code arrives twice, or with a cancellation; GitHub answers late; clients leave | a code is used once, an ended session stays ended, places, keys and the port come free |
| Collection (`fetch.rs`, `service.rs`, `providers/http.rs`, `process.rs`) | tasks and a deadline per provider | select, fetch, retry, cancel, reconcile | adapters, vault, cache | retries against deadlines, panics, local and managed accounts of one login | an attempt that may have spent a token is not repeated; an account that was read is shown |
| Provider adapters (`providers/`) | none of their own, except Antigravity's refresh | identify, ask, make windows | providers, other programs' files | fallbacks, missing and placeholder numbers, a login that changes between two requests | a window says what the provider said, of the account it was said of |
| Native sources (`oauth_editors.rs`, `sources.rs`) | private snapshots of other programs' databases, each with a lock file | capture, copy, query, compare, remove, recover | other programs, other quotio processes | the database is written while it is copied; reads are killed | the token is the committed one; a snapshot in use stays, one that is not is removed |
| Discovery (`accounts/discovery.rs`) | references for ten minutes, 256 at most | inspect, get | native sources, management | entries change after inspection | a reference registers what was inspected, or fails |
| Staging (`accounts/staging.rs`) | receipts in a private directory | assess, stage | other programs' files | publication without replacement, reruns | an existing receipt is never replaced |
| HTTP guard, parent pipe, usage queries, command line, configuration, output, OpenAPI | sixteen permits; otherwise none | | | | pure or nearly so |

How they interact. `cli` and `server` build adapters from the saved accounts
(`ManagedProvider`) and from native logins, and hand them to the cache, which hands
them to the collector. A managed adapter may refresh its credential on the way and
writes the vault while the server's own management writes it too. The server's commit
guard orders account and settings writes against the publication of a snapshot; its
generation tells a refresh that the world changed. OAuth logins and account mutations
end in the same `service::add` and the same guard.

## Modules

| Module | Models | Composition |
| --- | --- | --- |
| `CredentialRefresh` | one rotating credential, its readers in any process, its manager, the vault write with its uncertain outcome, power loss | |
| `AccountDocument` | the document and the vault transaction around it, by tasks of several processes running builds of several formats | |
| `IdempotentMutations` | clients, servers with their operation registries and jobs, the document reduced to receipts and effects | |
| `Effects` | what idempotency promises of one key, in three variables | `IdempotentMutations` implements it |
| `UsageCache` | readers of one provider's entries, with the native login changing underneath | |
| `UsageServer` | scheduler, manual refreshes, five kinds of change, settings file and memory, snapshot | |
| `OAuthSessions` | the session manager and the tasks and requests that use it | |
| `Quotas` | a lane of a reply and the window it becomes | |
| `Flows` | one fetch as a function of the replies so far: questions, failures, fallbacks | extends `Quotas` |
| `KeyAdapters`, `CodingAdapters`, `GatewayAdapters`, `InfrastructureAdapters`, `LoginAdapters`, `CloudAdapters`, `AgentAdapters` | forty-seven providers, an operator each, by the files of `providers/` | extend `Flows` |
| `Adapters` | providers by name, what may be retried, what may be cached | extends the seven |
| `Selection` | which accounts and local adapters a command or server reads | extends `Adapters` |
| `Collection` | the tasks of one collection, replies, retries, deadline, cancellation, the saved accounts' reads, the report | extends `Selection` |
| `CursorSnapshot` | reads of Cursor's database by several processes, while Cursor writes it | |

The modules meet at narrow places, and each names what it leaves to another: what an
account mutation writes is `AccountDocument`, how often it is written is
`IdempotentMutations`, when it shows is `UsageServer`; a login that `OAuthSessions`
ends is the change "callback" or "device" of `UsageServer`; a refresh that
`CredentialRefresh` reads is one task of `Collection`, behind `UsageCache`; the token that
Cursor's adapter asks for in `LoginAdapters` is what `CursorSnapshot` reads.
`MC<module>` adds symmetry sets and values for TLC. `<module>Proofs` holds the proofs.

### CredentialRefresh

A reader walks through `ManagedProvider::read`: *Read* the account, ask for its
*Quota*, take the account's refresh lock (*Lock*), read again (*Recheck*), write the
fence (*Fence*, *FenceWritten*), present the token (*Send*), take the answer
(*Answer*), and *Install* it. A vault write is two steps: `StartWrite` takes the vault
and drafts the document; *FenceWritten* and *InstallWritten* end it well, replaced and synced,
and *WriteGoesWrong* with nothing replaced, or replaced and not synced. *Abandon* drops a reader anywhere, since a request deadline does;
a write it had started goes on by itself (*UnattendedWrite*). *Add*, *Remove* and
*SetEnabled* are the manager's. *PowerLoss* kills everything and restores either the
document on disk or the last durable one.

`Fenced` and `Ledgered` choose the kind of credential: Claude, Factory, Kiro and
Antigravity have both, Grok the fence alone, Codex neither. The history variable
`exposed` holds presentations whose token may have been consumed without an answer being
kept, and `replays` those presented again.

### AccountDocument

A task enters its process's lock (*Enter*), opens the file's lock and reads through the
gates of its build (*Begin*), and commits one operation (*Add*, *Remove*, *Patch*, which
is also rename and select, or *Rotate*), with a receipt or without, gives up, or is killed. Which formats a build accepts,
what it keeps of a table it does not know, and which format a write leaves behind are
the operators `Accepts`, `Understood` and `Upgraded`. `kept` remembers what a current build
has put on record for a token.

### IdempotentMutations

A client's request looks its key up in the vault, enters it in the server's registry
and starts a job, or is refused when the job pool is full; the job checks again under
the vault lock and commits effect and receipt together. Replies are lost by clients
trying again; servers restart and forget; power fails.

`Effects` says what of this can be seen of a key: its mutation is applied (*Apply*),
becomes durable (*Settle*) or is lost to a power failure before (*Lose*), and is reported
completed (*Report*) while it is there, and when it is durable if whoever reports it made the write. `Abstract` is the refinement mapping: `effect` is the
receipt in the document on disk, `kept` the one in the durable version, `reported` what clients have been told. So a key is applied at most once at a time, never changes its body or account
while it stands, and what the writer reported stays whatever is lost later (`Promise`); this replaces three
separate properties of the earlier model.

### UsageCache

A reader goes through the stages of `UsageCache::one`: identify, lock, read, verify,
fetch, confirm, write and rename. The login may change between any two of them, a
deadline may pass, a reader may be cancelled or its process killed with the temporary
file half written. `cameBack` remembers logins that came back while a request that had
seen them was under way.

### UsageServer

A change is an account mutation, a settings patch, an edited file noticed by
`GET /v1/settings`, a login ended by a callback or by its own task. Each goes through
guard, write, generation, snapshot, wake-up, in the order its code has. A refresh takes
its turn, reads generation and settings, collects, and publishes under the guard if
the generation is unchanged. A report is reduced to the changes it has seen.

### OAuthSessions

A begin binds the port or asks GitHub, then inserts a session; a keyed begin does so in
a task of its own and settles its claim afterwards. The task of a loopback or device
login waits for its code, its deadline or a notification. Whoever has a code
claims the session under the lock, exchanges, saves and closes. Every step under the
sessions' lock prunes first (`Pruned`). Ages are two bits: the lifetime is over, and so
are twelve minutes more. The server's restart, which empties the table, is not a step.

### Quotas, Flows and the adapters

An adapter is an operator of a function from the names of the questions it has asked to
the replies it got. Its value is the next question, an error, or windows. So a fetch
is replayed from its start at every reply, as the Rust `async fn` would run with the same
answers, and the source's `?`, `match` and fallbacks become `Step`, `Valid`, `OrElse`,
`FirstOf` and `Join`. A question carries whose credential it is made with (`Self` for the environment,
`Login` for whoever is logged in to the provider's program), the lanes the reply may have
and the fields that are read of each, the cases that are told apart and the ways it may fail.
A reply's numbers are small naturals, `Absent` or `Bad`; shares are counted in
quarters. Names, resets, plans and currencies are left out, and a list in a reply has
at most one lane of each kind, pages at most two.

### Collection

*Proceed* answers the question that the operator of an entry asks: ordinarily, oddly, or with a failure. What the
task does with it, going on, beginning again after a transient failure of an adapter that may be asked twice, or ending, is
settled in the same step, since nothing is awaited in between. *Expire*, *Panic* and *Cancel* end tasks from outside. A saved account goes through
`ManagedProvider::read`: read, refresh when due, ask, compare with the vault again. *Switch* lets somebody else log
in to the provider's program; `logins` keeps who was, in turn. A reply carries whose it is (`of`) and who would be described
in the same way (`like`): accounts of one mail address that are on no personal plan, since Codex is told of a mail address and
a plan and not of a workspace (codex.rs:335). The code compares no more than that, and neither does `CodexLocal`. The report is the reconciliation of what the tasks show.

### CursorSnapshot

Two actors' views of files. Cursor's side is external: SQLite begins its log, appends frames,
rolls back, checkpoints, closes, or writes with a journal. The read is
`open_cursor_database_at_with_hooks` file by file, *OpenLock*, *TryLock* and *Clear* are
`recover_cursor_snapshots`, and *Drop* is that of `CursorDatabase`. A frame has the salt of its log and the stamp
of the frame before it, in place of cumulative checksums; `Sound`, `Commits` and `Damaged` are what
`cursor_validate_wal` finds with them. `cut` remembers directories whose removal was killed.

## What the runs check

| Run | Question | Instance | States |
| --- | --- | --- | --- |
| `refresh_ledger` | Is a token ever presented again, by any account, after its answer was lost? Is the fence durable before the request? Does a late refresh respect removal and disabling? | two readers, ids and tokens; every drop, failed or uncertain write, power loss | 239 k |
| `refresh_codex_replay` | The same for Codex, which has no fence | as above, three tokens | violation |
| `account_document` | Lost updates, readability, consistency of accounts, nothing forgotten, tokens stay with owners | three tasks in two processes, all known builds, two ids, labels, identities and tokens, four kinds | 151 k |
| `mutations` | Does the detailed protocol implement `Effects`? Is nobody left running? | two servers, keys, account ids and receipts, one request at a time and one operation of room per server | 1100 k |
| `cache_shared` | Own and whole usage, timely service, one refresh | two readers, two logins; one login comes back under a request that saw it | 1663 k |
| `server_changes` | What is served has seen what was reported; the scheduler is aware | two providers, pairs of changes, one manual refresh | 2350 k |
| `server_progress` | Refreshes end, scopes come free, a current report returns | two manual refreshes and a device login, fair | 155 k |
| `server_device` | Do all logins wake the scheduler? | one device login | violation |
| `oauth_sessions` | Codes spent once, one login per key, nothing stranded, places, ended sessions | two sessions, begins and callbacks, one place | 194 k |
| `oauth_progress` | Every login ends, unattended | two sessions, one begin, fair | 55 k |
| `collection` | Are windows honest, attributed to the right account, tokens spent once, accounts not lost? | every provider by every way to it alone; pairs and teams of entries, workspaces of one mail address; three logins in turn for Codex's program and Antigravity's, two elsewhere | 501 k |
| `snapshot` | Is the token the committed one? Do snapshots in use stay, and are the others within reach of recovery? | one read while Cursor writes five times with a log, six with journals; three processes and two directories while it is idle | 2471 k |

Why these bounds are enough to see something. Every race in the code is between two
actors, or between two and the manager, and every history is about one token, key or
login and its successor, or about two accounts that share one. Two readers, two ids
and two tokens contain the rotation, the re-registration under a new id and the
competing refresh; two servers and a client whose jobs outlive its requests contain the retry
elsewhere, and two keys, accounts and receipts the key that comes twice, before and after another. Limits
(running jobs, sessions, receipts in `account_document`) are set to one or two so that they are met.
In `collection` an entry that is alone meets two irregularities (a request that fails, a lane
out of the ordinary, a saved account found changed; one for the longer adapters and for the two that look twice), of which one lane, with up to two of its fields odd at
once; entries side by side meet one or none, since what they have to do with each other is decided by
their accounts. Three logins in turn are the fewest with one that comes back between two looks, and only two adapters look twice; elsewhere a login changes once, or not at all in a team, whose question is what
reconciliation drops. In `snapshot`
five writes are a log begun, a transaction spilled, rolled back, another committed over it and checkpointed.
Ids are drawn once each, as random ids are. The mutants of `PROJECT.json` show that each
property does fail in its instance when the code is changed as a plausible bug would:
each is an operator next to the one it varies.

### Disagreements between the documents and the code

* `refresh_codex_replay`. README.md says a saved Codex account's refresh is "never
  automatically replayed after an uncertain failure". `ManagedProvider::read` has no fence
  for Codex, so that the next cycle presents the token again.
* `server_device`. local-http-api.md says settings and account changes wake the scheduler. A
  device or loopback login ends in a task that bumps the generation and wakes nobody; the
  scheduler sleeps on. Nor does an edited file wake it when the client of the GET
  /v1/settings that noticed it leaves between the bump (server.rs:137) and `notify_one`
  (:139): the handler is dropped there, and with `Changes = {"reload"}` and two providers the same
  run shows it. `server_changes` shows that no other change is ever missed
  (`MissesOnlyTheLost`), and `server_progress` that the timer repairs a device login.

Two more the models have and no run is spent on. cache.rs:252 says a login change during a fetch
"must never populate the previous login's entry"; the identity is compared before and after
the fetch, so that a login which changed and came back in between passes both checks: `OwnUsage`
excepts `cameBack`, and fails in `cache_shared` without the exception. A disabled reference to Codex's or Amp's own login does not suppress the
local adapter when providers are detected (service.rs:1244 filters first), while it blocks the alias `local` where that is
asked for.

And three ways in which local usage is of another account than the one it is shown for, each an exception of `Attributed` that
fails without it. Codex's supplement is of whoever is logged in after the limits were compared. Its account reads are compared by type,
mail address and plan (codex.rs:392), so that a login that changes from one workspace to another of one address in between goes
unnoticed; the comment at codex.rs:335 says that they cannot be told apart there. And as in the cache, a login that changed and came back between two looks of
Codex, or of Antigravity's service, passes both.

## Fairness

Safety runs assume none. `UsageServer!FairSpec` and `OAuthSessions!FairSpec` assume what
the tokio runtime and the deadlines in the code give: a task that can go on does (weak
fairness of each task's next step), and whoever waits for an async mutex, which is
first come first served, gets it (strong fairness of *LockGuard* and *TakeTurn*).
Collections end because every provider has a deadline, requests of a login because each
has one (thirty seconds), lifetimes pass because clocks do. Clients are never fair: no
one has to poll, to bring a code, to cancel or to come back.

## What is proved

TLAPS proves, for every value of the constants that meets the modules' assumptions
(`None` is none of the values, limits are natural numbers, actors are told apart, the
tables a build knows are those its format requires, the scenes of a read are of its processes and directories,
a world's saved accounts are of kinds its provider has, an account is neither of the marks `Self` and `Login` for whom is asked
(`AskersApart`), and what stands for a number is none (`MarksAssumption`)):

| Module | Theorems |
| --- | --- |
| `CredentialRefreshProofs` | `TypeCorrect`, `FencedNeverReplays`, `FenceDurable`, `LedgeredNeverReplayed`, `LineageDurable`, `TokensUnshared`, and the step property `RefreshesRespectManagement` |
| `IdempotentMutationsProofs` | `TypeCorrect`, `EffectOnce`, `CompletedStays`, `NoneUnattended`, the refinement `Implements`, and by it `ReportsStay`, which is what `Effects` promises |
| `AccountDocumentProofs` | `TypeCorrect`, `ReadsCurrent`, `AlwaysReadable`, `AlwaysConsistent`, and the step properties `NeverForgotten` and `TokensStayWithOwners` |
| `OAuthSessionsProofs` | `TypeCorrect`, `CodeIsSpentOnce`, `NobodyIsStranded`, `ClaimsAreAttended`, `SlotsAlwaysFit`, `OneLoginForAKey`, and the step property `EndedSessionsStay` |
| `UsageCacheProofs` | `TypeCorrect`, `EntriesAreOwn`, `RepliesAreInTime`, `OneRefreshIsEnough` |
| `UsageServerProofs` | `TypeCorrect`, `WhatIsServedIsCurrent`, `WaitsAware` |
| `CursorSnapshotProofs` | `TypeCorrect`, `SnapshotsAreKept`, `CopiesCanBeRemoved`, and the step property `TokensAreCommitted` |
| `CollectionProofs` | `Typed`, `UsagesAttributed`, `ShownHonestly`, `TokensSpentOnce`, `AccountsKept` |

Each rests on one inductive invariant, `IInv` of its module (theorem `Inductive`), `ShownHonestly` on `HInv` beside it. TLC found
no state of the instances above outside it before the proofs were begun.

*CredentialRefresh.* That no token is replayed is not inductive: one must know where
copies of a usable credential can be. `IInv` says that every version of the document -
on disk, durable, or being written - offers no presented token to a reader
(`FenceInv`), with one exception, a token whose answer is being installed
over it (`settled`); that a token about to be presented is already out of reach in
both the visible and the durable version; that a reader between lock and install has
its account's lock; and, for ledgered kinds, that every version names the owner of every
presented token (`LedgerInv`), which is what stops another account. The fence's
durability before the request is what makes the power loss harmless. That a refresh leaves alone what the manager
did is a property of steps: a reader's transaction differs from the document on disk only in its own account
(`SameButFor`), and only if that is still there, enabled, and holds what the refresh started from (`InstallInv`).

*IdempotentMutations.* Effects and receipts pair in both versions of the document,
because a commit writes both in one replacement; a job that has applied its key here has
its receipt in both versions, because an uncertain commit is never reported as completed.
`Implements` maps the initial states and every action: a commit applies and perhaps settles, a power
loss loses what was not durable, an acknowledgement reports, and everything else stutters. The step needs of the
invariant that a job which found or applied its key has its receipt in the durable version (`Recorded`).

*AccountDocument.* The process flag and the flock together make the holder unique
(`LockInv`), so that a transaction's document is the one on disk as its build
understands it (`ReadsAreCurrent`). The rest is about what one operation of one build does to a sound
document (`Sound`: formats match contents, one active account, distinct names), and
that a table with something a current build keeps forces a format only builds
that know the table accept (`KeptInv`). One lemma per operation, named for
its outcome, carries it.

*OAuthSessions.* A session is in the hands of at most one actor, and is processing while it is (`HeldInv`); an actor's
hold ends only with the session's end or its own, and then somebody is left to end it (`NoneStranded`). A code is spent by
whoever took a waiting session, and no session waits again (`SpentInv`). A key's claim names its session
or has its begin under way, one per key (`KeyInv`, `MakersInv`): so whoever comes with the key finds that one login. Pruning
is shown once to disturb none of it (`Lasts`, `Pruned`), since every handler begins with it.

*UsageCache.* Between a reader's look at an entry and its replacement nobody without the entry's lock touches it
(`HeldInv`, `OnlyInv`); what a reader found at its look is therefore what it replaces (`OnceInv`). That an entry is of its own login follows from the
identity before and after the fetch (`FetchedInv`), and that a reply is of a login there was in time from what was
seen since the lock was taken (`SinceInv`).

*UsageServer.* A change takes effect before it bumps the generation (`AppliedInv`), and a refresh reads the generation before it collects;
a report of the present generation has then seen every change the generation counts (`SeenInv`). It is of the present
settings but for the moment between their storing and the bump (`EnabledInv`), which the commit guard covers (`GuardInv`). For each change, the scheduler has
looked since the generation the change made, or is awake or about to be, or the change is yet to wake it or of those that wake
nobody (`AwareInv`); `made`, a history variable, keeps that generation, and only a change that bumped has one (`MadeInv`).

*CursorSnapshot.* Three arguments. The salts and stamps of a log tell its frames from older ones (`LogInv`, `AgesInv`), so that
the frames copied say what Cursor had committed; a copy is of the files as they were captured as long as their metadata are
(`CopyInv`), and the last comparison is of the metadata; and whoever uses or removes a directory holds its lock (`LockInv`, `DirInv`), a
recovery leaving alone what it cannot lock.

*Collection.* An adapter is a function of the replies it has had, so the invariant is about these (`TaskOK`). A task that goes on has had
its replies from accounts, with errors that its kind of entry knows (`Known`), and of those whom its adapter asks (`Traced`); what it
asks next suits that (`Suits`), a refresh token's request only when that was not sent and the account has no newer credential (`Allowed`). A task that
ended has the usage of an account or an error the report knows (`Reportable`), and the usage is of the right account (`Rightly`).

The adapters are compared with this in contexts: a context says whom a fetch may ask, what it never asks, and whose windows it may
show. One lemma for each combinator of `Flows` (`StepsSane`, `WaysSane`, `KeyedSane`, `LanesSane`, ...) and one for each group of providers
(`KeysDone` to `QuotaDone`) say that a fetch keeps to its context, for any set of accounts that contains those which replied. A set of one account
gives a key's or a saved account's usage (`Alone`; `KeyRead`, `BorrowedRead`, `OwnedRefreshed`); the empty set says that an adapter without a reply has a
question or an error and never a usage, which is what an attempt that begins again needs. A native login may change while
it is read, and no set of one will do. There the proof follows the code's own comparisons: a credential found is what all later requests carry (`InSearch`, `LoginTraced`);
Codex looks before and after, and its three replies are of logins in the order of these (`Ordered`): when the looks are alike, the one between is
too, or somebody was logged in between an account like it and itself (`OrderedAlike`, `CodexTraced`). Antigravity's programs answer in sessions that each
name their login, and its service is compared like Codex, by the account itself (`Sessions`, `ServiceTraced`, `AntigravityTraced`). `LocalFits` and `OutcomeFits`
put this together, `TracedTold` keeps it when a reply comes, and `TaskSwitched` when somebody logs in, since what was between two logins stays so (`BetweenStays`).

Honesty is about the numbers of the replies. `HInv` says that the windows of every task are borne out by the wires of its replies
(`Witnessed`): a quota of the whole needs one that says that nothing is left of the lane or of those it is put together from, a
smaller share one that says that something is (`Borne`), and so does the rest a window is made of (`Bears`). A limit of zero says
nothing, nor does what is left of it, or a percentage left of Copilot's entitlements beside it (`Placeholder`, `Leaves`); the percentages of MiniMax and
Synthetic count beside one, as the tests of key_api.rs have it. What `Quotas` does
to a number that is missing, zero or above its limit is settled in `QuotasBorne` and `SharesLeft`; `WaysBack`, `StepsBack` and
`LanesBack` carry it through the combinators, and `KeysBack` to `AntigravityBack` through each adapter; four windows are put together
from several lanes (`MadeOf`, `Behind`), and are compared with what is said of any of these. An attempt that is repeated forgets its replies with its windows, and a refused report has neither.

A token is sent once because only a refresh asks its step, never twice in an attempt, and a task that may refresh is not tried again.
A usage of a saved account is never dropped by reconciliation (`SavedUsagesKept`), and a local one only beside one of these. There
`AccountsKept` rests on `WorldsAreWorlds`: two accounts of one mail address are not both personal, as the comment at fetch.rs:116 has it
("Email-only local identity is sufficient for a unique personal account, never a workspace"). Without it a local usage would be dropped for another account's.

Every invariant and every step property of the runs is proved. What stays with TLC is liveness (`CurrentAgain`, `ManualRefreshEnds`,
`LoginsEnd`), which is beyond the provers, and the two disagreements above, which are counterexamples.
Grok, fenced and not ledgered, has no run of its own: `FencedNeverReplays` covers it.

## What is not modelled

The components of `PROJECT.json` with status `not_modelled` say why. In short: discovery and staging
read other programs' files and are planned; the HTTP guard, the parent pipe, command line, configuration and output
are pure or single-step. Within the modelled parts: encryption and key storage, the size
limit of the document (a commit beyond 1 MiB fails as *Input*), wording of errors,
timestamps other than freshness and lifetimes, labels of logins, and the order in which a
document lists its accounts.

Of the adapters and the collection: the custom providers of Quotio that have several keys (`validate_credentials`), `--account`
filters, which diagnostics a report includes, names, plans, resets and currencies of windows, the shape of URLs, and Antigravity's own refresh, whose
protocol is that of `CredentialRefresh`. With `--no-saved-accounts`, detection may list
`antigravity` twice, for its token and for its login; the model selects it once (`devin-desktop`, found as a key and as a token, it selects twice, as the code does). A Codex login has no identifier but its mail address, so it is matched with a
saved account only when that is personal and the only one of its address.

Of the snapshots: the shared-memory file, whose changes can only refuse a read; the two seconds SQLite
is given and the deadline of `blocking`, behind which its thread goes on unattended; a log header or frame caught half written, which the checksums
refuse; file times too coarse to tell two writes apart; and a crash between the making of a directory and of its
lock file, which leaves an empty directory for good. The comparison of the files is one step, where the code
takes them one after the other: a change between the first and the last of them may go unnoticed there.

## Plan

In order, with what each is for. Done so far: the core modules and their proofs, `Effects` and its refinement,
`Collection` with the adapters, `CursorSnapshot`; a module of proofs for every module with a state of its own, and
a theorem for every invariant and step property that a run checks.

1. `Reservations`, the abstract specification of the ledgers of `AccountDocument` and `CredentialRefresh` (a token gets
   an owner and keeps it), with a refinement checked by TLC and its step proved.
2. `SettingsFile`: patches under a revision and a lock against an editor that has neither.
3. `Staging` and `Discovery`: publication without replacement with crashes between its steps; references that expire
   and are checked again when they are used.
4. Antigravity's refresh as an instance of `CredentialRefresh`'s protocol.
