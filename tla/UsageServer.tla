------------------------------ MODULE UsageServer -------------------------------
(****************************************************************************)
(* The server's usage snapshot: the scheduler and manual refreshes that      *)
(* publish it, the account and settings changes that invalidate it, and the  *)
(* requests that read it.                                                    *)
(*                                                                          *)
(* A refresh takes the refresh lock, reads the generation, then the settings,*)
(* then collects usage (vault, providers, cache), and publishes under the    *)
(* commit guard if the generation is still the same.  A change takes the     *)
(* commit guard, writes the vault or the configuration file, and invalidates:*)
(* generation + 1, snapshot gone, scheduler woken - each of them an await    *)
(* apart.  OAuth logins and uncertain commits invalidate in other orders,    *)
(* and without the guard.                                                    *)
(*                                                                          *)
(* A report is abstracted to the changes each enabled provider's part of it  *)
(* has seen.  What an account change writes is AccountDocument, its retries  *)
(* are IdempotentMutations, what a collection returns is UsageCache.         *)
(* Each change and each manual refresh happens once: Together and Manual are  *)
(* the bounds of a run.                                                      *)
(****************************************************************************)
EXTENDS Naturals, FiniteSets

CONSTANTS Providers,
          Changes,    \* account and settings changes
          Kind,       \* what makes each of them, see Kinds
          Together,   \* the sets of changes that may happen in one behaviour
          Manual,     \* POST /v1/refresh operations
          Scheduler,  \* the worker task
          None

\* account: a management job.  patch: PATCH /v1/settings.  reload: GET
\* /v1/settings, which notices an edited file.  callback: an OAuth login ended by
\* POST callback.  device: a login ended by its own task (device code, loopback).
Kinds    == {"account", "patch", "reload", "callback", "device"}
Settings == {"patch", "reload"}
Login    == {"callback", "device"}

Refreshers == Manual \cup {Scheduler}
EnabledSets == (SUBSET Providers) \ {{}}
Scopes  == [providers : EnabledSets, account : BOOLEAN]
Reports == UNION {[e -> SUBSET Changes] : e \in EnabledSets}

ASSUME KindsAreKnown == Kind \in [Changes -> Kinds]
ASSUME TogetherAreChanges == Together \subseteq SUBSET Changes
ASSUME NoneIsNothing ==
  /\ None \notin Changes \cup Refreshers
  /\ \A x \in EnabledSets : x # None
  /\ \A x \in Scopes : x # None
  /\ \A x \in Reports : x # None
ASSUME ActorsDiffer == Changes \cap Refreshers = {} /\ Scheduler \notin Manual

VARIABLES
  file,      \* enabled providers in the configuration file
  enabled,   \* the same in memory (ApiState.settings)
  view,      \* what the settings change in progress read or wrote
  applied,   \* changes whose effect a collection sees
  gen,       \* the generation counter
  guard,     \* who holds commit_guard
  turn,      \* who holds refresh_lock
  snapshot,  \* None, or the last published report with its generation
  wake,      \* the permit of the Notify the scheduler waits on
  change,    \* per change, how far it is
  task,      \* per refresher, its run of `refresh`
  op,        \* per manual refresh, the status of its operation
  pending,   \* per scope, the manual refresh a second request would join
  made       \* history, for the properties: the generation each change made, 0 before

vars == <<file, enabled, view, applied, gen, made, guard, turn, snapshot, wake,
          change, task, op, pending>>

settingsVars == <<file, enabled, view>>
manualVars   == <<op, pending>>

\* Faulty variants, named for what they get wrong, stand before the definition
\* they vary; the mutation runs put them in its place.

Stages == {"idle", "waiting", "saving", "saved", "stored", "uncertain", "bumped",
           "taken", "notify", "done", "failed", "left"}
TaskStages == {"idle", "lock", "settings", "collect", "publish", "write", "asleep",
               "finish", "clear", "refused", "cleared", "left", "over"}
Task == [at : TaskStages, scope : {None} \cup Scopes, gen : Nat,
         enabled : {None} \cup EnabledSets, report : {None} \cup Reports,
         ok : BOOLEAN]

NewTask(at, scope) ==
  [at |-> at, scope |-> scope, gen |-> 0, enabled |-> None, report |-> None, ok |-> FALSE]

Init ==
  /\ file \in EnabledSets /\ enabled = file /\ view = None
  /\ applied = {} /\ gen = 0 /\ made = [c \in Changes |-> 0] /\ guard = None /\ turn = None
  /\ snapshot = None /\ wake = FALSE
  /\ change = [c \in Changes |-> "idle"]
  /\ task = [x \in Refreshers |-> NewTask(IF x = Scheduler THEN "lock" ELSE "idle", None)]
  /\ op = [m \in Manual |-> None]
  /\ pending = [s \in Scopes |-> None]

Move(c, stage) == change' = [change EXCEPT ![c] = stage]
Release(a) == guard' = IF guard = a THEN None ELSE guard

----------------------------------------------------------------------------
(* A change, from its request to its report.                                *)

Begun == {c \in Changes : change[c] # "idle"}
Possible(c) == change[c] = "idle" /\ \E S \in Together : Begun \cup {c} \subseteq S

Request(c) ==
  /\ Possible(c)
  /\ Move(c, "waiting")
  /\ UNCHANGED <<settingsVars, applied, gen, made, guard, turn, snapshot, wake, task, manualVars>>

\* mutation_guard gives up after ten seconds; a callback wakes the scheduler
\* whatever came of it.
Fail(c) ==
  /\ \/ change[c] = "waiting" /\ guard # None
     \/ change[c] = "saving"
  /\ Move(c, "failed")
  /\ Release(c)
  /\ wake' = (wake \/ Kind[c] = "callback")
  /\ UNCHANGED <<settingsVars, applied, gen, made, turn, snapshot, task, manualVars>>

LockGuard(c) ==
  /\ change[c] = "waiting" /\ guard = None
  /\ guard' = c
  /\ Move(c, "saving")
  /\ UNCHANGED <<settingsVars, applied, gen, made, turn, snapshot, wake, task, manualVars>>

\* The vault write of an account change or login; it may be uncertain, and then
\* the guard is dropped with the error.
SaveAccount(c) ==
  /\ change[c] = "saving" /\ Kind[c] \notin Settings
  /\ applied' = applied \cup {c}
  /\ \/ Move(c, "saved") /\ UNCHANGED guard
     \/ Move(c, "uncertain") /\ Release(c)
  /\ UNCHANGED <<settingsVars, gen, made, turn, snapshot, wake, task, manualVars>>

\* SettingsStore::patch, whose last step may fail after the file was replaced.
PatchFile(c) ==
  /\ change[c] = "saving" /\ Kind[c] = "patch"
  /\ \E e \in EnabledSets :
       /\ file' = e
       /\ \/ Move(c, "saved") /\ view' = e /\ UNCHANGED guard
          \/ Move(c, "failed") /\ Release(c) /\ UNCHANGED view
  /\ UNCHANGED <<enabled, applied, gen, made, turn, snapshot, wake, task, manualVars>>

\* SettingsStore::load; nothing to do for a file that says what memory says.
LoadFile(c) ==
  /\ change[c] = "saving" /\ Kind[c] = "reload"
  /\ IF file = enabled
     THEN Move(c, "failed") /\ Release(c) /\ UNCHANGED view
     ELSE Move(c, "saved") /\ view' = file /\ UNCHANGED guard
  /\ UNCHANGED <<file, enabled, applied, gen, made, turn, snapshot, wake, task, manualVars>>

StoreSettings(c) ==
  /\ change[c] = "saved" /\ Kind[c] \in Settings
  /\ enabled' = view /\ view' = None
  /\ Move(c, "stored")
  /\ applied' = applied \cup {c}
  /\ UNCHANGED <<file, gen, made, guard, turn, snapshot, wake, task, manualVars>>

\* generation + 1.  A login bumps it and is done with the guard: no snapshot is
\* taken, and its session is Completed, or Failed if uncertain.
AfterLogin(c) == IF Kind[c] = "callback" THEN "notify" ELSE "done"
BumpGeneration(c) ==
  /\ \/ change[c] = "saved" /\ Kind[c] \notin Settings
     \/ change[c] \in {"stored", "uncertain"}
  /\ gen' = gen + 1
  /\ made' = [made EXCEPT ![c] = gen']
  /\ IF Kind[c] \in Login
     THEN Move(c, AfterLogin(c)) /\ Release(c)
     ELSE Move(c, "bumped") /\ UNCHANGED guard
  /\ UNCHANGED <<settingsVars, applied, turn, snapshot, wake, task, manualVars>>

TakeSnapshot(c) ==
  /\ change[c] = "bumped"
  /\ snapshot' = None
  /\ Move(c, "taken")
  /\ UNCHANGED <<settingsVars, applied, gen, made, guard, turn, wake, task, manualVars>>

\* A client that leaves drops a GET /v1/settings between the two.
Leave(c) ==
  /\ change[c] = "bumped" /\ Kind[c] = "reload"
  /\ Move(c, "left")
  /\ Release(c)
  /\ UNCHANGED <<settingsVars, applied, gen, made, turn, snapshot, wake, task, manualVars>>

NotifyOne    == wake' = TRUE
NotifyNobody == UNCHANGED wake
NotifyScheduler == NotifyOne

\* The scheduler is woken, the guard dropped, and the change reported.
Notify(c) ==
  /\ change[c] \in {"taken", "notify"}
  /\ NotifyScheduler
  /\ Move(c, "done")
  /\ Release(c)
  /\ UNCHANGED <<settingsVars, applied, gen, made, turn, snapshot, task, manualVars>>

\* What a client may have been told of: ended operations, answered requests and
\* sessions that are Completed or Failed.
Reported == {c \in Changes : change[c] \in {"done", "notify"}}

----------------------------------------------------------------------------
(* `refresh`.                                                               *)

Scoped(x)   == task[x].scope # None
Chosen(x)   == IF Scoped(x) THEN task[x].scope.providers ELSE task[x].enabled
ChosenIfEnabled(x) == IF Scoped(x) THEN task[x].scope.providers \cap task[x].enabled
                      ELSE task[x].enabled
Selected(x) == Chosen(x)
ForAccount(x) == Scoped(x) /\ task[x].scope.account

\* The scheduler goes to wait, a manual refresh to finish its operation.
EndRefresh(x, ok, report) ==
  /\ task' = [task EXCEPT ![x].at = IF x = Scheduler THEN "asleep" ELSE "finish",
                          ![x].ok = ok, ![x].report = report, ![x].enabled = None]
  /\ turn' = None

TakeTurn(x) ==
  /\ task[x].at = "lock" /\ turn = None
  /\ turn' = x
  /\ task' = [task EXCEPT ![x].at = "settings", ![x].gen = gen]
  /\ UNCHANGED <<settingsVars, applied, gen, made, guard, snapshot, wake, change, manualVars>>

\* The settings may have changed since a manual refresh was validated.
ReadSettings(x) ==
  /\ task[x].at = "settings"
  /\ IF Scoped(x) /\ ~task[x].scope.account /\ ~(task[x].scope.providers \subseteq enabled)
     THEN EndRefresh(x, FALSE, None)
     ELSE /\ task' = [task EXCEPT ![x].at = "collect", ![x].enabled = enabled]
          /\ UNCHANGED turn
  /\ UNCHANGED <<settingsVars, applied, gen, made, guard, snapshot, wake, change, manualVars>>

\* The generation read after the collection instead of before it.
GenAtStart(x)   == task[x].gen
GenAtCollect(x) == gen
GenOf(x)        == GenAtStart(x)

\* adapters, UsageCache::collect: one part per selected provider.
Collect(x) ==
  /\ task[x].at = "collect"
  /\ task' = [task EXCEPT ![x].at = "publish", ![x].gen = GenOf(x),
                          ![x].report = [p \in Selected(x) |-> applied]]
  /\ UNCHANGED <<settingsVars, applied, gen, made, guard, turn, snapshot, wake, change, manualVars>>

\* The one account asked for is gone, disabled or unreadable.
NoAdapter(x) ==
  /\ task[x].at = "collect" /\ ForAccount(x)
  /\ EndRefresh(x, FALSE, None)
  /\ UNCHANGED <<settingsVars, applied, gen, made, guard, snapshot, wake, change, manualVars>>

\* account_busy: nothing is published and nobody is woken.
GuardBusy(x) ==
  /\ task[x].at = "publish" /\ guard # None
  /\ EndRefresh(x, FALSE, None)
  /\ UNCHANGED <<settingsVars, applied, gen, made, guard, snapshot, wake, change, manualVars>>

StillCurrent(x) == task[x].gen = gen

\* state_changed: nothing is published, and the scheduler starts again.
Compare(x) ==
  /\ task[x].at = "publish" /\ guard = None
  /\ IF StillCurrent(x)
     THEN /\ guard' = x
          /\ task' = [task EXCEPT ![x].at = "write"]
          /\ UNCHANGED <<turn, wake>>
     ELSE /\ EndRefresh(x, FALSE, None)
          /\ wake' = TRUE
          /\ UNCHANGED guard
  /\ UNCHANGED <<settingsVars, applied, gen, made, snapshot, change, manualVars>>

\* merge_refresh_report.  The part of a provider keeps the age of its oldest
\* account, so the refresh of one account leaves it.
FullReport(x)  == ~ForAccount(x) /\ Selected(x) = task[x].enabled
Mergeable(x)   == snapshot # None /\ snapshot.gen = task[x].gen
MergedParts(x) == [p \in DOMAIN snapshot.report |->
                     IF p \in Selected(x) /\ ~ForAccount(x) THEN task[x].report[p]
                     ELSE snapshot.report[p]]
Merged(x) ==
  CASE ~(Selected(x) \subseteq task[x].enabled) -> snapshot
    [] FullReport(x) -> [gen |-> task[x].gen, report |-> task[x].report]
    [] ~FullReport(x) /\ Mergeable(x) -> [gen |-> task[x].gen, report |-> MergedParts(x)]
    [] OTHER -> snapshot

Publish(x) ==
  /\ task[x].at = "write"
  /\ snapshot' = Merged(x)
  /\ EndRefresh(x, TRUE, IF x = Scheduler THEN None ELSE task[x].report)
  /\ Release(x)
  /\ UNCHANGED <<settingsVars, applied, gen, made, wake, change, manualVars>>

\* wait_for_next_refresh.
Woken ==
  /\ task[Scheduler].at = "asleep" /\ wake
  /\ wake' = FALSE
  /\ task' = [task EXCEPT ![Scheduler].at = "lock"]
  /\ UNCHANGED <<settingsVars, applied, gen, made, guard, turn, snapshot, change, manualVars>>

AfterInterval  == "lock"
WaitAgain      == "asleep"
AfterTheTimer  == AfterInterval
Timer ==
  /\ task[Scheduler].at = "asleep"
  /\ task' = [task EXCEPT ![Scheduler].at = AfterTheTimer]
  /\ UNCHANGED <<settingsVars, applied, gen, made, guard, turn, snapshot, wake, change, manualVars>>

----------------------------------------------------------------------------
(* `manual_refresh`: a second request for the same scope joins the first.   *)

Joins(s)   == pending[s] # None

Ask(m) ==
  /\ op[m] = None
  /\ \E s \in Scopes :
       /\ IF s.account THEN Cardinality(s.providers) = 1 ELSE s.providers \subseteq enabled
       /\ ~Joins(s)
       /\ op' = [op EXCEPT ![m] = "running"]
       /\ pending' = [pending EXCEPT ![s] = m]
       /\ \E at \in {"lock", "refused"} : task' = [task EXCEPT ![m] = NewTask(at, s)]
  /\ UNCHANGED <<settingsVars, applied, gen, made, guard, turn, snapshot, wake, change>>

FinishAndForget(m) ==
  /\ task[m].at = "finish"
  /\ op' = [op EXCEPT ![m] = IF task[m].ok THEN "completed" ELSE "failed"]
  /\ task' = [task EXCEPT ![m].at = "over"]
  /\ UNCHANGED <<settingsVars, applied, gen, made, guard, turn, snapshot, wake, change, pending>>
FinishOperation(m) ==
  /\ task[m].at = "finish"
  /\ op' = [op EXCEPT ![m] = IF task[m].ok THEN "completed" ELSE "failed"]
  /\ task' = [task EXCEPT ![m].at = "clear"]
  /\ UNCHANGED <<settingsVars, applied, gen, made, guard, turn, snapshot, wake, change, pending>>

FinishOp(m) == FinishOperation(m)

ClearPending(m) ==
  /\ task[m].at \in {"clear", "refused"}
  /\ pending' = [pending EXCEPT ![task[m].scope] = None]
  /\ task' = [task EXCEPT ![m].at = IF @ = "clear" THEN "over" ELSE "cleared"]
  /\ UNCHANGED <<settingsVars, applied, gen, made, guard, turn, snapshot, wake, change, op>>

\* server_busy: the job tracker was full, and the handler fails what it entered,
\* unless its client leaves first.
FailRefused(m) ==
  /\ task[m].at = "cleared"
  /\ op' = [op EXCEPT ![m] = "failed"]
  /\ task' = [task EXCEPT ![m].at = "over"]
  /\ UNCHANGED <<settingsVars, applied, gen, made, guard, turn, snapshot, wake, change, pending>>

LeaveRefused(m) ==
  /\ task[m].at \in {"refused", "cleared"}
  /\ task' = [task EXCEPT ![m].at = "left"]
  /\ UNCHANGED <<settingsVars, applied, gen, made, guard, turn, snapshot, wake, change, manualVars>>

----------------------------------------------------------------------------
(* Readers, and the user's editor.                                          *)

Ready == snapshot # None /\ snapshot.gen = gen

\* GET /v1/usage of a snapshot that is out of date, and GET of an OAuth session
\* that is Completed while the snapshot is.
Nudge ==
  /\ \/ guard = None /\ snapshot # None /\ ~Ready
     \/ ~Ready /\ \E c \in Reported : Kind[c] \in Login
  /\ wake' = TRUE
  /\ UNCHANGED <<settingsVars, applied, gen, made, guard, turn, snapshot, change, task, manualVars>>

Edit ==
  /\ \E c \in Changes : Kind[c] = "reload" /\ Possible(c)
  /\ file' \in EnabledSets \ {file}
  /\ UNCHANGED <<enabled, view, applied, gen, made, guard, turn, snapshot, wake, change, task, manualVars>>

ChangeStep(c) == \/ LockGuard(c) \/ SaveAccount(c) \/ PatchFile(c) \/ LoadFile(c)
                 \/ StoreSettings(c) \/ BumpGeneration(c) \/ TakeSnapshot(c) \/ Notify(c)
RefreshStep(x) == \/ TakeTurn(x) \/ ReadSettings(x) \/ Collect(x) \/ Compare(x) \/ Publish(x)
ManualStep(m) == FinishOp(m) \/ ClearPending(m) \/ FailRefused(m)

Next ==
  \/ \E c \in Changes : ChangeStep(c) \/ Request(c) \/ Fail(c) \/ Leave(c)
  \/ \E x \in Refreshers : RefreshStep(x) \/ NoAdapter(x) \/ GuardBusy(x)
  \/ \E m \in Manual : ManualStep(m) \/ Ask(m) \/ LeaveRefused(m)
  \/ Woken \/ Timer \/ Nudge \/ Edit

Spec == Init /\ [][Next]_vars

\* Tasks that can go on do (a task that waits for a lock gets it in its turn),
\* and the refresh interval passes; nobody has to ask for anything or to read.
FairSpec ==
  /\ Spec
  /\ \A c \in Changes : WF_vars(ChangeStep(c)) /\ SF_vars(LockGuard(c))
  /\ \A x \in Refreshers : WF_vars(RefreshStep(x)) /\ SF_vars(TakeTurn(x))
  /\ \A m \in Manual : WF_vars(ManualStep(m))
  /\ WF_vars(Woken) /\ WF_vars(Timer)

----------------------------------------------------------------------------
(* Properties.                                                              *)

\* Every variable keeps its type.
TypeOK ==
  /\ file \in EnabledSets /\ enabled \in EnabledSets /\ view \in {None} \cup EnabledSets
  /\ applied \subseteq Changes /\ gen \in Nat /\ made \in [Changes -> Nat]
  /\ guard \in Changes \cup Refreshers \cup {None}
  /\ turn \in Refreshers \cup {None}
  /\ snapshot \in {None} \cup [gen : Nat, report : Reports]
  /\ wake \in BOOLEAN
  /\ change \in [Changes -> Stages]
  /\ task \in [Refreshers -> Task]
  /\ op \in [Manual -> {None, "running", "completed", "failed"}]
  /\ pending \in [Scopes -> Manual \cup {None}]

\* What GET /v1/usage answers (it takes the guard and compares generations) has
\* seen every change reported before, in each provider's part, and covers the
\* enabled providers, whatever refreshes and changes were interleaved.
ServedIsCurrent ==
  Ready /\ guard = None =>
    /\ DOMAIN snapshot.report = enabled
    /\ \A p \in enabled : Reported \subseteq snapshot.report[p]

\* A change made since the waiting scheduler last looked, with no wake-up pending.
Missed(c) == task[Scheduler].at = "asleep" /\ ~wake /\ task[Scheduler].gen < made[c]

\* "Settings and account changes wake the scheduler and replace its pending
\* timer" (docs/local-http-api.md:271): a change a waiting scheduler has missed is
\* still on its way to wake it.
WaitsAwareOfChanges ==
  \A c \in Changes : Missed(c) => change[c] \in {"bumped", "taken", "notify"}

\* Two kinds of change end and wake nobody: a login that its own task ends, and an
\* edited file whose reader leaves GET /v1/settings before notify_one.  A waiting
\* scheduler misses no other, whatever was lost before, between or after.
WakesNobody(c) == change[c] = "left" \/ (change[c] = "done" /\ Kind[c] = "device")
MissesOnlyTheLost ==
  \A c \in Changes :
    Missed(c) => WakesNobody(c) \/ change[c] \in {"bumped", "taken", "notify"}

\* Once changes stop, the server serves a current report again, for good.
CurrentAgain == <>[]Ready

\* Every manual refresh ends, and lets go of its scope, unless its client left
\* while it was being refused.
ManualRefreshEnds ==
  \A m \in Manual : op[m] = "running" ~>
    \/ task[m].at = "left"
    \/ op[m] # "running" /\ \A s \in Scopes : pending[s] # m
=============================================================================
