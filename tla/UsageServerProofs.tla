--------------------------- MODULE UsageServerProofs ---------------------------
(****************************************************************************)
(* What the server serves is current, for every set of providers, changes and *)
(* refreshes.  The argument: a report that was begun at the present generation *)
(* has seen every change that has passed it, because a change applies before  *)
(* it bumps the generation, and a refresh reads the generation before it       *)
(* collects.                                                                  *)
(****************************************************************************)
EXTENDS UsageServer, TLAPS

USE KindsAreKnown, TogetherAreChanges, NoneIsNothing, ActorsDiffer

----------------------------------------------------------------------------
(* The inductive invariant.                                                 *)

\* Who is in the middle of a write holds the commit guard.
GuardInv ==
  /\ \A c \in Changes : change[c] \in {"saving", "saved", "stored"} => guard = c
  /\ \A x \in Refreshers : task[x].at = "write" => guard = x

ViewInv == \A c \in Changes : change[c] = "saved" /\ Kind[c] \in Settings => view # None

\* Changes the generation counts, and those that have had their effect.
Bumped  == {"bumped", "taken", "notify", "done", "left"}
Counted == {c \in Changes : change[c] \in Bumped}
AppliedInv ==
  \A c \in Changes :
    change[c] \in Bumped \cup {"stored", "uncertain"}
      \/ (change[c] = "saved" /\ Kind[c] \notin Settings) => c \in applied

GenInv ==
  /\ snapshot # None => snapshot.gen <= gen
  /\ \A x \in Refreshers : task[x].gen <= gen

\* A refresh under way knows what it was to refresh, and reports on that.
ReportInv ==
  \A x \in Refreshers :
    /\ task[x].at \in {"collect", "publish", "write"} => task[x].enabled # None
    /\ task[x].at \in {"publish", "write"} => task[x].report \in [Selected(x) -> SUBSET Changes]

\* Nothing of the present generation misses a change the generation counts.
SeenInv ==
  /\ snapshot # None /\ snapshot.gen = gen =>
       \A p \in DOMAIN snapshot.report : Counted \subseteq snapshot.report[p]
  /\ \A x \in Refreshers : task[x].at \in {"publish", "write"} /\ task[x].gen = gen =>
       \A p \in DOMAIN task[x].report : Counted \subseteq task[x].report[p]

\* Nor is it of other settings, but while a change that stored some has yet to
\* bump the generation.
Storing == \E c \in Changes : change[c] = "stored"
EnabledInv ==
  ~Storing =>
    /\ snapshot # None /\ snapshot.gen = gen => DOMAIN snapshot.report = enabled
    /\ \A x \in Refreshers :
         task[x].at \in {"collect", "publish", "write"} /\ task[x].gen = gen =>
           task[x].enabled = enabled

\* Only a change that has bumped the generation has made one.
MadeInv == \A c \in Changes : made[c] <= gen /\ (made[c] # 0 => change[c] \in Bumped)

\* A scheduler that has not seen the generation a change made is about to look, or
\* will be woken, unless the change is of those that wake nobody.
AwareInv ==
  \A c \in Changes :
    \/ task[Scheduler].at = "lock" \/ made[c] <= task[Scheduler].gen \/ wake
    \/ WakesNobody(c) \/ change[c] \in {"bumped", "taken", "notify"}

IInv == /\ TypeOK /\ GuardInv /\ ViewInv /\ AppliedInv /\ GenInv /\ ReportInv
        /\ SeenInv /\ EnabledInv /\ MadeInv /\ AwareInv

LEMMA InitInv == Init => IInv
<1> SUFFICES ASSUME Init PROVE IInv
  OBVIOUS
<1>1. \A x \in Refreshers : NewTask("lock", None) \in Task /\ NewTask("idle", None) \in Task
  BY DEF NewTask, Task, TaskStages
<1>2. TypeOK
  BY <1>1 DEF Init, TypeOK, Stages
<1>3. \A x \in Refreshers : task[x].at \in {"lock", "idle"} /\ task[x].gen = 0
  BY DEF Init, NewTask
<1>4. task[Scheduler].at = "lock"
  BY DEF Init, NewTask, Refreshers
<1> QED BY <1>2, <1>3, <1>4
        DEF Init, IInv, GuardInv, ViewInv, AppliedInv, GenInv, ReportInv, SeenInv, EnabledInv,
            MadeInv, AwareInv, Bumped

----------------------------------------------------------------------------
(* The steps of a change.                                                   *)

ChangeAct(c) == ChangeStep(c) \/ Request(c) \/ Fail(c) \/ Leave(c)

\* A bump, seen from the change alone.
LEMMA BumpMoves ==
  ASSUME TypeOK, NEW c \in Changes, BumpGeneration(c)
  PROVE  \E stage \in {"bumped", "notify", "done"} :
           /\ change' = [change EXCEPT ![c] = stage]
           /\ stage = "done" => Kind[c] = "device"
           /\ change[c] \in {"saved", "stored", "uncertain"}
           /\ change[c] = "saved" => Kind[c] \notin Settings
           /\ guard' \in {guard, None} /\ (guard' = guard \/ guard = c)
BY DEF BumpGeneration, AfterLogin, Move, Release, Login, Kinds

LEMMA ChangeTypes ==
  ASSUME TypeOK, ViewInv, NEW c \in Changes, ChangeAct(c)
  PROVE  TypeOK'
<1>1. CASE Request(c) \/ Fail(c) \/ Leave(c) \/ LockGuard(c)
  BY <1>1, SMTT(30), ZenonT(40) DEF Request, Fail, Leave, LockGuard, Move, Release, TypeOK, Stages, settingsVars, manualVars
<1>2. CASE SaveAccount(c) \/ PatchFile(c) \/ LoadFile(c)
  BY <1>2 DEF SaveAccount, PatchFile, LoadFile, Move, Release, TypeOK, Stages, settingsVars, manualVars
<1>3. CASE StoreSettings(c)
  BY <1>3 DEF StoreSettings, Move, TypeOK, Stages, ViewInv, manualVars
<1>4. CASE BumpGeneration(c)
  <2>1. gen' \in Nat /\ made' \in [Changes -> Nat]
    BY <1>4 DEF BumpGeneration, TypeOK
  <2>2. change' \in [Changes -> Stages] /\ guard' \in Changes \cup Refreshers \cup {None}
    BY <1>4, BumpMoves DEF TypeOK, Stages
  <2> QED BY <1>4, <2>1, <2>2 DEF BumpGeneration, TypeOK, settingsVars, manualVars
<1>5. CASE TakeSnapshot(c)
  BY <1>5 DEF TakeSnapshot, Move, TypeOK, Stages, settingsVars, manualVars
<1>6. CASE Notify(c)
  BY <1>6 DEF Notify, NotifyScheduler, NotifyOne, Move, Release, TypeOK, Stages, settingsVars,
              manualVars
<1> QED BY <1>1, <1>2, <1>3, <1>4, <1>5, <1>6 DEF ChangeAct, ChangeStep

LEMMA ChangeGuard ==
  ASSUME TypeOK, GuardInv, NEW c \in Changes, ChangeAct(c)
  PROVE  GuardInv'
<1>1. task' = task /\ change \in [Changes -> Stages]
  BY DEF ChangeAct, ChangeStep, Request, Fail, Leave, LockGuard, SaveAccount, PatchFile, LoadFile,
         StoreSettings, BumpGeneration, TakeSnapshot, Notify, TypeOK
<1>2. CASE Request(c) \/ Fail(c) \/ Leave(c) \/ LockGuard(c)
  BY <1>1, <1>2 DEF Request, Possible, Fail, Leave, LockGuard, Move, Release, GuardInv
<1>3. CASE SaveAccount(c) \/ PatchFile(c) \/ LoadFile(c) \/ StoreSettings(c)
  BY <1>1, <1>3 DEF SaveAccount, PatchFile, LoadFile, StoreSettings, Move, Release, GuardInv
<1>4. CASE BumpGeneration(c) \/ TakeSnapshot(c) \/ Notify(c)
  BY <1>1, <1>4 DEF BumpGeneration, AfterLogin, TakeSnapshot, Notify, Move, Release, GuardInv
<1> QED BY <1>2, <1>3, <1>4 DEF ChangeAct, ChangeStep

LEMMA ChangeView ==
  ASSUME TypeOK, GuardInv, ViewInv, NEW c \in Changes, ChangeAct(c)
  PROVE  ViewInv'
<1>1. change \in [Changes -> Stages]
  BY DEF TypeOK
<1>2. CASE Request(c) \/ Fail(c) \/ Leave(c) \/ LockGuard(c)
  BY <1>1, <1>2 DEF Request, Possible, Fail, Leave, LockGuard, Move, settingsVars, ViewInv
<1>3. CASE SaveAccount(c) \/ PatchFile(c) \/ LoadFile(c)
  BY <1>1, <1>3 DEF SaveAccount, PatchFile, LoadFile, Move, settingsVars, ViewInv, TypeOK
<1>4. CASE StoreSettings(c)
  BY <1>1, <1>4 DEF StoreSettings, Move, ViewInv, GuardInv
<1>5. CASE BumpGeneration(c) \/ TakeSnapshot(c) \/ Notify(c)
  BY <1>1, <1>5 DEF BumpGeneration, AfterLogin, TakeSnapshot, Notify, Move, settingsVars, ViewInv
<1> QED BY <1>2, <1>3, <1>4, <1>5 DEF ChangeAct, ChangeStep

LEMMA ChangeApplied ==
  ASSUME TypeOK, AppliedInv, NEW c \in Changes, ChangeAct(c)
  PROVE  AppliedInv'
<1>1. change \in [Changes -> Stages]
  BY DEF TypeOK
<1>2. CASE Request(c) \/ Fail(c) \/ Leave(c) \/ LockGuard(c)
  BY <1>1, <1>2 DEF Request, Possible, Fail, Leave, LockGuard, Move, AppliedInv, Bumped
<1>3. CASE SaveAccount(c)
  BY <1>1, <1>3 DEF SaveAccount, Move, AppliedInv, Bumped
<1>6. CASE PatchFile(c) \/ LoadFile(c)
  BY <1>1, <1>6 DEF PatchFile, LoadFile, Move, AppliedInv, Bumped, Settings
<1>7. CASE StoreSettings(c)
  BY <1>1, <1>7 DEF StoreSettings, Move, AppliedInv, Bumped
<1>4. CASE TakeSnapshot(c) \/ Notify(c)
  BY <1>1, <1>4 DEF TakeSnapshot, Notify, Move, AppliedInv, Bumped
<1>5. CASE BumpGeneration(c)
  <2>1. applied' = applied
    BY <1>5 DEF BumpGeneration
  <2> QED BY <1>1, <1>5, <2>1, BumpMoves DEF AppliedInv, Bumped
<1> QED BY <1>2, <1>3, <1>4, <1>5, <1>6, <1>7 DEF ChangeAct, ChangeStep

\* A change is counted when it bumps the generation, and not before.
LEMMA ChangeCounts ==
  ASSUME TypeOK, NEW c \in Changes, ChangeAct(c)
  PROVE  /\ task' = task /\ snapshot' \in {None, snapshot}
         /\ \/ gen' = gen + 1
            \/ gen' = gen /\ Counted' = Counted
<1>1. change \in [Changes -> Stages]
  BY DEF TypeOK
<1>2. CASE Request(c) \/ Fail(c) \/ Leave(c) \/ LockGuard(c)
  BY <1>1, <1>2 DEF Request, Possible, Fail, Leave, LockGuard, Move, Counted, Bumped
<1>3. CASE SaveAccount(c) \/ PatchFile(c) \/ LoadFile(c) \/ StoreSettings(c)
  BY <1>1, <1>3 DEF SaveAccount, PatchFile, LoadFile, StoreSettings, Move, Counted, Bumped
<1>4. CASE BumpGeneration(c)
  BY <1>4 DEF BumpGeneration
<1>5. CASE TakeSnapshot(c)
  BY <1>1, <1>5 DEF TakeSnapshot, Move, Counted, Bumped
<1>6. CASE Notify(c)
  BY <1>1, <1>6 DEF Notify, Move, Counted, Bumped
<1> QED BY <1>2, <1>3, <1>4, <1>5, <1>6 DEF ChangeAct, ChangeStep

LEMMA ChangeReports ==
  ASSUME TypeOK, GenInv, ReportInv, SeenInv, NEW c \in Changes, ChangeAct(c)
  PROVE  GenInv' /\ ReportInv' /\ SeenInv'
<1>1. /\ task' = task /\ snapshot' \in {None, snapshot} /\ gen \in Nat
      /\ \A x \in Refreshers : task[x].gen \in Nat
      /\ snapshot # None => snapshot.gen \in Nat
      /\ \/ gen' = gen + 1
         \/ gen' = gen /\ Counted' = Counted
  BY ChangeCounts DEF TypeOK, Task
<1>2. GenInv'
  BY <1>1 DEF GenInv
<1>3. ReportInv'
  BY <1>1 DEF ReportInv, Selected, Chosen, Scoped
<1>4. SeenInv'
  BY <1>1 DEF SeenInv, GenInv
<1> QED BY <1>2, <1>3, <1>4

LEMMA ChangeEnabled ==
  ASSUME TypeOK, GuardInv, GenInv, EnabledInv, NEW c \in Changes, ChangeAct(c)
  PROVE  EnabledInv'
<1>1. /\ task' = task /\ snapshot' \in {None, snapshot} /\ gen \in Nat
      /\ \A x \in Refreshers : task[x].gen \in Nat
      /\ snapshot # None => snapshot.gen \in Nat
      /\ gen' \in {gen, gen + 1} /\ change \in [Changes -> Stages]
  BY ChangeCounts DEF TypeOK, Task
<1>2. CASE StoreSettings(c)
  BY <1>1, <1>2 DEF StoreSettings, Move, EnabledInv, Storing
<1>3. CASE gen' = gen + 1
  BY <1>1, <1>3 DEF EnabledInv, GenInv
<1>4. CASE ~StoreSettings(c) /\ gen' = gen
  <2>1. ~BumpGeneration(c)
    BY <1>1, <1>4 DEF BumpGeneration
  <2>2. enabled' = enabled
    BY <1>4, <2>1 DEF ChangeAct, ChangeStep, Request, Fail, Leave, LockGuard, SaveAccount,
      PatchFile, LoadFile, TakeSnapshot, Notify, settingsVars
  <2>3. change[c] # "stored" /\ \A d \in Changes \ {c} : change'[d] = change[d]
    BY <1>1, <1>4, <2>1 DEF ChangeAct, ChangeStep, Request, Possible, Fail, Leave, LockGuard,
      SaveAccount, PatchFile, LoadFile, TakeSnapshot, Notify, Move
  <2> QED BY <1>1, <1>4, <2>2, <2>3 DEF EnabledInv, Storing
<1> QED BY <1>1, <1>2, <1>3, <1>4

LEMMA ChangeMade ==
  ASSUME TypeOK, MadeInv, NEW c \in Changes, ChangeAct(c)
  PROVE  MadeInv'
<1>1. change \in [Changes -> Stages] /\ made \in [Changes -> Nat] /\ gen \in Nat
  BY DEF TypeOK
<1>2. CASE BumpGeneration(c)
  <2>1. gen' = gen + 1 /\ made' = [made EXCEPT ![c] = gen']
    BY <1>2 DEF BumpGeneration
  <2>2. change'[c] \in Bumped /\ \A d \in Changes \ {c} : change'[d] = change[d]
    BY <1>1, <1>2, BumpMoves DEF Bumped
  <2> QED BY <1>1, <2>1, <2>2 DEF MadeInv
<1>3. CASE Request(c) \/ Fail(c) \/ Leave(c) \/ LockGuard(c)
  BY <1>1, <1>3 DEF Request, Possible, Fail, Leave, LockGuard, Move, MadeInv, Bumped
<1>4. CASE SaveAccount(c) \/ PatchFile(c) \/ LoadFile(c) \/ StoreSettings(c)
  BY <1>1, <1>4 DEF SaveAccount, PatchFile, LoadFile, StoreSettings, Move, MadeInv, Bumped
<1>5. CASE TakeSnapshot(c) \/ Notify(c)
  BY <1>1, <1>5 DEF TakeSnapshot, Notify, Move, MadeInv, Bumped
<1> QED BY <1>2, <1>3, <1>4, <1>5 DEF ChangeAct, ChangeStep

LEMMA ChangeAware ==
  ASSUME TypeOK, MadeInv, AwareInv, NEW c \in Changes, ChangeAct(c)
  PROVE  AwareInv'
<1>1. /\ task' = task /\ change \in [Changes -> Stages] /\ made \in [Changes -> Nat]
      /\ task[Scheduler].gen \in Nat
  BY ChangeCounts DEF TypeOK, Task, Refreshers
<1>2. CASE Request(c) \/ Fail(c) \/ Leave(c) \/ LockGuard(c)
  <2>1. made' = made /\ \A d \in Changes \ {c} : change'[d] = change[d]
    BY <1>1, <1>2 DEF Request, Fail, Leave, LockGuard, Move
  <2>2. wake => wake'
    BY <1>2, Zenon DEF Request, Fail, Leave, LockGuard
  <2>3. made[c] = 0 \/ WakesNobody(c)'
    BY <1>1, <1>2 DEF Request, Possible, Fail, Leave, LockGuard, Move, MadeInv, WakesNobody, Bumped
  <2> QED BY <1>1, <2>1, <2>2, <2>3 DEF AwareInv, WakesNobody
<1>3. CASE SaveAccount(c) \/ PatchFile(c) \/ LoadFile(c) \/ StoreSettings(c)
  BY <1>1, <1>3 DEF SaveAccount, PatchFile, LoadFile, StoreSettings, Move, AwareInv, WakesNobody
<1>4. CASE BumpGeneration(c)
  <2>1. wake' = wake /\ \A d \in Changes \ {c} : made'[d] = made[d]
    BY <1>1, <1>4 DEF BumpGeneration
  <2>2. /\ WakesNobody(c)' \/ change'[c] \in {"bumped", "taken", "notify"}
        /\ \A d \in Changes \ {c} : change'[d] = change[d]
    BY <1>1, <1>4, BumpMoves DEF WakesNobody
  <2> QED BY <1>1, <2>1, <2>2 DEF AwareInv, WakesNobody
<1>5. CASE TakeSnapshot(c) \/ Notify(c)
  BY <1>1, <1>5 DEF TakeSnapshot, Notify, NotifyScheduler, NotifyOne, Move, AwareInv, WakesNobody
<1> QED BY <1>2, <1>3, <1>4, <1>5 DEF ChangeAct, ChangeStep

LEMMA ChangeKeeps == IInv /\ (\E c \in Changes : ChangeAct(c)) => IInv'
BY ChangeTypes, ChangeGuard, ChangeView, ChangeApplied, ChangeReports, ChangeEnabled, ChangeMade,
   ChangeAware
DEF IInv

----------------------------------------------------------------------------
(* The steps of a refresh.                                                  *)

\* The run of x becomes t, and no other.
Becomes(x, t) ==
  /\ task'[x] = t
  /\ \A y \in Refreshers \ {x} : task'[y] = task[y]
  /\ t \in Task /\ task' \in [Refreshers -> Task]

LEMMA EndRefreshTask ==
  ASSUME TypeOK, NEW x \in Refreshers, NEW ok \in BOOLEAN, NEW report \in {None} \cup Reports,
         EndRefresh(x, ok, report)
  PROVE  /\ \E t \in Task : /\ Becomes(x, t) /\ t.gen = task[x].gen
                            /\ t.at = IF x = Scheduler THEN "asleep" ELSE "finish"
         /\ turn' = None
<1> DEFINE t == [task[x] EXCEPT !.at = IF x = Scheduler THEN "asleep" ELSE "finish",
                                !.ok = ok, !.report = report, !.enabled = None]
<1>1. task \in [Refreshers -> Task] /\ task[x] \in Task
  BY DEF TypeOK
<1>2. task' = [task EXCEPT ![x] = t]
  BY <1>1 DEF EndRefresh, Task
<1>3. /\ t \in Task /\ t.gen = task[x].gen
      /\ t.at = IF x = Scheduler THEN "asleep" ELSE "finish"
  BY <1>1 DEF Task, TaskStages
<1>4. turn' = None
  BY DEF EndRefresh
<1> HIDE DEF t
<1> QED BY <1>1, <1>2, <1>3, <1>4 DEF Becomes

LEMMA SelectedEnabled ==
  ASSUME TypeOK, ReportInv, NEW x \in Refreshers,
         task[x].at \in {"collect", "publish", "write"}
  PROVE  /\ Selected(x) \in EnabledSets
         /\ task[x].enabled \in EnabledSets
<1>1. task[x] \in Task /\ task[x].enabled # None
  BY DEF TypeOK, ReportInv
<1>2. task[x].enabled \in EnabledSets
  BY <1>1 DEF Task
<1>3. Scoped(x) => task[x].scope.providers \in EnabledSets
  BY <1>1 DEF Task, Scoped, Scopes
<1> QED BY <1>2, <1>3 DEF Selected, Chosen

LEMMA TakeTurnTask ==
  ASSUME TypeOK, NEW x \in Refreshers, TakeTurn(x)
  PROVE  \E t \in Task : Becomes(x, t) /\ t.at = "settings" /\ t.gen = gen
<1> DEFINE t == [task[x] EXCEPT !.at = "settings", !.gen = gen]
<1>1. task \in [Refreshers -> Task] /\ task[x] \in Task /\ gen \in Nat
  BY DEF TypeOK
<1>2. task' = [task EXCEPT ![x] = t]
  BY <1>1 DEF TakeTurn, Task
<1>3. t \in Task /\ t.gen = gen /\ t.at = "settings"
  BY <1>1 DEF Task, TaskStages
<1> HIDE DEF t
<1> QED BY <1>1, <1>2, <1>3 DEF Becomes

LEMMA ReadSettingsTask ==
  ASSUME TypeOK, NEW x \in Refreshers, ReadSettings(x)
  PROVE  /\ \E t \in Task :
              /\ Becomes(x, t) /\ t.gen = task[x].gen
              /\ \/ t.at = IF x = Scheduler THEN "asleep" ELSE "finish"
                 \/ t.at = "collect" /\ t.enabled = enabled
         /\ turn' \in {None, turn}
<1> DEFINE t == [task[x] EXCEPT !.at = "collect", !.enabled = enabled]
<1>1. task \in [Refreshers -> Task] /\ task[x] \in Task /\ enabled \in EnabledSets
  BY DEF TypeOK
<1>2. CASE EndRefresh(x, FALSE, None)
  BY <1>2, EndRefreshTask
<1>3. CASE task' = [task EXCEPT ![x].at = "collect", ![x].enabled = enabled] /\ turn' = turn
  <2>1. task' = [task EXCEPT ![x] = t]
    BY <1>1, <1>3 DEF Task
  <2>2. t \in Task /\ t.gen = task[x].gen /\ t.at = "collect" /\ t.enabled = enabled
    BY <1>1 DEF Task, TaskStages
  <2> HIDE DEF t
  <2>3. Becomes(x, t)
    BY <1>1, <2>1, <2>2 DEF Becomes
  <2> QED BY <1>3, <2>2, <2>3
<1> QED BY <1>2, <1>3 DEF ReadSettings

LEMMA CollectTask ==
  ASSUME TypeOK, ReportInv, NEW x \in Refreshers, Collect(x)
  PROVE  \E t \in Task :
           /\ Becomes(x, t) /\ t.at = "publish"
           /\ t.gen = task[x].gen /\ t.enabled = task[x].enabled /\ t.scope = task[x].scope
           /\ t.report = [p \in Selected(x) |-> applied]
<1> DEFINE r == [p \in Selected(x) |-> applied]
           t == [task[x] EXCEPT !.at = "publish", !.gen = task[x].gen, !.report = r]
<1>1. task \in [Refreshers -> Task] /\ task[x] \in Task
  BY DEF TypeOK
<1>2. r \in Reports
  <2>1. Selected(x) \in EnabledSets /\ applied \subseteq Changes
    BY SelectedEnabled DEF Collect, TypeOK
  <2> QED BY <2>1 DEF Reports
<1>3. task' = [task EXCEPT ![x] = t]
  <2>1. task' = [task EXCEPT ![x].at = "publish", ![x].gen = task[x].gen, ![x].report = r]
    BY DEF Collect, GenOf, GenAtStart
  <2> HIDE DEF r
  <2> QED BY <1>1, <2>1 DEF Task
<1>4. /\ t \in Task /\ t.at = "publish" /\ t.report = r
      /\ t.gen = task[x].gen /\ t.enabled = task[x].enabled /\ t.scope = task[x].scope
  <2> HIDE DEF r
  <2> QED BY <1>1, <1>2 DEF Task, TaskStages
<1> HIDE DEF t, r
<1>5. Becomes(x, t)
  BY <1>1, <1>3, <1>4 DEF Becomes
<1> QED BY <1>4, <1>5 DEF r

LEMMA CompareTask ==
  ASSUME TypeOK, NEW x \in Refreshers, Compare(x)
  PROVE  /\ \E t \in Task :
              /\ Becomes(x, t) /\ t.gen = task[x].gen
              /\ \/ /\ t.at = IF x = Scheduler THEN "asleep" ELSE "finish"
                    /\ wake' /\ guard' = guard
                 \/ /\ t.at = "write" /\ t.enabled = task[x].enabled /\ t.scope = task[x].scope
                    /\ t.report = task[x].report
                    /\ wake' = wake /\ guard' = x
         /\ turn' \in {None, turn} /\ wake' \in BOOLEAN
<1> DEFINE t == [task[x] EXCEPT !.at = "write"]
<1>1. task \in [Refreshers -> Task] /\ task[x] \in Task /\ wake \in BOOLEAN
  BY DEF TypeOK
<1>2. CASE StillCurrent(x)
  <2>1. task' = [task EXCEPT ![x] = t] /\ guard' = x /\ turn' = turn /\ wake' = wake
    BY <1>1, <1>2 DEF Compare, Task
  <2>2. /\ t \in Task /\ t.gen = task[x].gen /\ t.at = "write" /\ t.enabled = task[x].enabled
        /\ t.scope = task[x].scope /\ t.report = task[x].report
    BY <1>1 DEF Task, TaskStages
  <2> HIDE DEF t
  <2> QED BY <1>1, <2>1, <2>2 DEF Becomes
<1>3. CASE ~StillCurrent(x)
  BY <1>3, EndRefreshTask DEF Compare
<1> QED BY <1>2, <1>3

\* What merge_refresh_report makes of the snapshot is as good as what it is made of.
LEMMA MergedFacts ==
  ASSUME TypeOK, GenInv, ReportInv, SeenInv, EnabledInv, NEW x \in Refreshers,
         task[x].at = "write", ~Storing
  PROVE  /\ Merged(x) \in {None} \cup [gen : Nat, report : Reports]
         /\ Merged(x) # None => Merged(x).gen <= gen
         /\ Merged(x) # None /\ Merged(x).gen = gen =>
              /\ \A p \in DOMAIN Merged(x).report : Counted \subseteq Merged(x).report[p]
              /\ DOMAIN Merged(x).report = enabled
<1> DEFINE new == task[x].report
<1>1. /\ new \in [Selected(x) -> SUBSET Changes] /\ Selected(x) \in EnabledSets
      /\ task[x].gen \in Nat /\ task[x].gen <= gen /\ gen \in Nat
  BY SelectedEnabled DEF ReportInv, TypeOK, Task, GenInv
<1>2. task[x].gen = gen =>
        /\ \A p \in Selected(x) : Counted \subseteq new[p]
        /\ task[x].enabled = enabled
  BY <1>1 DEF SeenInv, EnabledInv
<1>3. CASE Merged(x) = snapshot
  BY <1>3 DEF TypeOK, GenInv, SeenInv, EnabledInv
<1>4. CASE FullReport(x) /\ Merged(x) = [gen |-> task[x].gen, report |-> new]
  <2>1. new \in Reports
    BY <1>1 DEF Reports
  <2>2. DOMAIN new = Selected(x) /\ Selected(x) = task[x].enabled
    BY <1>1, <1>4 DEF FullReport
  <2> HIDE DEF new
  <2> QED BY <1>1, <1>2, <1>4, <2>1, <2>2
<1>5. CASE Mergeable(x) /\ Merged(x) = [gen |-> task[x].gen, report |-> MergedParts(x)]
  <2> DEFINE old == snapshot.report
             parts == MergedParts(x)
  <2>1. snapshot # None /\ snapshot.gen = task[x].gen /\ old \in Reports
    BY <1>5 DEF Mergeable, TypeOK
  <2>2. PICK e \in EnabledSets : old \in [e -> SUBSET Changes]
    BY <2>1 DEF Reports
  <2>3. /\ DOMAIN parts = e
        /\ \A p \in e : parts[p] = old[p] \/ (p \in Selected(x) /\ parts[p] = new[p])
    BY <2>2 DEF MergedParts
  <2>4. parts \in [e -> SUBSET Changes]
    <3>1. parts = [p \in e |-> parts[p]]
      BY <2>2 DEF MergedParts
    <3> HIDE DEF parts, old, new
    <3> QED BY <1>1, <2>2, <2>3, <3>1
  <2>5. parts \in Reports
    BY <2>4 DEF Reports
  <2>6. task[x].gen = gen => DOMAIN old = enabled /\ \A p \in e : Counted \subseteq old[p]
    BY <2>1, <2>2 DEF SeenInv, EnabledInv
  <2> HIDE DEF parts, old, new
  <2>7. Merged(x) = [gen |-> task[x].gen, report |-> parts]
    BY <1>5 DEF parts
  <2> QED BY <1>1, <1>2, <2>2, <2>3, <2>5, <2>6, <2>7
<1> QED BY <1>3, <1>4, <1>5 DEF Merged

\* A run that takes another stage, when what it was about or has read is not lost.
LEMMA RunKeeps ==
  ASSUME IInv, NEW x \in Refreshers, NEW t \in Task, Becomes(x, t),
         UNCHANGED <<settingsVars, applied, gen, made, snapshot, change>>,
         \/ UNCHANGED manualVars
         \/ /\ op' \in [Manual -> {None, "running", "completed", "failed"}]
            /\ pending' \in [Scopes -> Manual \cup {None}],
         turn' \in Refreshers \cup {None}, wake' \in BOOLEAN,
         guard' = guard \/ (t.at = "write" /\ guard = None /\ guard' = x),
         t.gen <= gen, t.at = "write" => guard' = x,
         t.at \in {"collect", "publish", "write"} => t.enabled # None,
         t.at \in {"publish", "write"} =>
           t.report \in [(IF t.scope # None THEN t.scope.providers ELSE t.enabled) -> SUBSET Changes],
         t.at \in {"publish", "write"} /\ t.gen = gen =>
           \A p \in DOMAIN t.report : Counted \subseteq t.report[p],
         ~Storing /\ t.at \in {"collect", "publish", "write"} /\ t.gen = gen => t.enabled = enabled,
         x = Scheduler => \/ t.at = "lock" \/ t.gen = gen \/ wake'
                          \/ wake' = wake /\ task[x].at # "lock" /\ t.gen = task[x].gen,
         x # Scheduler /\ wake => wake'
  PROVE  IInv'
<1> USE DEF IInv, Becomes
<1>1. TypeOK'
  BY DEF TypeOK, settingsVars, manualVars
<1>2. GuardInv' /\ ViewInv' /\ AppliedInv' /\ GenInv'
  <2>1. GuardInv'
    BY DEF GuardInv, TypeOK
  <2>2. ViewInv' /\ AppliedInv' /\ GenInv'
    BY DEF ViewInv, AppliedInv, GenInv, settingsVars
  <2> QED BY <2>1, <2>2
<1>3. ReportInv'
  BY DEF ReportInv, Selected, Chosen, Scoped
<1>4. SeenInv'
  BY DEF SeenInv, Counted
<1>5. EnabledInv'
  BY DEF EnabledInv, Storing, settingsVars
<1>6. MadeInv' /\ AwareInv'
  <2>1. MadeInv'
    BY DEF MadeInv
  <2>2. \A c \in Changes : made[c] \in Nat /\ made[c] <= gen
    BY DEF TypeOK, MadeInv
  <2> QED BY <2>1, <2>2 DEF AwareInv, WakesNobody, Refreshers
<1> QED BY <1>1, <1>2, <1>3, <1>4, <1>5, <1>6

LEMMA RefreshKeeps ==
  ASSUME IInv, NEW x \in Refreshers, RefreshStep(x) \/ NoAdapter(x) \/ GuardBusy(x)
  PROVE  IInv'
<1>1. /\ task[x].gen \in Nat /\ task[x].gen <= gen /\ gen \in Nat /\ wake \in BOOLEAN
      /\ turn \in Refreshers \cup {None}
  BY DEF IInv, TypeOK, Task, GenInv
<1>2. TypeOK /\ ReportInv
  BY DEF IInv
<1>3. CASE TakeTurn(x)
  <2>1. PICK t \in Task : Becomes(x, t) /\ t.at = "settings" /\ t.gen = gen
    BY <1>2, <1>3, TakeTurnTask
  <2> QED BY <1>1, <1>3, <2>1, RunKeeps DEF TakeTurn
<1>4. CASE ReadSettings(x)
  <2>1. PICK t \in Task : /\ Becomes(x, t) /\ t.gen = task[x].gen
                          /\ \/ t.at = IF x = Scheduler THEN "asleep" ELSE "finish"
                             \/ t.at = "collect" /\ t.enabled = enabled
    BY <1>2, <1>4, ReadSettingsTask
  <2>2. t.at # "collect" => t.at \in {"asleep", "finish"}
    BY <2>1
  <2>3. enabled # None
    BY <1>2 DEF TypeOK
  <2> QED BY <1>1, <1>2, <1>4, <2>1, <2>2, <2>3, RunKeeps, ReadSettingsTask, SMTT(30), ZenonT(40) DEF ReadSettings
<1>5. CASE Collect(x)
  <2>1. PICK t \in Task :
          /\ Becomes(x, t) /\ t.at = "publish"
          /\ t.gen = task[x].gen /\ t.enabled = task[x].enabled /\ t.scope = task[x].scope
          /\ t.report = [p \in Selected(x) |-> applied]
    BY <1>2, <1>5, CollectTask
  <2>2. task[x].at = "collect" /\ task[x].enabled # None
    BY <1>2, <1>5 DEF Collect, ReportInv
  <2>3. t.report \in [Selected(x) -> SUBSET Changes] /\ applied \subseteq Changes
    BY <1>2, <2>1 DEF TypeOK
  <2>4. Selected(x) = IF t.scope # None THEN t.scope.providers ELSE t.enabled
    BY <2>1 DEF Selected, Chosen, Scoped
  <2>5. \A p \in DOMAIN t.report : Counted \subseteq t.report[p]
    BY <2>1 DEF Counted, IInv, AppliedInv
  <2>6. ~Storing /\ t.gen = gen => t.enabled = enabled
    BY <2>1, <2>2 DEF IInv, EnabledInv
  <2> QED BY <1>1, <1>5, <2>1, <2>2, <2>3, <2>4, <2>5, <2>6, RunKeeps DEF Collect
<1>6. CASE NoAdapter(x) \/ GuardBusy(x)
  <2>1. PICK t \in Task : /\ Becomes(x, t) /\ t.gen = task[x].gen
                          /\ t.at = IF x = Scheduler THEN "asleep" ELSE "finish"
    BY <1>2, <1>6, EndRefreshTask DEF NoAdapter, GuardBusy
  <2>2. t.at \in {"asleep", "finish"}
    BY <2>1
  <2>3. turn' = None
    BY <1>6 DEF NoAdapter, GuardBusy, EndRefresh
  <2> QED BY <1>1, <1>6, <2>1, <2>2, <2>3, RunKeeps DEF NoAdapter, GuardBusy
<1>7. CASE Compare(x)
  <2>1. PICK t \in Task :
          /\ Becomes(x, t) /\ t.gen = task[x].gen
          /\ \/ /\ t.at = IF x = Scheduler THEN "asleep" ELSE "finish"
                /\ wake' /\ guard' = guard
             \/ /\ t.at = "write" /\ t.enabled = task[x].enabled /\ t.scope = task[x].scope
                /\ t.report = task[x].report
                /\ wake' = wake /\ guard' = x
    BY <1>2, <1>7, CompareTask
  <2>2. turn' \in {None, turn} /\ wake' \in BOOLEAN
    BY <1>2, <1>7, CompareTask
  <2>3. CASE t.at # "write"
    <3>1. t.at \in {"asleep", "finish"} /\ wake' /\ guard' = guard
      BY <2>1, <2>3
    <3> QED BY <1>1, <1>7, <2>1, <2>2, <3>1, RunKeeps DEF Compare
  <2>4. CASE t.at = "write"
    <3>1. /\ t.at = "write" /\ t.enabled = task[x].enabled /\ t.scope = task[x].scope
          /\ t.report = task[x].report /\ wake' = wake /\ guard' = x
      BY <2>1, <2>4
    <3>2. task[x].at = "publish" /\ guard = None
      BY <1>7 DEF Compare
    <3>3. /\ t.enabled # None
          /\ t.report \in [(IF t.scope # None THEN t.scope.providers ELSE t.enabled)
                             -> SUBSET Changes]
      BY <1>2, <3>1, <3>2 DEF ReportInv, Selected, Chosen, Scoped
    <3>4. t.gen = gen => \A p \in DOMAIN t.report : Counted \subseteq t.report[p]
      BY <2>1, <3>1, <3>2 DEF IInv, SeenInv
    <3>5. ~Storing /\ t.gen = gen => t.enabled = enabled
      BY <2>1, <3>1, <3>2 DEF IInv, EnabledInv
    <3> QED BY <1>1, <1>7, <2>1, <2>2, <3>1, <3>2, <3>3, <3>4, <3>5, RunKeeps DEF Compare
  <2> QED BY <2>3, <2>4
<1>8. CASE Publish(x)
  <2>1. task[x].at = "write" /\ guard = x /\ guard' = None /\ ~Storing
    <3>1. task[x].at = "write" /\ guard = x
      BY <1>8 DEF Publish, IInv, GuardInv
    <3> QED BY <1>8, <3>1 DEF Publish, Release, Storing, IInv, GuardInv
  <2>2. task[x].report \in Reports
    BY <1>2, <2>1, SelectedEnabled DEF ReportInv, Reports
  <2>3. PICK t \in Task : /\ Becomes(x, t) /\ t.gen = task[x].gen
                          /\ t.at = IF x = Scheduler THEN "asleep" ELSE "finish"
    BY <1>2, <1>8, <2>2, EndRefreshTask DEF Publish
  <2>4. t.at \in {"asleep", "finish"}
    BY <2>3
  <2>5. /\ snapshot' = Merged(x) /\ turn' = None
        /\ UNCHANGED <<settingsVars, applied, gen, made, wake, change, manualVars>>
    BY <1>8 DEF Publish, EndRefresh
  <2>6. /\ snapshot' \in {None} \cup [gen : Nat, report : Reports]
        /\ snapshot' # None => snapshot'.gen <= gen
        /\ snapshot' # None /\ snapshot'.gen = gen =>
             /\ \A p \in DOMAIN snapshot'.report : Counted \subseteq snapshot'.report[p]
             /\ DOMAIN snapshot'.report = enabled
    BY <1>2, <2>1, <2>5, MergedFacts DEF IInv
  <2> USE DEF IInv, Becomes
  <2>7. TypeOK'
    BY <1>1, <2>1, <2>3, <2>5, <2>6 DEF TypeOK, settingsVars, manualVars
  <2>8. GuardInv' /\ ViewInv' /\ AppliedInv' /\ GenInv' /\ ReportInv'
    <3>1. GuardInv'
      BY <2>1, <2>3, <2>4, <2>5 DEF GuardInv
    <3>2. ViewInv' /\ AppliedInv' /\ GenInv'
      BY <1>1, <2>3, <2>5, <2>6 DEF ViewInv, AppliedInv, GenInv, settingsVars
    <3>3. ReportInv'
      BY <2>3, <2>4 DEF ReportInv, Selected, Chosen, Scoped
    <3> QED BY <3>1, <3>2, <3>3
  <2>9. SeenInv'
    BY <2>3, <2>4, <2>5, <2>6 DEF SeenInv, Counted
  <2>10. EnabledInv'
    BY <2>3, <2>4, <2>5, <2>6 DEF EnabledInv, Storing, settingsVars
  <2>11. MadeInv' /\ AwareInv'
    BY <2>1, <2>3, <2>5 DEF MadeInv, AwareInv, WakesNobody, Refreshers
  <2> QED BY <2>7, <2>8, <2>9, <2>10, <2>11
<1> QED BY <1>3, <1>4, <1>5, <1>6, <1>7, <1>8 DEF RefreshStep

----------------------------------------------------------------------------
(* The scheduler's waits, manual refreshes, readers and the editor.         *)

LEMMA WaitKeeps ==
  ASSUME IInv, Woken \/ Timer
  PROVE  IInv'
<1> DEFINE t == [task[Scheduler] EXCEPT !.at = "lock"]
<1>1. /\ task \in [Refreshers -> Task] /\ task[Scheduler] \in Task /\ Scheduler \in Refreshers
      /\ wake \in BOOLEAN /\ turn \in Refreshers \cup {None}
      /\ task[Scheduler].gen <= gen
  BY DEF IInv, TypeOK, Refreshers, GenInv
<1>2. task' = [task EXCEPT ![Scheduler] = t] /\ task[Scheduler].at = "asleep"
  BY <1>1 DEF Woken, Timer, AfterTheTimer, AfterInterval, Task
<1>3. t \in Task /\ t.at = "lock" /\ t.gen = task[Scheduler].gen
  BY <1>1 DEF Task, TaskStages
<1>4. wake' \in BOOLEAN
  BY <1>1 DEF Woken, Timer
<1> HIDE DEF t
<1>5. Becomes(Scheduler, t)
  BY <1>1, <1>2, <1>3 DEF Becomes
<1> QED BY <1>1, <1>2, <1>3, <1>4, <1>5, RunKeeps DEF Woken, Timer

LEMMA ManualKeeps ==
  ASSUME IInv, NEW m \in Manual, ManualStep(m) \/ Ask(m) \/ LeaveRefused(m)
  PROVE  IInv'
<1>1. /\ task \in [Refreshers -> Task] /\ task[m] \in Task /\ m \in Refreshers /\ m # Scheduler
      /\ wake \in BOOLEAN /\ turn \in Refreshers \cup {None} /\ gen \in Nat
      /\ task[m].gen <= gen
      /\ op \in [Manual -> {None, "running", "completed", "failed"}]
      /\ pending \in [Scopes -> Manual \cup {None}]
  BY DEF IInv, TypeOK, Refreshers, GenInv
<1>2. CASE Ask(m)
  <2>1. PICK s \in Scopes, at \in {"lock", "refused"} :
          /\ op' = [op EXCEPT ![m] = "running"]
          /\ pending' = [pending EXCEPT ![s] = m]
          /\ task' = [task EXCEPT ![m] = NewTask(at, s)]
    BY <1>2 DEF Ask
  <2>2. /\ NewTask(at, s) \in Task /\ NewTask(at, s).gen = 0
        /\ NewTask(at, s).at \in {"lock", "refused"}
    BY <1>1 DEF NewTask, Task, TaskStages
  <2>3. Becomes(m, NewTask(at, s))
    BY <1>1, <2>1, <2>2 DEF Becomes
  <2>4. /\ op' \in [Manual -> {None, "running", "completed", "failed"}]
        /\ pending' \in [Scopes -> Manual \cup {None}]
    BY <1>1, <2>1
  <2> QED BY <1>1, <1>2, <2>2, <2>3, <2>4, RunKeeps DEF Ask
<1>3. ASSUME NEW stage \in {"clear", "over", "cleared", "left"},
             task' = [task EXCEPT ![m].at = stage],
             UNCHANGED <<settingsVars, applied, gen, made, guard, turn, snapshot, wake, change>>,
             op' \in [Manual -> {None, "running", "completed", "failed"}],
             pending' \in [Scopes -> Manual \cup {None}]
      PROVE  IInv'
  <2> DEFINE t == [task[m] EXCEPT !.at = stage]
  <2>1. t \in Task /\ t.at = stage /\ t.gen = task[m].gen
    BY <1>1 DEF Task, TaskStages
  <2>2. task' = [task EXCEPT ![m] = t]
    BY <1>1, <1>3 DEF Task
  <2> HIDE DEF t
  <2>3. Becomes(m, t)
    BY <1>1, <2>1, <2>2 DEF Becomes
  <2> QED BY <1>1, <1>3, <2>1, <2>3, RunKeeps
<1>4. CASE FinishOp(m)
  <2>1. op' \in [Manual -> {None, "running", "completed", "failed"}]
    BY <1>1, <1>4 DEF FinishOp, FinishOperation
  <2> QED BY <1>1, <1>3, <1>4, <2>1 DEF FinishOp, FinishOperation
<1>5. CASE ClearPending(m)
  <2>1. pending' \in [Scopes -> Manual \cup {None}]
    BY <1>1, <1>5 DEF ClearPending
  <2>2. \E stage \in {"over", "cleared"} : task' = [task EXCEPT ![m].at = stage]
    BY <1>5 DEF ClearPending
  <2> QED BY <1>1, <1>3, <1>5, <2>1, <2>2 DEF ClearPending
<1>6. CASE FailRefused(m)
  <2>1. op' \in [Manual -> {None, "running", "completed", "failed"}]
    BY <1>1, <1>6 DEF FailRefused
  <2> QED BY <1>1, <1>3, <1>6, <2>1 DEF FailRefused
<1>7. CASE LeaveRefused(m)
  BY <1>1, <1>3, <1>7 DEF LeaveRefused, manualVars
<1> QED BY <1>2, <1>4, <1>5, <1>6, <1>7 DEF ManualStep

\* Reading nudges the scheduler at most; an edited file is not yet the settings.
LEMMA NudgeKeeps == IInv /\ (Nudge \/ Edit) => IInv'
<1> SUFFICES ASSUME IInv, Nudge \/ Edit PROVE IInv'
  OBVIOUS
<1>1. /\ UNCHANGED <<enabled, view, applied, gen, made, guard, turn, snapshot, change, task, manualVars>>
      /\ wake' \in BOOLEAN /\ (wake => wake') /\ file' \in EnabledSets
  BY DEF Nudge, Edit, settingsVars, IInv, TypeOK
<1> USE DEF IInv
<1>2. TypeOK'
  BY <1>1 DEF TypeOK, manualVars
<1>3. GuardInv' /\ ViewInv' /\ AppliedInv' /\ GenInv'
  BY <1>1 DEF GuardInv, ViewInv, AppliedInv, GenInv
<1>4. ReportInv' /\ SeenInv'
  BY <1>1 DEF ReportInv, SeenInv, Selected, Chosen, Scoped, Counted
<1>5. EnabledInv' /\ MadeInv' /\ AwareInv'
  BY <1>1 DEF EnabledInv, Storing, MadeInv, AwareInv, WakesNobody
<1> QED BY <1>2, <1>3, <1>4, <1>5

----------------------------------------------------------------------------
(* The theorems.                                                            *)

\* Changes, refreshes, what is served and who wakes whom fit together in every
\* reachable state: refresh, invalidate, wait_for_next_refresh.
THEOREM Inductive == Spec => []IInv
<1>1. IInv /\ UNCHANGED vars => IInv'
  <2> SUFFICES ASSUME IInv, UNCHANGED vars PROVE IInv'
    OBVIOUS
  <2> USE DEF IInv, vars
  <2>1. TypeOK'
    BY DEF TypeOK
  <2>2. GuardInv' /\ ViewInv' /\ AppliedInv' /\ GenInv'
    BY DEF GuardInv, ViewInv, AppliedInv, GenInv
  <2>3. ReportInv' /\ SeenInv'
    BY DEF ReportInv, SeenInv, Selected, Chosen, Scoped, Counted
  <2>4. EnabledInv' /\ MadeInv' /\ AwareInv'
    BY DEF EnabledInv, Storing, MadeInv, AwareInv, WakesNobody
  <2> QED BY <2>1, <2>2, <2>3, <2>4
<1>2. IInv /\ [Next]_vars => IInv'
  BY <1>1, ChangeKeeps, RefreshKeeps, WaitKeeps, ManualKeeps, NudgeKeeps DEF Next, ChangeAct
<1> QED BY <1>2, InitInv, PTL DEF Spec

\* Every variable keeps its type.
THEOREM TypeCorrect == Spec => []TypeOK
<1>1. IInv => TypeOK
  BY DEF IInv
<1> QED BY <1>1, Inductive, PTL

\* What is served has seen every change that was reported, in the part of every
\* enabled provider, and is about those providers only.
THEOREM WhatIsServedIsCurrent == Spec => []ServedIsCurrent
<1>1. IInv => ServedIsCurrent
  <2> SUFFICES ASSUME IInv, snapshot # None, snapshot.gen = gen, guard = None
               PROVE  /\ DOMAIN snapshot.report = enabled
                      /\ \A p \in enabled : Reported \subseteq snapshot.report[p]
    BY DEF ServedIsCurrent, Ready
  <2>1. ~Storing
    BY DEF Storing, IInv, GuardInv
  <2>2. DOMAIN snapshot.report = enabled
    BY <2>1 DEF IInv, EnabledInv
  <2>3. Reported \subseteq Counted
    BY DEF Reported, Counted, Bumped
  <2> QED BY <2>2, <2>3 DEF IInv, SeenInv
<1> QED BY <1>1, Inductive, PTL

\* A scheduler that waits has looked since every change was made, has a wake-up
\* pending or the change about to make one; only a login ended by its own task and
\* an edit whose reader left wake nobody, and they never hide another change.
THEOREM WaitsAware == Spec => []MissesOnlyTheLost
<1>1. IInv => MissesOnlyTheLost
  <2> SUFFICES ASSUME IInv, NEW c \in Changes, Missed(c)
               PROVE  WakesNobody(c) \/ change[c] \in {"bumped", "taken", "notify"}
    BY DEF MissesOnlyTheLost
  <2>1. task[Scheduler].gen \in Nat /\ made[c] \in Nat
    BY DEF IInv, TypeOK, Task, Refreshers
  <2> QED BY <2>1 DEF IInv, AwareInv, Missed
<1> QED BY <1>1, Inductive, PTL

==============================================================================
