----------------------------- MODULE OAuthSessions -----------------------------
(****************************************************************************)
(* The OAuth sessions of the management API.                                 *)
(*                                                                          *)
(* A request begins a login: it makes a session, which a task of its own      *)
(* may wait for (a loopback listener on port 1455, a device poller), which    *)
(* the callback route may bring a code, and which a user may cancel and a     *)
(* lifetime ends.  Whoever brings the code claims the session, exchanges the  *)
(* code once, saves the account and closes the session.  A begin with a key   *)
(* goes on without its client, and a retry finds the session it made.         *)
(*                                                                          *)
(* Sessions are in memory, and every step under their lock first prunes them: *)
(* sessions whose lifetime is over expire, and go when they are old.  What a  *)
(* login writes is AccountDocument; how it invalidates the usage snapshot is  *)
(* UsageServer.                                                              *)
(* Bounds: session ids are drawn from Ids, once each, and a login begins while *)
(* there is one left for it; MaxSessions is 128.                              *)
(****************************************************************************)
EXTENDS Naturals, FiniteSets

CONSTANTS Ids, Keys,
          Makers,       \* begins under way at a time
          Callers,      \* callback jobs at a time
          Flows,        \* the kinds of login in use, among AllFlows
          None, MaxSessions

\* Codex by relay and by loopback, Claude by a code the user copies, Copilot.
AllFlows == {"relay", "loopback", "manual", "device"}

\* Whoever may claim a session: the task of a loopback or device login, which goes
\* by its id, and the callback jobs.
Actors == Ids \cup Callers

Statuses == {"waiting", "processing", "completed", "failed", "cancelled", "expired"}
Ended    == Statuses \ {"waiting", "processing"}

\* late: its lifetime is over; old: and twelve minutes more.  code: it holds the
\* authorization an exchange takes.
Session == [status : Statuses, flow : Flows, key : {None} \cup Keys,
            late : BOOLEAN, old : BOOLEAN, code : BOOLEAN]
Begin   == [flow : Flows, session : {None} \cup Ids]
Make    == [at : {"idle", "begun", "bound", "asked", "made", "failed"},
            key : {None} \cup Keys, flow : {None} \cup Flows, made : {None} \cup Ids]
Work    == [at : {"idle", "starting", "waiting", "code", "claimed", "granted",
                  "refused", "saved"}, on : {None} \cup Ids]

ASSUME FlowsAreKnown == Flows \subseteq AllFlows
ASSUME ActorsDiffer ==
  /\ Ids \cap Callers = {} /\ Makers \cap Actors = {}
  /\ None \notin Ids \cup Keys \cup Makers \cup Callers \cup Flows \cup Session \cup Begin
ASSUME SessionsAreCounted == MaxSessions \in Nat

VARIABLES
  session,    \* per id, the session
  claim,      \* per key, the begin it was used for
  make,       \* per maker, its begin
  work,       \* per actor, what it does and for which session
  notified,   \* sessions whose `cancel` holds a permit
  port,       \* who has bound port 1455
  drawn,      \* ids drawn so far
  exchanged,  \* per id, exchanges of its code
  accounts    \* sessions that have saved an account

vars == <<session, claim, make, work, notified, port, drawn, exchanged, accounts>>

\* Faulty variants, named for what they get wrong, stand before the definition
\* they vary; the mutation runs put them in its place.

Init ==
  /\ session = [i \in Ids |-> None]
  /\ claim = [k \in Keys |-> None]
  /\ make = [m \in Makers |-> [at |-> "idle", key |-> None, flow |-> None, made |-> None]]
  /\ work = [a \in Actors |-> [at |-> "idle", on |-> None]]
  /\ notified = {}
  /\ port = None
  /\ drawn = {}
  /\ exchanged = [i \in Ids |-> 0]
  /\ accounts = {}

Live(s)  == {i \in Ids : s[i] # None}
Claimed(c) == {k \in Keys : c[k] # None}
Waiting(s, i) == s[i] # None /\ s[i].status = "waiting"

----------------------------------------------------------------------------
(* The lock of the sessions, and what is pruned under it.                   *)

Late == {i \in Live(session) : Waiting(session, i) /\ session[i].late}
End(s, i, status) == [s EXCEPT ![i].status = status, ![i].code = FALSE]

Expired(i) ==
  IF i \in Late THEN [session[i] EXCEPT !.status = "expired", !.code = FALSE]
  ELSE session[i]

Pruned == [i \in Ids |->
  IF session[i] = None \/ (session[i].old /\ session[i].status # "processing") THEN None
  ELSE Expired(i)]

\* A claim lasts as long as the session it led to.
DropsPending(s) == [k \in Keys |->
  IF claim[k] # None /\ (claim[k].session = None \/ s[claim[k].session] = None)
  THEN None ELSE claim[k]]
KeepsPending(s) == [k \in Keys |->
  IF claim[k] # None /\ claim[k].session # None /\ s[claim[k].session] = None
  THEN None ELSE claim[k]]
Retained(s) == KeepsPending(s)

\* prune, then what its caller makes of the sessions, notifying the tasks of some.
\* It would evict sessions above MaxSessions, of which there are none (SlotsFit).
PruneThen(s, some) ==
  /\ session' = s
  /\ claim' = Retained(Pruned)
  /\ notified' = notified \cup Late \cup some

----------------------------------------------------------------------------
(* Beginning a login.                                                       *)

MakerTo(m, stage) == make' = [make EXCEPT ![m].at = stage]
Idle == [at |-> "idle", key |-> None, flow |-> None, made |-> None]

IdsLeft == Cardinality(drawn \cup {m \in Makers : make[m].at \in {"begun", "bound", "asked"}})
             < Cardinality(Ids)

\* begin_keyed enters a claim and leaves the rest to a task; without a key it is
\* the request that goes on.
BeginKeyed(m, k, f) ==
  /\ make[m].at = "idle" /\ IdsLeft
  /\ Retained(Pruned)[k] = None
  /\ Cardinality(Claimed(Retained(Pruned))) < MaxSessions
  /\ Cardinality(Live(Pruned)) < MaxSessions
  /\ session' = Pruned /\ notified' = notified \cup Late
  /\ claim' = [Retained(Pruned) EXCEPT ![k] = [flow |-> f, session |-> None]]
  /\ make' = [make EXCEPT ![m] = [at |-> "begun", key |-> k, flow |-> f, made |-> None]]
  /\ UNCHANGED <<work, port, drawn, exchanged, accounts>>

BeginUnkeyed(m, f) ==
  /\ make[m].at = "idle" /\ IdsLeft
  /\ make' = [make EXCEPT ![m] = [at |-> "begun", key |-> None, flow |-> f, made |-> None]]
  /\ UNCHANGED <<session, claim, work, notified, port, drawn, exchanged, accounts>>

\* A begin that fails drops what it holds; a keyed one gives its claim back.
Give(m) ==
  /\ port' = IF port = m THEN None ELSE port
  /\ make' = [make EXCEPT ![m] = IF make[m].key = None THEN Idle
                                 ELSE [make[m] EXCEPT !.at = "failed"]]

Bind(m) ==
  /\ make[m].at = "begun" /\ make[m].flow = "loopback"
  /\ port = None
  /\ port' = m
  /\ MakerTo(m, "bound")
  /\ UNCHANGED <<session, claim, work, notified, drawn, exchanged, accounts>>

\* The port is bound by another login, perhaps one of the command line; the provider
\* has no such flow; GitHub refuses, or its answer comes too late; no random bytes.
\* A begin without a key ends here when its client leaves, too.
Fails(m) ==
  /\ make[m].at \in {"begun", "bound", "asked"}
  /\ Give(m)
  /\ UNCHANGED <<session, claim, work, notified, drawn, exchanged, accounts>>

\* begin_device looks for room before and after it asks for a device code.
AskDevice(m) ==
  /\ make[m].at = "begun" /\ make[m].flow = "device"
  /\ PruneThen(Pruned, {})
  /\ IF Cardinality(Live(Pruned)) < MaxSessions THEN MakerTo(m, "asked") /\ UNCHANGED port
     ELSE Give(m)
  /\ UNCHANGED <<work, drawn, exchanged, accounts>>

Asked(m) ==
  CASE make[m].flow = "loopback" -> make[m].at = "bound"
    [] make[m].flow = "device"   -> make[m].at = "asked"
    [] OTHER                     -> make[m].at = "begun"

HasRoomAnyway == TRUE
HasRoomNow == Cardinality(Live(Pruned)) < MaxSessions
HasRoom == HasRoomNow

Insert(m, i) ==
  /\ Asked(m) /\ i \notin drawn
  /\ HasRoom
  /\ PruneThen([Pruned EXCEPT ![i] =
       [status |-> "waiting", flow |-> make[m].flow, key |-> make[m].key,
        late |-> FALSE, old |-> FALSE, code |-> make[m].flow # "device"]], {})
  /\ drawn' = drawn \cup {i}
  /\ work' = [work EXCEPT ![i] =
       CASE make[m].flow = "loopback" -> [at |-> "starting", on |-> i]
         [] make[m].flow = "device"   -> [at |-> "waiting", on |-> i]
         [] OTHER                     -> @]
  /\ port' = IF make[m].flow = "loopback" THEN i ELSE port
  /\ make' = [make EXCEPT ![m] = IF make[m].key = None THEN Idle
                                 ELSE [make[m] EXCEPT !.at = "made", !.made = i]]
  /\ UNCHANGED <<exchanged, accounts>>

InsertRefused(m) ==
  /\ Asked(m) /\ ~HasRoom
  /\ PruneThen(Pruned, {})
  /\ Give(m)
  /\ UNCHANGED <<work, drawn, exchanged, accounts>>

\* The task of a keyed begin enters what came of it.
SettleOnlySuccess(m) ==
  IF make[m].made # None THEN [claim[make[m].key] EXCEPT !.session = make[m].made]
  ELSE claim[make[m].key]
SettleEither(m) ==
  IF make[m].made # None THEN [claim[make[m].key] EXCEPT !.session = make[m].made] ELSE None
SettleByKey(m) ==
  IF make[m].made # None THEN [claim[make[m].key] EXCEPT !.session = make[m].key] ELSE None
Settled(m) == SettleEither(m)

Settle(m) ==
  /\ make[m].at \in {"made", "failed"}
  /\ claim' = [claim EXCEPT ![make[m].key] = Settled(m)]
  /\ make' = [make EXCEPT ![m] = Idle]
  /\ UNCHANGED <<session, work, notified, port, drawn, exchanged, accounts>>

----------------------------------------------------------------------------
(* Looking at a session, and cancelling it.                                 *)

\* get, and begin_keyed for a key that was used.
Look ==
  /\ PruneThen(Pruned, {})
  /\ UNCHANGED <<make, work, port, drawn, exchanged, accounts>>

\* get, when a lifetime ends just after prune looked: nobody is notified.
LookLate(i) ==
  /\ Waiting(session, i) /\ ~session[i].late
  /\ PruneThen([Pruned EXCEPT ![i].status = "expired", ![i].late = TRUE], {})
  /\ UNCHANGED <<make, work, port, drawn, exchanged, accounts>>

CancelAnytime(i) ==
  /\ Pruned[i] # None
  /\ PruneThen(End(Pruned, i, "cancelled"), {i})
Cancelling(i) ==
  /\ Waiting(Pruned, i)
  /\ PruneThen(End(Pruned, i, "cancelled"), {i})

\* "processing means exchange or persistence has been claimed; cancellation then
\* returns account_busy", and nothing is done (local-http-api.md:124).
Cancel(i) ==
  /\ Cancelling(i)
  /\ UNCHANGED <<make, work, port, drawn, exchanged, accounts>>

----------------------------------------------------------------------------
(* The tasks of loopback and device logins.                                 *)

Stop(a) == work' = [work EXCEPT ![a] = [at |-> "idle", on |-> None]]
Unbind(i) == port' = IF port = i THEN None ELSE port

\* wait_loopback ends for a session that is over already.
ListenStarts(i) ==
  /\ work[i].at = "starting"
  /\ IF Waiting(session, i)
     THEN work' = [work EXCEPT ![i].at = "waiting"] /\ UNCHANGED port
     ELSE Stop(i) /\ Unbind(i)
  /\ UNCHANGED <<session, claim, make, notified, drawn, exchanged, accounts>>

\* end_device, and the end of wait_loopback: only a session that waits is ended.
EndWaiting(i, status) ==
  session' = IF Waiting(session, i) THEN End(session, i, status) ELSE session

Notified(i) ==
  /\ work[i].at = "waiting" /\ i \in notified
  /\ notified' = notified \ {i}
  /\ EndWaiting(i, "expired")
  /\ Stop(i) /\ Unbind(i)
  /\ UNCHANGED <<claim, make, drawn, exchanged, accounts>>

\* Each has a deadline of its own.
TimesOut(i) ==
  /\ work[i].at = "waiting" /\ (session[i] # None => session[i].late)
  /\ EndWaiting(i, "expired")
  /\ Stop(i) /\ Unbind(i)
  /\ UNCHANGED <<claim, make, notified, drawn, exchanged, accounts>>
NeverTimesOut(i) == FALSE
Deadline(i) == TimesOut(i)

\* GitHub's answers to a poll; a callback that is none.
Ends(i, status) ==
  /\ work[i].at = "waiting"
  /\ status # "expired" /\ session[i] # None => session[i].flow = "device"
  /\ EndWaiting(i, status)
  /\ Stop(i) /\ Unbind(i)
  /\ UNCHANGED <<claim, make, notified, drawn, exchanged, accounts>>

\* The browser's callback, which frees the port; GitHub's token.
Gets(i) ==
  /\ work[i].at = "waiting"
  /\ work' = [work EXCEPT ![i].at = "code"]
  /\ Unbind(i)
  /\ UNCHANGED <<session, claim, make, notified, drawn, exchanged, accounts>>

\* POST callback, whose job goes on without its client.  Relay and loopback logins
\* are both of the workflow browser_callback.
Deliver(c, i) ==
  /\ work[c].at = "idle"
  /\ Pruned[i] # None /\ Pruned[i].flow # "device"
  /\ PruneThen(Pruned, {})
  /\ work' = [work EXCEPT ![c] = [at |-> "code", on |-> i]]
  /\ UNCHANGED <<make, port, drawn, exchanged, accounts>>

----------------------------------------------------------------------------
(* Claiming a session, and finishing it.                                    *)

ClaimableAnyway(i) == Pruned[i] # None
ClaimableWaiting(i) == Waiting(Pruned, i)
Claimable(i) == ClaimableWaiting(i)

TakenForNow(i) == Pruned
TakenForGood(i) == End(Pruned, i, "processing")
Taken(i) == TakenForGood(i)

\* claim, and what poll_device does instead: it needs no authorization, and does not
\* notify itself.
Claim(a) ==
  LET i == work[a].on IN
  /\ work[a].at = "code"
  /\ IF Claimable(i)
     THEN LET device == Pruned[i].flow = "device" IN
          /\ PruneThen(Taken(i), IF device THEN {} ELSE {i})
          /\ IF device \/ Pruned[i].code THEN work' = [work EXCEPT ![a].at = "claimed"]
             ELSE Stop(a)
     ELSE PruneThen(Pruned, {}) /\ Stop(a)
  /\ UNCHANGED <<make, port, drawn, exchanged, accounts>>

\* The code of a callback is looked at, and exchanged with a deadline; a device has
\* its token.  Then finish, whose get prunes.
Exchange(a, stage, spent) ==
  LET i == work[a].on
      device == session[i] # None /\ session[i].flow = "device" IN
  /\ work[a].at = "claimed"
  /\ stage = "granted" => device \/ spent
  /\ device => stage = "granted" /\ ~spent
  /\ PruneThen(Pruned, {})
  /\ work' = [work EXCEPT ![a].at = stage]
  /\ exchanged' = IF spent THEN [exchanged EXCEPT ![i] = @ + 1] ELSE exchanged
  /\ UNCHANGED <<make, port, drawn, accounts>>

\* Validation, the mutation guard and the vault write may each fail; a write that
\* is uncertain is a failure that may have saved the account.
Save(a) ==
  LET i == work[a].on IN
  /\ work[a].at = "granted"
  /\ \E stage \in {"saved", "refused"} :
       /\ work' = [work EXCEPT ![a].at = stage]
       /\ accounts' \in {accounts \cup {i}} \cup (IF stage = "refused" THEN {accounts} ELSE {})
  /\ UNCHANGED <<session, claim, make, notified, port, drawn, exchanged>>

Close(a) ==
  LET i == work[a].on IN
  /\ work[a].at \in {"saved", "refused"}
  /\ session' = IF session[i] = None THEN session
                ELSE End(session, i, IF work[a].at = "saved" THEN "completed" ELSE "failed")
  /\ Stop(a)
  /\ UNCHANGED <<claim, make, notified, port, drawn, exchanged, accounts>>

----------------------------------------------------------------------------
\* Lifetimes pass: three minutes of Codex and Claude, as long as GitHub says for
\* Copilot; then twelve minutes more.
Age(i) ==
  /\ session[i] # None /\ ~session[i].old
  /\ session' = [session EXCEPT ![i].late = TRUE, ![i].old = session[i].late]
  /\ UNCHANGED <<claim, make, work, notified, port, drawn, exchanged, accounts>>

MakerStep(m) ==
  \/ Bind(m) \/ AskDevice(m) \/ Fails(m)
  \/ (\E i \in Ids : Insert(m, i)) \/ InsertRefused(m) \/ Settle(m)
TaskStep(i) == ListenStarts(i) \/ Notified(i) \/ Deadline(i)
ClaimStep(a) ==
  \/ Claim(a) \/ Save(a) \/ Close(a)
  \/ \E stage \in {"granted", "refused"}, spent \in BOOLEAN : Exchange(a, stage, spent)

Next ==
  \/ \E m \in Makers :
       \/ \E k \in Keys, f \in Flows : BeginKeyed(m, k, f)
       \/ \E f \in Flows : BeginUnkeyed(m, f)
       \/ MakerStep(m)
  \/ Look
  \/ \E i \in Ids :
       \/ LookLate(i) \/ Cancel(i) \/ TaskStep(i) \/ Gets(i) \/ Age(i)
       \/ \E status \in {"expired", "cancelled", "failed"} : Ends(i, status)
       \/ \E c \in Callers : Deliver(c, i)
  \/ \E a \in Actors : ClaimStep(a)

Spec == Init /\ [][Next]_vars

\* Tasks that can go on do, requests and exchanges end at their deadlines, and
\* lifetimes pass.  Nobody has to come back to look, to bring a code or to cancel.
FairSpec ==
  /\ Spec
  /\ \A m \in Makers : WF_vars(MakerStep(m))
  /\ \A i \in Ids : WF_vars(TaskStep(i)) /\ WF_vars(Age(i))
  /\ \A a \in Actors : WF_vars(ClaimStep(a))

----------------------------------------------------------------------------
(* Properties.                                                              *)

\* Every variable keeps its type.
TypeOK ==
  /\ session \in [Ids -> {None} \cup Session]
  /\ claim \in [Keys -> {None} \cup Begin]
  /\ make \in [Makers -> Make]
  /\ work \in [Actors -> Work]
  /\ notified \subseteq Ids /\ drawn \subseteq Ids /\ accounts \subseteq Ids
  /\ port \in {None} \cup Makers \cup Ids
  /\ exchanged \in [Ids -> Nat]

\* "Cancellation or expiry stops polling and discards late tokens before
\* persistence" (local-http-api.md:133), and an ended session stays what it is:
\* whoever was told it is cancelled or expired never finds an account of it.
EndedStays ==
  [][\A i \in Ids :
       /\ session[i] # None /\ session[i].status \in Ended /\ session'[i] # None
            => session'[i].status = session[i].status
       /\ i \in accounts' \ accounts => session[i] # None /\ session[i].status = "processing"]_vars

\* "reuse of an authorization code" never happens: however many callbacks bring it,
\* by relay and by loopback at once, a session's code is exchanged once.
CodeSpentOnce == \A i \in Ids : exchanged[i] <= 1

\* "A retry can recover the session instead of issuing a second provider device-code
\* request" (oauth.rs:378): a key has one login, or one on its way, at a time.
OneLoginPerKey ==
  \A k \in Keys :
    Cardinality({i \in Live(session) : session[i].key = k}
      \cup {m \in Makers : make[m].key = k /\ make[m].at \in {"begun", "bound", "asked"}}) <= 1

\* A claim waits for a session only while its task is on it: no key answers Busy for
\* ever, and no task misses the claim it expects.
ClaimsAttended ==
  \A k \in Keys :
    claim[k] # None /\ claim[k].session = None <=> \E m \in Makers : make[m].key = k

\* A session is processing only while somebody is finishing it: prune would keep it
\* for ever, and its place with it.
NoneStranded ==
  \A i \in Live(session) : session[i].status = "processing" =>
    \E a \in Actors : work[a].on = i /\ work[a].at \in {"claimed", "granted", "refused", "saved"}

\* There is room for MaxSessions, so that prune never has to evict one.
SlotsFit == Cardinality(Live(session)) <= MaxSessions

\* Whatever users and clients do, a login that was begun ends, a device or loopback
\* login whether or not anybody looks, and the port comes free.
LoginsEnd ==
  /\ \A m \in Makers : make[m].at # "idle" ~> make[m].at = "idle"
  /\ \A i \in Ids :
       /\ (session[i] # None /\ session[i].status = "processing")
            ~> (session[i] = None \/ session[i].status \in Ended)
       /\ (Waiting(session, i) /\ session[i].flow \in {"loopback", "device"})
            ~> ~Waiting(session, i)
       /\ port = i ~> port # i
==============================================================================
