-------------------------- MODULE OAuthSessionsProofs --------------------------
(****************************************************************************)
(* The safety of OAuthSessions for every set of ids, keys, makers and callers *)
(* and every limit.  The invariant has two halves: who holds a session that is *)
(* processing, and so may spend its code; and which claim a key's only login  *)
(* goes by.                                                                  *)
(****************************************************************************)
EXTENDS OAuthSessions, FiniteSetTheorems, TLAPS

USE FlowsAreKnown, ActorsDiffer, SessionsAreCounted

----------------------------------------------------------------------------
(* The inductive invariant.                                                 *)

Holding == {"claimed", "granted", "refused", "saved"}
Begun == {"begun", "bound", "asked"}
Processing(s, i) == s[i] # None /\ s[i].status = "processing"

\* An actor that is not idle is there for a session, the task of a login for its own.
WorkInv ==
  \A a \in Actors : work[a].at # "idle" => /\ work[a].on \in Ids
                                           /\ a \in Ids => work[a].on = a

\* Whoever holds a session holds it alone, and it is processing.
HeldInv ==
  \A a \in Actors : work[a].at \in Holding =>
    /\ Processing(session, work[a].on)
    /\ \A b \in Actors : work[b].at \in Holding /\ work[b].on = work[a].on => b = a

\* A session that waits has what its exchange needs.
CodeInv == \A i \in Ids : Waiting(session, i) => session[i].code \/ session[i].flow = "device"

\* A code is not spent before its session is taken, and once after.
SpentInv ==
  \A i \in Ids :
    /\ exchanged[i] \in {0, 1}
    /\ Waiting(session, i) => exchanged[i] = 0
    /\ \A a \in Actors : work[a].at = "claimed" /\ work[a].on = i => exchanged[i] = 0
    /\ i \notin drawn => session[i] = None /\ exchanged[i] = 0

\* What the places are counted of can be counted.
RoomInv == IsFiniteSet(Live(session)) /\ SlotsFit

\* Nothing is old before its lifetime is over.
AgeInv == \A i \in Live(session) : session[i].old => session[i].late

SessionInv ==
  WorkInv /\ HeldInv /\ NoneStranded /\ CodeInv /\ AgeInv /\ SpentInv /\ RoomInv

\* One begin per key is under way, and has what its stage needs.
MakersInv ==
  \A m \in Makers :
    /\ make[m].at = "idle" => make[m].key = None
    /\ make[m].at \in Begun => make[m].flow \in Flows
    /\ make[m].at = "made" => make[m].made \in Ids
    /\ make[m].at \in {"made", "failed"} => make[m].key # None
    /\ \A n \in Makers : make[m].key # None /\ make[n].key = make[m].key => n = m

\* The claim of a session's key is for that session, or for the begin that made it.
KeyInv ==
  \A i \in Ids, k \in Keys : session[i] # None /\ session[i].key = k =>
    /\ claim[k] # None
    /\ \/ claim[k].session = i
       \/ /\ claim[k].session = None
          /\ \E m \in Makers : make[m].key = k /\ make[m].at = "made" /\ make[m].made = i

ClaimInv == MakersInv /\ ClaimsAttended /\ KeyInv

IInv == TypeOK /\ SessionInv /\ ClaimInv

----------------------------------------------------------------------------
(* What becomes of a session at a step that is not about it.                *)

\* x is what y lasts as: it may end where it waited, and go when it is not
\* processing.
Lasts(x, y) ==
  /\ x # None =>
       /\ y # None /\ x.key = y.key /\ x.flow = y.flow
       /\ x.status = y.status \/ (y.status = "waiting" /\ x.status \in Ended)
       /\ x.status = "waiting" => x.code = y.code
       /\ (y.old => y.late) => (x.old => x.late)
  /\ y # None /\ y.status = "processing" => x # None

SessionsLast == \A i \in Ids : Lasts(session'[i], session[i])

LEMMA NoSession == None \notin Session
OBVIOUS

LEMMA UpdatedSession ==
  ASSUME NEW s \in Session, NEW st \in Statuses, NEW c \in BOOLEAN, NEW l \in BOOLEAN,
         NEW o \in BOOLEAN
  PROVE  /\ [s EXCEPT !.status = st] \in Session
         /\ [s EXCEPT !.status = st, !.code = c] \in Session
         /\ [s EXCEPT !.status = st, !.late = l] \in Session
         /\ [s EXCEPT !.late = l, !.old = o] \in Session
BY DEF Session

LEMMA PrunedFacts ==
  ASSUME TypeOK
  PROVE  /\ Pruned \in [Ids -> {None} \cup Session]
         /\ \A i \in Ids : Lasts(Pruned[i], session[i])
         /\ \A i \in Ids : Waiting(Pruned, i) => Pruned[i] = session[i]
<1> SUFFICES ASSUME NEW i \in Ids
             PROVE  /\ Pruned[i] \in {None} \cup Session
                    /\ Lasts(Pruned[i], session[i])
                    /\ Waiting(Pruned, i) => Pruned[i] = session[i]
  BY DEF Pruned
<1> DEFINE e == [session[i] EXCEPT !.status = "expired", !.code = FALSE]
<1>1. session[i] \in {None} \cup Session
  BY DEF TypeOK
<1>2. CASE session[i] = None \/ (session[i].old /\ session[i].status # "processing")
  BY <1>2 DEF Pruned, Lasts, Waiting
<1>3. CASE ~(session[i] = None \/ (session[i].old /\ session[i].status # "processing"))
  <2>1. session[i] \in Session /\ Pruned[i] = Expired(i)
    BY <1>1, <1>3 DEF Pruned
  <2>2. CASE i \in Late
    <3>1. Pruned[i] = e
      BY <2>1, <2>2 DEF Expired
    <3>2. /\ e \in Session
          /\ e.status = "expired" /\ e.key = session[i].key /\ e.flow = session[i].flow
          /\ e.late = session[i].late /\ e.old = session[i].old
      BY <2>1 DEF Session, Statuses
    <3>3. session[i].status = "waiting"
      BY <2>2 DEF Late, Waiting
    <3> HIDE DEF e
    <3> QED BY <2>1, <3>1, <3>2, <3>3 DEF Lasts, Waiting, Ended, Statuses
  <2>3. CASE i \notin Late
    BY <2>1, <2>3 DEF Expired, Lasts
  <2> QED BY <2>2, <2>3
<1> QED BY <1>2, <1>3

\* Ending or taking a session that is there.
LEMMA EndFacts ==
  ASSUME NEW s \in [Ids -> {None} \cup Session], NEW i \in Ids, NEW st \in Statuses, s[i] # None
  PROVE  /\ End(s, i, st) \in [Ids -> {None} \cup Session]
         /\ \A j \in Ids \ {i} : End(s, i, st)[j] = s[j]
         /\ End(s, i, st)[i] # None
         /\ End(s, i, st)[i].status = st
         /\ End(s, i, st)[i].key = s[i].key /\ End(s, i, st)[i].flow = s[i].flow
<1>1. s[i] \in Session
  OBVIOUS
<1> DEFINE e == [s[i] EXCEPT !.status = st, !.code = FALSE]
<1>2. e \in Session
  BY <1>1, UpdatedSession
<1>3. e.status = st /\ e.key = s[i].key /\ e.flow = s[i].flow
  BY <1>1 DEF Session
<1>4. End(s, i, st) = [s EXCEPT ![i] = e]
  BY <1>1 DEF End, Session
<1> HIDE DEF e
<1> QED BY <1>2, <1>3, <1>4

LEMMA FewerLive ==
  ASSUME RoomInv, Live(session') \subseteq Live(session)
  PROVE  RoomInv'
<1>1. /\ IsFiniteSet(Live(session'))
      /\ Cardinality(Live(session')) <= Cardinality(Live(session))
  BY FS_Subset DEF RoomInv
<1>2. Cardinality(Live(session)) \in Nat /\ Cardinality(Live(session')) \in Nat
  BY <1>1, FS_CardinalityType DEF RoomInv
<1> QED BY <1>1, <1>2 DEF RoomInv, SlotsFit

----------------------------------------------------------------------------
(* Sessions and who holds them.                                             *)

\* A step that holds nobody's session and lets none go.
LEMMA CalmStep ==
  ASSUME TypeOK, SessionInv, SessionsLast, WorkInv', UNCHANGED <<exchanged, drawn>>,
         \A a \in Actors : \/ work'[a] = work[a]
                           \/ work'[a].at \notin Holding /\ work[a].at \notin Holding
  PROVE  SessionInv'
<1>1. HeldInv'
  <2> SUFFICES ASSUME NEW a \in Actors, work'[a].at \in Holding
               PROVE  /\ Processing(session', work'[a].on)
                      /\ \A b \in Actors :
                           work'[b].at \in Holding /\ work'[b].on = work'[a].on => b = a
    BY DEF HeldInv
  <2>1. work'[a] = work[a] /\ Processing(session, work[a].on) /\ work[a].on \in Ids
    BY DEF SessionInv, HeldInv, WorkInv, Holding
  <2>2. Processing(session', work'[a].on)
    BY <2>1 DEF Processing, SessionsLast, Lasts
  <2> QED BY <2>1, <2>2 DEF SessionInv, HeldInv
<1>2. NoneStranded'
  <2> SUFFICES ASSUME NEW i \in Ids, session'[i] # None, session'[i].status = "processing"
               PROVE  \E a \in Actors : work'[a].on = i /\ work'[a].at \in Holding
    BY DEF NoneStranded, Live, Holding
  <2>1. session[i] # None /\ session[i].status = "processing"
    BY DEF SessionsLast, Lasts, Ended
  <2>2. PICK a \in Actors : work[a].on = i /\ work[a].at \in Holding
    BY <2>1 DEF SessionInv, NoneStranded, Live, Holding
  <2> QED BY <2>2
<1>3. CodeInv'
  BY DEF CodeInv, SessionInv, SessionsLast, Lasts, Waiting, Ended
<1>6. AgeInv'
  BY DEF AgeInv, SessionInv, SessionsLast, Lasts, Live
<1>4. SpentInv'
  BY DEF SpentInv, SessionInv, SessionsLast, Lasts, Waiting, Ended, Holding
<1>5. RoomInv'
  <2>1. Live(session') \subseteq Live(session)
    BY DEF Live, SessionsLast, Lasts
  <2> QED BY <2>1, FewerLive DEF SessionInv
<1> QED BY <1>1, <1>2, <1>3, <1>4, <1>5, <1>6 DEF SessionInv

LEMMA PrunedLast ==
  ASSUME TypeOK, session' \in {session, Pruned}
  PROVE  SessionsLast
BY PrunedFacts DEF SessionsLast, Lasts

LEMMA EndedLast ==
  ASSUME TypeOK, NEW s \in {session, Pruned}, NEW i \in Ids, NEW st \in Ended,
         Waiting(s, i), session' = End(s, i, st)
  PROVE  SessionsLast
<1>1. s \in [Ids -> {None} \cup Session] /\ \A j \in Ids : Lasts(s[j], session[j])
  BY PrunedFacts DEF TypeOK, Lasts
<1>2. s[i] = session[i]
  BY PrunedFacts
<1>3. s[i] # None /\ s[i] \in Session /\ s[i].status = "waiting"
  BY <1>1 DEF Waiting
<1>4. st \in Statuses /\ st # "waiting"
  BY DEF Ended, Statuses
<1> DEFINE e == [s[i] EXCEPT !.status = st, !.code = FALSE]
<1>5. /\ e \in Session /\ e.status = st /\ e.key = s[i].key /\ e.flow = s[i].flow
      /\ e.old = s[i].old /\ e.late = s[i].late
  BY <1>3, <1>4 DEF Session
<1>6. session' = [s EXCEPT ![i] = e]
  BY <1>3 DEF End, Session
<1>7. Lasts(e, session[i])
  <2> HIDE DEF e
  <2> QED BY <1>2, <1>3, <1>4, <1>5, NoSession DEF Lasts
<1> HIDE DEF e
<1> QED BY <1>1, <1>6, <1>7 DEF SessionsLast

LEMMA LookLateLast ==
  ASSUME TypeOK, SessionInv, NEW i \in Ids, LookLate(i)
  PROVE  SessionsLast
<1>1. session[i] # None /\ session[i] \in Session /\ ~session[i].late
      /\ session[i].status = "waiting"
  BY DEF LookLate, Waiting, TypeOK
<1>2. ~session[i].old /\ i \notin Late
  BY <1>1 DEF SessionInv, AgeInv, Live, Late
<1>3. Pruned[i] = session[i]
  BY <1>1, <1>2 DEF Pruned, Expired
<1> DEFINE e == [session[i] EXCEPT !.status = "expired", !.late = TRUE]
<1>4. /\ e \in Session /\ e.status = "expired" /\ e.key = session[i].key
      /\ e.flow = session[i].flow /\ e.late
  BY <1>1 DEF Session, Statuses
<1>5. session' = [Pruned EXCEPT ![i] = e]
  BY <1>1, <1>3, PrunedFacts DEF LookLate, PruneThen, Session
<1>6. Lasts(e, session[i])
  <2> HIDE DEF e
  <2> QED BY <1>1, <1>4, NoSession DEF Lasts, Ended, Statuses
<1> HIDE DEF e
<1> QED BY <1>5, <1>6, PrunedFacts DEF SessionsLast

LEMMA AgeLast ==
  ASSUME TypeOK, NEW i \in Ids, Age(i)
  PROVE  SessionsLast
<1>1. session[i] # None /\ session[i] \in Session
  BY DEF Age, TypeOK
<1> DEFINE e == [session[i] EXCEPT !.late = TRUE, !.old = session[i].late]
<1>2. /\ e \in Session /\ e.status = session[i].status /\ e.key = session[i].key
      /\ e.flow = session[i].flow /\ e.code = session[i].code /\ e.late
  BY <1>1 DEF Session
<1>3. session' = [session EXCEPT ![i] = e]
  BY <1>1 DEF Age, Session, TypeOK
<1>4. Lasts(e, session[i])
  <2> HIDE DEF e
  <2> QED BY <1>1, <1>2, NoSession DEF Lasts
<1> HIDE DEF e
<1> QED BY <1>3, <1>4 DEF SessionsLast, Lasts, TypeOK

LEMMA EndWaitingLast ==
  ASSUME TypeOK, NEW i \in Ids, NEW st \in Ended, EndWaiting(i, st)
  PROVE  SessionsLast
<1>1. CASE Waiting(session, i)
  BY <1>1, EndedLast DEF EndWaiting
<1>2. CASE ~Waiting(session, i)
  BY <1>2, PrunedLast DEF EndWaiting
<1> QED BY <1>1, <1>2

\* Sessions last through every step but the making, taking and closing of one.
LEMMA MakerLast ==
  ASSUME TypeOK, NEW m \in Makers,
         \/ \E k \in Keys, f \in Flows : BeginKeyed(m, k, f)
         \/ \E f \in Flows : BeginUnkeyed(m, f)
         \/ Bind(m) \/ AskDevice(m) \/ Fails(m) \/ InsertRefused(m) \/ Settle(m)
  PROVE  SessionsLast
<1>1. session' \in {session, Pruned}
  BY DEF BeginKeyed, BeginUnkeyed, Bind, AskDevice, Fails, InsertRefused, Settle, PruneThen
<1> QED BY <1>1, PrunedLast

LEMMA LookLast ==
  ASSUME TypeOK, SessionInv, Look \/ \E i \in Ids : LookLate(i) \/ Cancel(i)
  PROVE  SessionsLast
<1>1. CASE Look
  BY <1>1, PrunedLast DEF Look, PruneThen
<1>2. ASSUME NEW i \in Ids, LookLate(i) PROVE SessionsLast
  BY <1>2, LookLateLast
<1>3. ASSUME NEW i \in Ids, Cancel(i) PROVE SessionsLast
  BY <1>3, EndedLast DEF Cancel, Cancelling, PruneThen, Ended, Statuses
<1> QED BY <1>1, <1>2, <1>3

LEMMA TaskLast ==
  ASSUME TypeOK, NEW i \in Ids,
         \/ TaskStep(i) \/ Gets(i) \/ Age(i)
         \/ \E status \in {"expired", "cancelled", "failed"} : Ends(i, status)
         \/ \E c \in Callers : Deliver(c, i)
  PROVE  SessionsLast
<1>1. CASE ListenStarts(i) \/ Gets(i) \/ \E c \in Callers : Deliver(c, i)
  BY <1>1, PrunedLast DEF ListenStarts, Gets, Deliver, PruneThen
<1>2. CASE Notified(i) \/ Deadline(i)
  BY <1>2, EndWaitingLast DEF Notified, Deadline, TimesOut, Ended, Statuses
<1>3. ASSUME NEW status \in {"expired", "cancelled", "failed"}, Ends(i, status)
      PROVE  SessionsLast
  BY <1>3, EndWaitingLast DEF Ends, Ended, Statuses
<1>4. CASE Age(i)
  BY <1>4, AgeLast
<1> QED BY <1>1, <1>2, <1>3, <1>4 DEF TaskStep

\* An actor that goes on to another stage, none of them with a session in its hands.
LEMMA WorkMoves ==
  ASSUME TypeOK, SessionInv, NEW a \in Actors, NEW w \in Work,
         work' = [work EXCEPT ![a] = w],
         w.at # "idle" => w.on \in Ids /\ (a \in Ids => w.on = a),
         work[a].at \notin Holding, w.at \notin Holding
  PROVE  /\ WorkInv'
         /\ \A b \in Actors : \/ work'[b] = work[b]
                              \/ work'[b].at \notin Holding /\ work[b].at \notin Holding
<1>1. work \in [Actors -> Work]
  BY DEF TypeOK
<1> QED BY <1>1 DEF SessionInv, WorkInv

\* The steps of begins, of requests that look or cancel, and of time.
LEMMA RequestCalm ==
  ASSUME TypeOK, SessionInv, SessionsLast, UNCHANGED <<work, exchanged, drawn>>
  PROVE  SessionInv'
<1>1. WorkInv'
  BY DEF SessionInv, WorkInv
<1> QED BY <1>1, CalmStep

LEMMA MakerCalm ==
  ASSUME TypeOK, SessionInv, NEW m \in Makers,
         \/ \E k \in Keys, f \in Flows : BeginKeyed(m, k, f)
         \/ \E f \in Flows : BeginUnkeyed(m, f)
         \/ Bind(m) \/ AskDevice(m) \/ Fails(m) \/ InsertRefused(m) \/ Settle(m)
  PROVE  SessionInv'
<1>1. UNCHANGED <<work, exchanged, drawn>>
  BY DEF BeginKeyed, BeginUnkeyed, Bind, AskDevice, Fails, InsertRefused, Settle
<1> QED BY <1>1, MakerLast, RequestCalm

LEMMA LookCalm ==
  ASSUME TypeOK, SessionInv,
         Look \/ \E i \in Ids : LookLate(i) \/ Cancel(i) \/ Age(i)
  PROVE  SessionInv'
<1>1. UNCHANGED <<work, exchanged, drawn>>
  BY DEF Look, LookLate, Cancel, Age
<1> QED BY <1>1, LookLast, AgeLast, RequestCalm

\* The steps of a task that ends, or goes on to another stage.
LEMMA ActorCalm ==
  ASSUME TypeOK, SessionInv, SessionsLast, UNCHANGED <<exchanged, drawn>>,
         NEW a \in Actors, NEW w \in Work,
         work' = [work EXCEPT ![a] = w],
         w.at # "idle" => w.on \in Ids /\ (a \in Ids => w.on = a),
         work[a].at \notin Holding, w.at \notin Holding
  PROVE  SessionInv'
BY WorkMoves, CalmStep

LEMMA StopCalm ==
  ASSUME TypeOK, SessionInv, SessionsLast, UNCHANGED <<exchanged, drawn>>,
         NEW a \in Actors, work[a].at \notin Holding, Stop(a)
  PROVE  SessionInv'
<1>1. [at |-> "idle", on |-> None] \in Work
  BY DEF Work
<1> QED BY <1>1, ActorCalm DEF Stop, Holding

LEMMA MoveCalm ==
  ASSUME TypeOK, SessionInv, SessionsLast, UNCHANGED <<exchanged, drawn>>,
         NEW a \in Actors, NEW stage \in {"waiting", "code"},
         work[a].at \notin Holding \cup {"idle"}, work' = [work EXCEPT ![a].at = stage]
  PROVE  SessionInv'
<1> DEFINE w == [work[a] EXCEPT !.at = stage]
<1>1. work[a] \in Work /\ work \in [Actors -> Work]
  BY DEF TypeOK
<1>2. w \in Work /\ w.at = stage /\ w.on = work[a].on
  BY <1>1 DEF Work
<1>3. work' = [work EXCEPT ![a] = w]
  BY <1>1 DEF Work
<1>4. work[a].on \in Ids /\ (a \in Ids => work[a].on = a)
  BY DEF SessionInv, WorkInv
<1> HIDE DEF w
<1> QED BY <1>2, <1>3, <1>4, ActorCalm, SMTT(30), ZenonT(40) DEF Holding

LEMMA TaskCalm ==
  ASSUME TypeOK, SessionInv, NEW i \in Ids,
         \/ TaskStep(i) \/ Gets(i)
         \/ \E status \in {"expired", "cancelled", "failed"} : Ends(i, status)
  PROVE  SessionInv'
<1> USE DEF Actors
<1>1. UNCHANGED <<exchanged, drawn>> /\ work[i].at \in {"starting", "waiting"}
  BY DEF TaskStep, ListenStarts, Notified, Deadline, TimesOut, Gets, Ends
<1>2. SessionsLast
  BY TaskLast
<1>3. \/ Stop(i)
      \/ \E stage \in {"waiting", "code"} : work' = [work EXCEPT ![i].at = stage]
  BY DEF TaskStep, ListenStarts, Notified, Deadline, TimesOut, Gets, Ends
<1> QED BY <1>1, <1>2, <1>3, StopCalm, MoveCalm DEF Holding

LEMMA DeliverCalm ==
  ASSUME TypeOK, SessionInv, NEW c \in Callers, NEW i \in Ids, Deliver(c, i)
  PROVE  SessionInv'
<1>1. [at |-> "code", on |-> i] \in Work
  BY DEF Work
<1>2. c \in Actors /\ c \notin Ids
  BY DEF Actors
<1> QED BY <1>1, <1>2, PrunedLast, ActorCalm DEF Deliver, PruneThen, Holding

LEMMA SaveSession ==
  ASSUME TypeOK, SessionInv, NEW a \in Actors, Save(a)
  PROVE  SessionInv'
<1>1. PICK stage \in {"saved", "refused"} : work' = [work EXCEPT ![a].at = stage]
  BY DEF Save
<1>2. /\ UNCHANGED <<session, exchanged, drawn>> /\ work[a].at = "granted"
      /\ work \in [Actors -> Work]
  BY DEF Save, TypeOK
<1>3. /\ \A b \in Actors : /\ work'[b].on = work[b].on
                           /\ work'[b].at \in Holding <=> work[b].at \in Holding
                           /\ work'[b].at = "idle" <=> work[b].at = "idle"
                           /\ work'[b].at = "claimed" => work[b].at = "claimed"
  BY <1>1, <1>2 DEF Work, Holding
<1>4. WorkInv' /\ HeldInv' /\ SpentInv'
  BY <1>2, <1>3 DEF SessionInv, WorkInv, HeldInv, SpentInv, Waiting, Processing
<1>5. NoneStranded'
  BY <1>2, <1>3 DEF SessionInv, NoneStranded, Holding, Live
<1> QED BY <1>2, <1>4, <1>5 DEF SessionInv, CodeInv, AgeInv, RoomInv, SlotsFit, Waiting, Live

LEMMA ExchangeSession ==
  ASSUME TypeOK, SessionInv, NEW a \in Actors, NEW stage \in {"granted", "refused"},
         NEW spent \in BOOLEAN, Exchange(a, stage, spent)
  PROVE  SessionInv'
<1> DEFINE i == work[a].on
<1>1. /\ work' = [work EXCEPT ![a].at = stage] /\ work[a].at = "claimed"
      /\ drawn' = drawn /\ work \in [Actors -> Work] /\ exchanged \in [Ids -> Nat]
      /\ exchanged' \in {exchanged, [exchanged EXCEPT ![i] = @ + 1]}
  BY DEF Exchange, TypeOK
<1>2. SessionsLast
  BY PrunedLast DEF Exchange, PruneThen
<1>3. /\ \A b \in Actors : /\ work'[b].on = work[b].on
                           /\ work'[b].at \in Holding <=> work[b].at \in Holding
                           /\ work'[b].at = "idle" <=> work[b].at = "idle"
                           /\ work'[b].at = "claimed" => work[b].at = "claimed" /\ b # a
  BY <1>1 DEF Work, Holding
<1>4. i \in Ids /\ Processing(session, i) /\ exchanged[i] = 0
  BY <1>1 DEF SessionInv, WorkInv, HeldInv, SpentInv, Holding
<1>5. WorkInv' /\ HeldInv'
  <2>1. WorkInv'
    BY <1>3 DEF SessionInv, WorkInv
  <2>2. \A j \in Ids : Processing(session, j) => Processing(session', j)
    BY <1>2 DEF SessionsLast, Lasts, Processing
  <2>3. \A b \in Actors : work[b].at \in Holding => work[b].on \in Ids
    BY DEF SessionInv, WorkInv, Holding
  <2> QED BY <1>3, <2>1, <2>2, <2>3 DEF SessionInv, HeldInv
<1>6. NoneStranded'
  <2>1. \A j \in Ids : Processing(session', j) => Processing(session, j)
    BY <1>2 DEF SessionsLast, Lasts, Processing, Ended
  <2> QED BY <1>3, <2>1 DEF SessionInv, NoneStranded, Holding, Live, Processing
<1>7. SpentInv'
  <2> SUFFICES ASSUME NEW j \in Ids
               PROVE  /\ exchanged'[j] \in {0, 1}
                      /\ Waiting(session', j) => exchanged'[j] = 0
                      /\ \A b \in Actors :
                           work'[b].at = "claimed" /\ work'[b].on = j => exchanged'[j] = 0
                      /\ j \notin drawn' => session'[j] = None /\ exchanged'[j] = 0
    BY DEF SpentInv
  <2>1. Waiting(session', j) => Waiting(session, j)
    BY <1>2 DEF SessionsLast, Lasts, Waiting, Ended
  <2>2. session[j] = None => session'[j] = None
    BY <1>2 DEF SessionsLast, Lasts
  <2>3. CASE j # i
    <3>1. exchanged'[j] = exchanged[j]
      BY <1>1, <2>3
    <3> QED BY <1>1, <1>3, <2>1, <2>2, <3>1 DEF SessionInv, SpentInv
  <2>4. CASE j = i
    <3>1. exchanged'[j] \in {0, 1}
      BY <1>1, <1>4, <2>4
    <3>2. ~Waiting(session', j)
      BY <1>4, <2>1, <2>4 DEF Waiting, Processing
    <3>3. \A b \in Actors : ~(work'[b].at = "claimed" /\ work'[b].on = j)
      BY <1>1, <1>3, <2>4 DEF SessionInv, HeldInv, Holding
    <3>4. j \in drawn
      BY <1>4, <2>4 DEF SessionInv, SpentInv, Processing
    <3> QED BY <1>1, <3>1, <3>2, <3>3, <3>4
  <2> QED BY <2>3, <2>4
<1>8. CodeInv' /\ AgeInv'
  BY <1>2 DEF CodeInv, AgeInv, SessionInv, SessionsLast, Lasts, Waiting, Ended, Live
<1>9. RoomInv'
  <2>1. Live(session') \subseteq Live(session)
    BY <1>2 DEF Live, SessionsLast, Lasts
  <2> QED BY <2>1, FewerLive DEF SessionInv
<1> QED BY <1>5, <1>6, <1>7, <1>8, <1>9 DEF SessionInv

LEMMA CloseSession ==
  ASSUME TypeOK, SessionInv, NEW a \in Actors, Close(a)
  PROVE  SessionInv'
<1> DEFINE i == work[a].on
<1>1. /\ Stop(a) /\ work[a].at \in Holding /\ UNCHANGED <<exchanged, drawn>>
      /\ work \in [Actors -> Work] /\ session \in [Ids -> {None} \cup Session]
  BY DEF Close, Holding, TypeOK
<1>2. i \in Ids /\ Processing(session, i)
  BY <1>1 DEF SessionInv, WorkInv, HeldInv, Holding
<1>3. PICK st \in {"completed", "failed"} : session' = End(session, i, st)
  BY <1>2 DEF Close, Processing
<1>4. st \in Statuses /\ session[i] # None /\ session[i] \in Session
  BY <1>1, <1>2 DEF Statuses, Processing
<1>5. /\ \A j \in Ids \ {i} : session'[j] = session[j]
      /\ session'[i] # None /\ session'[i].status = st
  BY <1>1, <1>2, <1>3, <1>4, EndFacts
<1>6. /\ \A b \in Actors \ {a} : work'[b] = work[b]
      /\ work'[a].at = "idle"
  BY <1>1 DEF Stop
<1>7. \A b \in Actors \ {a} : work[b].at \in Holding => work[b].on \in Ids \ {i}
  BY <1>1 DEF SessionInv, WorkInv, HeldInv, Holding
<1>8. WorkInv' /\ HeldInv'
  BY <1>5, <1>6, <1>7 DEF SessionInv, WorkInv, HeldInv, Processing, Holding
<1>9. NoneStranded'
  BY <1>5, <1>6 DEF SessionInv, NoneStranded, Live
<1>10. CodeInv' /\ SpentInv'
  BY <1>1, <1>2, <1>5, <1>6 DEF SessionInv, CodeInv, SpentInv, Waiting, Processing
<1>11. AgeInv'
  <2>1. session'[i].old = session[i].old /\ session'[i].late = session[i].late
    BY <1>1, <1>2, <1>3, <1>4 DEF End, Session
  <2> QED BY <1>4, <1>5, <2>1 DEF SessionInv, AgeInv, Live
<1>12. RoomInv'
  <2>1. Live(session') \subseteq Live(session)
    BY <1>4, <1>5 DEF Live
  <2> QED BY <2>1, FewerLive DEF SessionInv
<1> QED BY <1>8, <1>9, <1>10, <1>11, <1>12 DEF SessionInv

LEMMA ClaimSession ==
  ASSUME TypeOK, SessionInv, NEW a \in Actors, Claim(a)
  PROVE  SessionInv'
<1> DEFINE i == work[a].on
<1>1. /\ work[a].at = "code" /\ UNCHANGED <<exchanged, drawn>> /\ i \in Ids
      /\ work \in [Actors -> Work]
  BY DEF Claim, SessionInv, WorkInv, TypeOK
<1>2. CASE ~Claimable(i)
  BY <1>1, <1>2, PrunedLast, StopCalm DEF Claim, PruneThen, Holding
<1>3. CASE Claimable(i)
  <2>1. Waiting(session, i) /\ Pruned[i] = session[i] /\ Pruned[i] # None
    BY <1>1, <1>3, PrunedFacts DEF Claimable, ClaimableWaiting, Waiting
  <2>2. session' = End(Pruned, i, "processing")
    BY <1>3 DEF Claim, PruneThen, Taken, TakenForGood
  <2>3. work' = [work EXCEPT ![a].at = "claimed"]
    BY <1>1, <1>3, <2>1 DEF Claim, SessionInv, CodeInv
  <2>4. /\ \A j \in Ids \ {i} : session'[j] = Pruned[j]
        /\ session'[i] # None /\ session'[i].status = "processing"
    BY <1>1, <2>1, <2>2, PrunedFacts, EndFacts DEF Statuses
  <2>5. /\ \A b \in Actors \ {a} : work'[b] = work[b]
        /\ work'[a].at = "claimed" /\ work'[a].on = i
    BY <1>1, <2>3 DEF Work
  <2>6. \A j \in Ids \ {i} : Lasts(session'[j], session[j])
    BY <2>4, PrunedFacts
  <2>7. \A b \in Actors \ {a} : work[b].at \in Holding =>
          work[b].on \in Ids \ {i} /\ Processing(session', work[b].on)
    BY <2>1, <2>6 DEF SessionInv, WorkInv, HeldInv, Holding, Processing, Waiting, Lasts
  <2>8. WorkInv'
    BY <1>1, <2>5 DEF SessionInv, WorkInv
  <2>9. HeldInv'
    BY <1>1, <2>4, <2>5, <2>7 DEF SessionInv, HeldInv, Processing, Holding
  <2>10. NoneStranded'
    <3> SUFFICES ASSUME NEW j \in Ids, session'[j] # None, session'[j].status = "processing"
                 PROVE  \E b \in Actors : work'[b].on = j /\ work'[b].at \in Holding
      BY DEF NoneStranded, Live, Holding
    <3>1. CASE j = i
      BY <2>5, <3>1 DEF Holding
    <3>2. CASE j # i
      <4>1. session[j] # None /\ session[j].status = "processing"
        BY <2>6, <3>2 DEF Lasts, Ended
      <4>2. PICK b \in Actors : work[b].on = j /\ work[b].at \in Holding
        BY <4>1 DEF SessionInv, NoneStranded, Live, Holding
      <4> QED BY <1>1, <2>5, <4>2 DEF Holding
    <3> QED BY <3>1, <3>2
  <2>11. CodeInv'
    BY <2>4, <2>6 DEF SessionInv, CodeInv, Waiting, Lasts, Ended
  <2>12. SpentInv'
    <3>1. \A j \in Ids : Waiting(session', j) => Waiting(session, j)
      BY <2>4, <2>6 DEF Waiting, Lasts, Ended
    <3>2. \A j \in Ids : session[j] = None => session'[j] = None
      BY <2>1, <2>6 DEF Waiting, Lasts
    <3> QED BY <1>1, <2>1, <2>5, <3>1, <3>2 DEF SessionInv, SpentInv
  <2>13. AgeInv'
    <3>1. session'[i].old = session[i].old /\ session'[i].late = session[i].late
      BY <1>1, <2>1, <2>2, PrunedFacts DEF End, Session
    <3> QED BY <2>1, <2>6, <3>1 DEF SessionInv, AgeInv, Live, Lasts, Waiting
  <2>14. RoomInv'
    <3>1. Live(session') \subseteq Live(session)
      BY <2>1, <2>6 DEF Live, Lasts, Waiting
    <3> QED BY <3>1, FewerLive DEF SessionInv
  <2> QED BY <2>8, <2>9, <2>10, <2>11, <2>12, <2>13, <2>14 DEF SessionInv
<1> QED BY <1>2, <1>3

\* A session is made where there is room for it.
LEMMA InsertSession ==
  ASSUME TypeOK, SessionInv, NEW m \in Makers, NEW i \in Ids, Insert(m, i)
  PROVE  SessionInv'
<1> DEFINE r == [status |-> "waiting", flow |-> make[m].flow, key |-> make[m].key,
                 late |-> FALSE, old |-> FALSE, code |-> make[m].flow # "device"]
<1>1. /\ session' = [Pruned EXCEPT ![i] = r] /\ drawn' = drawn \cup {i}
      /\ i \notin drawn /\ exchanged' = exchanged /\ HasRoom
  BY DEF Insert, PruneThen
<1>2. session[i] = None /\ exchanged[i] = 0
  BY <1>1 DEF SessionInv, SpentInv
<1>3. /\ session'[i] = r
      /\ \A j \in Ids \ {i} : Lasts(session'[j], session[j])
  BY <1>1, PrunedFacts
<1>4. /\ \A b \in Actors \ {i} : work'[b] = work[b]
      /\ \/ work'[i] = work[i]
         \/ work'[i].at \in {"starting", "waiting"} /\ work'[i].on = i
  BY DEF Insert, TypeOK
<1>5. /\ r.status = "waiting" /\ ~r.old
      /\ r.code \/ r.flow = "device"
  OBVIOUS
<1>6. \A b \in Actors : work[b].at \in Holding =>
        work[b].on \in Ids \ {i} /\ Processing(session', work[b].on) /\ b # i
  BY <1>2, <1>3 DEF SessionInv, WorkInv, HeldInv, Holding, Processing, Lasts
<1>7. WorkInv'
  BY <1>4 DEF SessionInv, WorkInv
<1>8. \A b \in Actors : work'[b].at \in Holding => work'[b] = work[b]
  BY <1>4 DEF Holding
<1>9. HeldInv'
  BY <1>6, <1>8 DEF SessionInv, HeldInv
<1>10. NoneStranded'
  <2> SUFFICES ASSUME NEW j \in Ids, session'[j] # None, session'[j].status = "processing"
               PROVE  \E b \in Actors : work'[b].on = j /\ work'[b].at \in Holding
    BY DEF NoneStranded, Live, Holding
  <2>1. j # i /\ session[j] # None /\ session[j].status = "processing"
    BY <1>3 DEF Lasts, Ended
  <2>2. PICK b \in Actors : work[b].on = j /\ work[b].at \in Holding
    BY <2>1 DEF SessionInv, NoneStranded, Live, Holding
  <2> QED BY <1>4, <1>6, <2>2
<1>11. CodeInv' /\ AgeInv'
  <2> HIDE DEF r
  <2> QED BY <1>3, <1>5 DEF SessionInv, CodeInv, AgeInv, Waiting, Lasts, Ended, Live
<1>12. SpentInv'
  BY <1>1, <1>2, <1>3, <1>4, <1>8 DEF SessionInv, SpentInv, Waiting, Lasts, Ended, Holding
<1>13. RoomInv'
  <2>1. Live(session') \subseteq Live(Pruned) \cup {i}
    BY <1>1, PrunedFacts DEF Live
  <2>2. Live(Pruned) \subseteq Live(session)
    BY PrunedFacts DEF Live, Lasts
  <2>3. IsFiniteSet(Live(Pruned)) /\ Cardinality(Live(Pruned)) \in Nat
    BY <2>2, FS_Subset, FS_CardinalityType DEF SessionInv, RoomInv
  <2>4. /\ IsFiniteSet(Live(Pruned) \cup {i})
        /\ Cardinality(Live(Pruned) \cup {i}) <= Cardinality(Live(Pruned)) + 1
    <3> DEFINE L == Live(Pruned)
    <3>1. /\ IsFiniteSet(L \cup {i})
          /\ Cardinality(L \cup {i}) = IF i \in L THEN Cardinality(L) ELSE Cardinality(L) + 1
      <4> HIDE DEF L
      <4> QED BY <2>3, FS_AddElement DEF L
    <3> HIDE DEF L
    <3> QED BY <2>3, <3>1 DEF L
  <2>5. Cardinality(Live(Pruned)) + 1 <= MaxSessions
    BY <1>1, <2>3 DEF HasRoom, HasRoomNow
  <2>6. /\ IsFiniteSet(Live(session'))
        /\ Cardinality(Live(session')) <= Cardinality(Live(Pruned) \cup {i})
    BY <2>1, <2>4, FS_Subset
  <2>7. Cardinality(Live(session')) \in Nat /\ Cardinality(Live(Pruned) \cup {i}) \in Nat
    BY <2>4, <2>6, FS_CardinalityType
  <2> QED BY <2>3, <2>4, <2>5, <2>6, <2>7 DEF RoomInv, SlotsFit
<1> QED BY <1>7, <1>9, <1>10, <1>11, <1>12, <1>13 DEF SessionInv

LEMMA SessionInit == Init => SessionInv
<1> SUFFICES ASSUME Init PROVE SessionInv
  OBVIOUS
<1>1. Live(session) = {}
  BY DEF Init, Live
<1>2. RoomInv
  BY <1>1, FS_EmptySet DEF RoomInv, SlotsFit
<1>3. WorkInv /\ HeldInv
  BY DEF Init, WorkInv, HeldInv, Holding
<1> QED BY <1>1, <1>2, <1>3 DEF SessionInv, NoneStranded, CodeInv, AgeInv, SpentInv, Waiting, Init

LEMMA SessionNext == TypeOK /\ SessionInv /\ [Next]_vars => SessionInv'
<1> SUFFICES ASSUME TypeOK, SessionInv, [Next]_vars PROVE SessionInv'
  OBVIOUS
<1>1. ASSUME NEW m \in Makers,
             \/ \E k \in Keys, f \in Flows : BeginKeyed(m, k, f)
             \/ \E f \in Flows : BeginUnkeyed(m, f)
             \/ MakerStep(m)
      PROVE  SessionInv'
  BY <1>1, MakerCalm, InsertSession DEF MakerStep
<1>2. CASE Look
  BY <1>2, LookCalm
<1>3. ASSUME NEW i \in Ids,
             \/ LookLate(i) \/ Cancel(i) \/ TaskStep(i) \/ Gets(i) \/ Age(i)
             \/ \E status \in {"expired", "cancelled", "failed"} : Ends(i, status)
             \/ \E c \in Callers : Deliver(c, i)
      PROVE  SessionInv'
  BY <1>3, LookCalm, TaskCalm, DeliverCalm
<1>4. ASSUME NEW a \in Actors, ClaimStep(a) PROVE SessionInv'
  BY <1>4, ClaimSession, SaveSession, CloseSession, ExchangeSession DEF ClaimStep
<1>5. CASE UNCHANGED vars
  BY <1>5 DEF vars, SessionInv, WorkInv, HeldInv, NoneStranded, CodeInv, AgeInv, SpentInv, RoomInv,
              SlotsFit, Live, Waiting, Processing
<1> QED BY <1>1, <1>2, <1>3, <1>4, <1>5 DEF Next

----------------------------------------------------------------------------
(* Keys, their claims and their begins.                                     *)

\* What prune keeps of the claims.
LEMMA RetainedFacts ==
  ASSUME TypeOK
  PROVE  /\ Retained(Pruned) \in [Keys -> {None} \cup Begin]
         /\ \A k \in Keys :
              /\ Retained(Pruned)[k] \in {None, claim[k]}
              /\ claim[k] # None /\ claim[k].session = None => Retained(Pruned)[k] = claim[k]
              /\ \A i \in Ids : claim[k] # None /\ claim[k].session = i /\ Pruned[i] # None
                   => Retained(Pruned)[k] = claim[k]
BY DEF Retained, KeepsPending, TypeOK

\* No session comes, and none changes its key.
KeysLast ==
  \A i \in Ids : session'[i] # None => session[i] # None /\ session'[i].key = session[i].key

\* A step that leaves the keys to those who have them.
LEMMA KeptKeys ==
  ASSUME TypeOK, ClaimInv, MakersInv', KeysLast,
         \A m \in Makers : /\ make'[m].key = make[m].key
                           /\ make[m].at = "made" => make'[m] = make[m],
         \/ claim' = claim
         \/ claim' = Retained(Pruned) /\ Live(session') \subseteq Live(Pruned)
  PROVE  ClaimInv'
<1>1. \A k \in Keys : claim'[k] # None /\ claim'[k].session = None
                        <=> claim[k] # None /\ claim[k].session = None
  BY RetainedFacts
<1>2. ClaimsAttended'
  BY <1>1 DEF ClaimInv, ClaimsAttended
<1>3. KeyInv'
  <2> SUFFICES ASSUME NEW i \in Ids, NEW k \in Keys, session'[i] # None, session'[i].key = k
               PROVE  /\ claim'[k] # None
                      /\ \/ claim'[k].session = i
                         \/ /\ claim'[k].session = None
                            /\ \E m \in Makers :
                                 make'[m].key = k /\ make'[m].at = "made" /\ make'[m].made = i
    BY DEF KeyInv
  <2>1. session[i] # None /\ session[i].key = k
    BY DEF KeysLast
  <2>2. CASE claim[k] # None /\ claim[k].session = i
    <3>1. claim'[k] = claim[k]
      BY <2>2, RetainedFacts DEF Live
    <3> QED BY <2>2, <3>1
  <2>3. CASE claim[k] # None /\ claim[k].session = None
    <3>1. PICK m \in Makers : make[m].key = k /\ make[m].at = "made" /\ make[m].made = i
      BY <2>1, <2>3 DEF ClaimInv, KeyInv
    <3> QED BY <1>1, <2>3, <3>1
  <2> QED BY <2>1, <2>2, <2>3 DEF ClaimInv, KeyInv
<1> QED BY <1>2, <1>3 DEF ClaimInv

LEMMA QuietMakers ==
  ASSUME TypeOK, ClaimInv, KeysLast, UNCHANGED make,
         \/ claim' = claim
         \/ claim' = Retained(Pruned) /\ Live(session') \subseteq Live(Pruned)
  PROVE  ClaimInv'
<1>1. MakersInv'
  BY DEF ClaimInv, MakersInv
<1> QED BY <1>1, KeptKeys

\* The stages of a begin that does not make its session.
LEMMA StageKeys ==
  ASSUME TypeOK, ClaimInv, NEW m \in Makers,
         \/ \E f \in Flows : BeginUnkeyed(m, f)
         \/ Bind(m) \/ AskDevice(m) \/ Fails(m) \/ InsertRefused(m)
  PROVE  ClaimInv'
<1>1. make \in [Makers -> Make]
  BY DEF TypeOK
<1>2. \/ claim' = claim /\ session' = session
      \/ claim' = Retained(Pruned) /\ session' = Pruned
  BY DEF BeginUnkeyed, Bind, AskDevice, Fails, InsertRefused, PruneThen
<1>3. make[m].at \in Begun \cup {"idle"}
  BY DEF BeginUnkeyed, Bind, AskDevice, Fails, InsertRefused, Asked, Begun
<1>4. /\ \A n \in Makers \ {m} : make'[n] = make[n]
      /\ make'[m].key = make[m].key
      /\ make'[m].at \in Begun \cup {"idle", "failed"}
      /\ make'[m].at = "idle" => make'[m].key = None
      /\ make'[m].at \in Begun => make'[m].flow \in Flows
      /\ make'[m].at = "failed" => make'[m].key # None
  <2>1. ASSUME NEW f \in Flows, BeginUnkeyed(m, f) PROVE <1>4!:
    BY <1>1, <2>1 DEF BeginUnkeyed, ClaimInv, MakersInv, Begun
  <2>2. ASSUME Give(m), make[m].at \in Begun PROVE <1>4!:
    BY <1>1, <2>2 DEF Give, Idle, Make, Begun
  <2>3. ASSUME NEW stage \in {"bound", "asked"}, MakerTo(m, stage), make[m].at = "begun"
        PROVE  <1>4!:
    BY <1>1, <2>3 DEF MakerTo, Make, ClaimInv, MakersInv, Begun
  <2>4. \/ \E f \in Flows : BeginUnkeyed(m, f)
        \/ make[m].at = "begun" /\ \E stage \in {"bound", "asked"} : MakerTo(m, stage)
        \/ make[m].at \in Begun /\ Give(m)
    BY DEF Bind, AskDevice, Fails, InsertRefused, Asked, Begun
  <2> QED BY <2>1, <2>2, <2>3, <2>4
<1>5. MakersInv'
  BY <1>1, <1>4 DEF ClaimInv, MakersInv, Begun
<1>6. KeysLast
  BY <1>2, PrunedLast DEF KeysLast, SessionsLast, Lasts
<1>7. \A n \in Makers : /\ make'[n].key = make[n].key
                        /\ make[n].at = "made" => make'[n] = make[n]
  BY <1>3, <1>4 DEF Begun
<1> QED BY <1>2, <1>5, <1>6, <1>7, KeptKeys

LEMMA BeginKeyedKeys ==
  ASSUME TypeOK, ClaimInv, NEW m \in Makers, NEW k \in Keys, NEW f \in Flows, BeginKeyed(m, k, f)
  PROVE  ClaimInv'
<1>1. /\ make \in [Makers -> Make] /\ make[m].at = "idle" /\ make[m].key = None
      /\ make' = [make EXCEPT ![m] = [at |-> "begun", key |-> k, flow |-> f, made |-> None]]
      /\ session' = Pruned /\ Retained(Pruned)[k] = None
      /\ claim' = [Retained(Pruned) EXCEPT ![k] = [flow |-> f, session |-> None]]
  BY DEF BeginKeyed, TypeOK, ClaimInv, MakersInv
<1>2. ~(claim[k] # None /\ claim[k].session = None)
  BY <1>1, RetainedFacts
<1>3. \A n \in Makers : make[n].key # k
  BY <1>2 DEF ClaimInv, ClaimsAttended
<1>4. /\ \A n \in Makers \ {m} : make'[n] = make[n]
      /\ make'[m].key = k /\ make'[m].at = "begun" /\ make'[m].flow = f
  BY <1>1
<1>5. MakersInv'
  BY <1>3, <1>4 DEF ClaimInv, MakersInv, Begun
<1>6. claim'[k] # None /\ claim'[k].session = None
  <2>1. [flow |-> f, session |-> None] \in Begin
    BY DEF Begin
  <2> QED BY <1>1, <2>1, RetainedFacts
<1>7. \A l \in Keys \ {k} : claim'[l] = Retained(Pruned)[l]
  BY <1>1, RetainedFacts
<1>8. ClaimsAttended'
  <2> SUFFICES ASSUME NEW l \in Keys
               PROVE  claim'[l] # None /\ claim'[l].session = None
                        <=> \E n \in Makers : make'[n].key = l
    BY DEF ClaimsAttended
  <2>1. CASE l = k
    BY <1>4, <1>6, <2>1
  <2>2. CASE l # k
    <3>1. claim'[l] # None /\ claim'[l].session = None
            <=> claim[l] # None /\ claim[l].session = None
      BY <1>7, <2>2, RetainedFacts
    <3>2. (\E n \in Makers : make'[n].key = l) <=> \E n \in Makers : make[n].key = l
      BY <1>1, <1>4, <2>2
    <3> QED BY <3>1, <3>2 DEF ClaimInv, ClaimsAttended
  <2> QED BY <2>1, <2>2
<1>9. KeyInv'
  <2> SUFFICES ASSUME NEW i \in Ids, NEW l \in Keys, session'[i] # None, session'[i].key = l
               PROVE  /\ claim'[l] # None
                      /\ \/ claim'[l].session = i
                         \/ /\ claim'[l].session = None
                            /\ \E n \in Makers :
                                 make'[n].key = l /\ make'[n].at = "made" /\ make'[n].made = i
    BY DEF KeyInv
  <2>1. session[i] # None /\ session[i].key = l /\ Pruned[i] # None
    BY <1>1, PrunedFacts DEF Lasts
  <2>2. l # k /\ claim'[l] = claim[l]
    BY <1>1, <1>7, <2>1, RetainedFacts DEF ClaimInv, KeyInv
  <2>3. \A n \in Makers : make[n].key = l => make'[n] = make[n]
    BY <1>1, <1>4
  <2> QED BY <2>1, <2>2, <2>3 DEF ClaimInv, KeyInv
<1> QED BY <1>5, <1>8, <1>9 DEF ClaimInv

LEMMA SettleKeys ==
  ASSUME TypeOK, ClaimInv, NEW m \in Makers, Settle(m)
  PROVE  ClaimInv'
<1> DEFINE k == make[m].key
<1>1. /\ make \in [Makers -> Make] /\ claim \in [Keys -> {None} \cup Begin]
      /\ make[m].at \in {"made", "failed"} /\ make' = [make EXCEPT ![m] = Idle]
      /\ claim' = [claim EXCEPT ![k] = Settled(m)] /\ session' = session
  BY DEF Settle, TypeOK
<1>2. k \in Keys /\ k # None
  BY <1>1 DEF ClaimInv, MakersInv, Make
<1>3. claim[k] # None /\ claim[k].session = None /\ claim[k] \in Begin
  BY <1>1, <1>2 DEF ClaimInv, ClaimsAttended
<1>4. \A n \in Makers \ {m} : make'[n] = make[n] /\ make[n].key # k
  BY <1>1, <1>2 DEF ClaimInv, MakersInv
<1>5. make'[m].key = None /\ make'[m].at = "idle"
  BY <1>1 DEF Idle
<1>6. MakersInv'
  BY <1>4, <1>5 DEF ClaimInv, MakersInv, Begun
<1>7. /\ make[m].made = None => claim'[k] = None
      /\ make[m].made # None =>
           claim'[k] # None /\ claim'[k].session = make[m].made /\ make[m].made \in Ids
  <2>1. claim'[k] = Settled(m)
    BY <1>1, <1>2
  <2>2. CASE make[m].made = None
    BY <2>1, <2>2 DEF Settled, SettleEither
  <2>3. CASE make[m].made # None
    <3>1. make[m].made \in Ids
      BY <1>1, <2>3 DEF Make
    <3>2. /\ [claim[k] EXCEPT !.session = make[m].made] \in Begin
          /\ [claim[k] EXCEPT !.session = make[m].made].session = make[m].made
      BY <1>3, <3>1 DEF Begin
    <3> QED BY <2>1, <2>3, <3>1, <3>2 DEF Settled, SettleEither
  <2> QED BY <2>2, <2>3
<1>8. \A l \in Keys \ {k} : claim'[l] = claim[l]
  BY <1>1
<1>9. ClaimsAttended'
  <2> SUFFICES ASSUME NEW l \in Keys
               PROVE  claim'[l] # None /\ claim'[l].session = None
                        <=> \E n \in Makers : make'[n].key = l
    BY DEF ClaimsAttended
  <2>1. CASE l = k
    BY <1>2, <1>4, <1>5, <1>7, <2>1
  <2>2. CASE l # k
    BY <1>4, <1>5, <1>8, <2>2 DEF ClaimInv, ClaimsAttended
  <2> QED BY <2>1, <2>2
<1>10. KeyInv'
  <2> SUFFICES ASSUME NEW i \in Ids, NEW l \in Keys, session[i] # None, session[i].key = l
               PROVE  /\ claim'[l] # None
                      /\ \/ claim'[l].session = i
                         \/ /\ claim'[l].session = None
                            /\ \E n \in Makers :
                                 make'[n].key = l /\ make'[n].at = "made" /\ make'[n].made = i
    BY <1>1 DEF KeyInv
  <2>1. CASE l = k
    <3>1. make[m].made = i
      BY <1>3, <1>4, <2>1 DEF ClaimInv, KeyInv
    <3> QED BY <1>7, <2>1, <3>1
  <2>2. CASE l # k
    BY <1>4, <1>8, <2>2 DEF ClaimInv, KeyInv
  <2> QED BY <2>1, <2>2
<1> QED BY <1>6, <1>9, <1>10 DEF ClaimInv

LEMMA InsertKeys ==
  ASSUME TypeOK, ClaimInv, NEW m \in Makers, NEW i \in Ids, session[i] = None, Insert(m, i)
  PROVE  ClaimInv'
<1> DEFINE k == make[m].key
           r == [status |-> "waiting", flow |-> make[m].flow, key |-> k,
                 late |-> FALSE, old |-> FALSE, code |-> make[m].flow # "device"]
<1>1. /\ make \in [Makers -> Make] /\ session' = [Pruned EXCEPT ![i] = r]
      /\ claim' = Retained(Pruned) /\ make[m].at \in Begun
      /\ make' = [make EXCEPT ![m] = IF k = None THEN Idle
                                     ELSE [make[m] EXCEPT !.at = "made", !.made = i]]
  BY DEF Insert, PruneThen, TypeOK, Asked, Begun
<1>2. \A n \in Makers \ {m} : make'[n] = make[n]
  BY <1>1
<1>3. make'[m].key = k
  BY <1>1 DEF Idle, Make
<1>4. IF k = None THEN make'[m].at = "idle" ELSE make'[m].at = "made" /\ make'[m].made = i
  BY <1>1 DEF Idle, Make
<1>5. MakersInv'
  BY <1>2, <1>3, <1>4 DEF ClaimInv, MakersInv, Begun
<1>6. \A l \in Keys : claim'[l] # None /\ claim'[l].session = None
                        <=> claim[l] # None /\ claim[l].session = None
  BY <1>1, RetainedFacts
<1>7. ClaimsAttended'
  BY <1>2, <1>3, <1>6 DEF ClaimInv, ClaimsAttended
<1>8. KeyInv'
  <2> SUFFICES ASSUME NEW j \in Ids, NEW l \in Keys, session'[j] # None, session'[j].key = l
               PROVE  /\ claim'[l] # None
                      /\ \/ claim'[l].session = j
                         \/ /\ claim'[l].session = None
                            /\ \E n \in Makers :
                                 make'[n].key = l /\ make'[n].at = "made" /\ make'[n].made = j
    BY DEF KeyInv
  <2>1. CASE j = i
    <3>1. l = k /\ k # None
      BY <1>1, <2>1, PrunedFacts
    <3>2. claim'[l] # None /\ claim'[l].session = None
      BY <1>6, <3>1 DEF ClaimInv, ClaimsAttended
    <3> QED BY <1>3, <1>4, <2>1, <3>1, <3>2
  <2>2. CASE j # i
    <3>1. session[j] # None /\ session[j].key = l /\ Pruned[j] # None
      BY <1>1, <2>2, PrunedFacts DEF Lasts
    <3>2. claim'[l] = claim[l]
      BY <1>1, <3>1, RetainedFacts DEF ClaimInv, KeyInv
    <3>3. \A n \in Makers : make[n].at = "made" => make'[n] = make[n]
      BY <1>1, <1>2 DEF Begun
    <3> QED BY <3>1, <3>2, <3>3 DEF ClaimInv, KeyInv
  <2> QED BY <2>1, <2>2
<1> QED BY <1>5, <1>7, <1>8 DEF ClaimInv

\* The steps of tasks, callbacks and requests, which are about no begin.
LEMMA TakerKeys ==
  ASSUME TypeOK, SessionInv, ClaimInv, NEW a \in Actors, ClaimStep(a)
  PROVE  ClaimInv'
<1> DEFINE i == work[a].on
<1>1. /\ session \in [Ids -> {None} \cup Session] /\ work[a].at # "idle" /\ i \in Ids
      /\ make' = make
  BY DEF ClaimStep, Claim, Save, Close, Exchange, SessionInv, WorkInv, TypeOK
<1>2. CASE Claim(a)
  <2>1. /\ session' = Pruned \/ (session' = End(Pruned, i, "processing") /\ Pruned[i] # None)
        /\ claim' = Retained(Pruned)
    BY <1>2 DEF Claim, PruneThen, Taken, TakenForGood, Claimable, ClaimableWaiting, Waiting
  <2>2. \A j \in Ids : session'[j] # None => Pruned[j] # None /\ session'[j].key = Pruned[j].key
    BY <1>1, <2>1, PrunedFacts, EndFacts, SMTT(30) DEF Statuses
  <2>3. KeysLast /\ Live(session') \subseteq Live(Pruned)
    BY <2>2, PrunedFacts DEF KeysLast, Lasts, Live
  <2> QED BY <1>1, <2>1, <2>3, QuietMakers
<1>3. CASE Save(a)
  BY <1>1, <1>3, QuietMakers DEF Save, KeysLast
<1>4. CASE Close(a)
  <2>1. \/ session' = session
        \/ session[i] # None /\ \E st \in Statuses : session' = End(session, i, st)
    BY <1>4 DEF Close, Statuses
  <2>2. KeysLast
    BY <1>1, <2>1, EndFacts DEF KeysLast
  <2> QED BY <1>1, <1>4, <2>2, QuietMakers DEF Close
<1>5. ASSUME NEW stage \in {"granted", "refused"}, NEW spent \in BOOLEAN,
             Exchange(a, stage, spent)
      PROVE  ClaimInv'
  <2>1. KeysLast
    BY <1>5, PrunedLast DEF Exchange, PruneThen, KeysLast, SessionsLast, Lasts
  <2> QED BY <1>1, <1>5, <2>1, QuietMakers DEF Exchange, PruneThen
<1> QED BY <1>2, <1>3, <1>4, <1>5 DEF ClaimStep

LEMMA TaskKeys ==
  ASSUME TypeOK, ClaimInv, NEW i \in Ids,
         \/ TaskStep(i) \/ Gets(i) \/ Age(i)
         \/ \E status \in {"expired", "cancelled", "failed"} : Ends(i, status)
         \/ \E c \in Callers : Deliver(c, i)
  PROVE  ClaimInv'
<1>1. SessionsLast
  BY TaskLast
<1>2. /\ make' = make
      /\ claim' = claim \/ (claim' = Retained(Pruned) /\ session' = Pruned)
  BY DEF TaskStep, ListenStarts, Notified, Deadline, TimesOut, Gets, Ends, Deliver, Age, PruneThen
<1> QED BY <1>1, <1>2, QuietMakers DEF KeysLast, SessionsLast, Lasts

LEMMA LookKeys ==
  ASSUME TypeOK, SessionInv, ClaimInv, Look \/ \E i \in Ids : LookLate(i) \/ Cancel(i)
  PROVE  ClaimInv'
<1>1. SessionsLast
  BY LookLast
<1>2. make' = make /\ claim' = Retained(Pruned)
  BY DEF Look, LookLate, Cancel, Cancelling, PruneThen
<1>3. Live(session') \subseteq Live(Pruned)
  <2>1. CASE Look
    BY <2>1 DEF Look, PruneThen, Live
  <2>2. ASSUME NEW i \in Ids, LookLate(i) PROVE Live(session') \subseteq Live(Pruned)
    <3>1. Pruned[i] # None
      BY <2>2 DEF LookLate, Waiting, SessionInv, AgeInv, Live, Pruned, Expired, Late
    <3> QED BY <2>2, <3>1, PrunedFacts DEF LookLate, PruneThen, Live
  <2>3. ASSUME NEW i \in Ids, Cancel(i) PROVE Live(session') \subseteq Live(Pruned)
    BY <2>3, PrunedFacts, EndFacts DEF Cancel, Cancelling, PruneThen, Live, Waiting, Statuses
  <2> QED BY <2>1, <2>2, <2>3
<1> QED BY <1>1, <1>2, <1>3, QuietMakers DEF KeysLast, SessionsLast, Lasts

LEMMA ClaimInit == Init => ClaimInv
BY DEF Init, ClaimInv, MakersInv, ClaimsAttended, KeyInv, Begun

LEMMA ClaimNext == TypeOK /\ SessionInv /\ ClaimInv /\ [Next]_vars => ClaimInv'
<1> SUFFICES ASSUME TypeOK, SessionInv, ClaimInv, [Next]_vars PROVE ClaimInv'
  OBVIOUS
<1>1. ASSUME NEW m \in Makers, NEW k \in Keys, NEW f \in Flows, BeginKeyed(m, k, f)
      PROVE  ClaimInv'
  BY <1>1, BeginKeyedKeys
<1>2. ASSUME NEW m \in Makers, (\E f \in Flows : BeginUnkeyed(m, f)) \/ MakerStep(m)
      PROVE  ClaimInv'
  <2>1. ASSUME NEW i \in Ids, Insert(m, i) PROVE ClaimInv'
    <3>1. session[i] = None
      BY <2>1 DEF Insert, SessionInv, SpentInv
    <3> QED BY <2>1, <3>1, InsertKeys
  <2> QED BY <1>2, <2>1, StageKeys, SettleKeys DEF MakerStep
<1>3. CASE Look
  BY <1>3, LookKeys
<1>4. ASSUME NEW i \in Ids,
             \/ LookLate(i) \/ Cancel(i) \/ TaskStep(i) \/ Gets(i) \/ Age(i)
             \/ \E status \in {"expired", "cancelled", "failed"} : Ends(i, status)
             \/ \E c \in Callers : Deliver(c, i)
      PROVE  ClaimInv'
  BY <1>4, LookKeys, TaskKeys
<1>5. ASSUME NEW a \in Actors, ClaimStep(a) PROVE ClaimInv'
  BY <1>5, TakerKeys
<1>6. CASE UNCHANGED vars
  BY <1>6 DEF vars, ClaimInv, MakersInv, ClaimsAttended, KeyInv
<1> QED BY <1>1, <1>2, <1>3, <1>4, <1>5, <1>6 DEF Next

----------------------------------------------------------------------------
(* Types.                                                                   *)

LEMMA TypeInit == Init => TypeOK
BY DEF Init, TypeOK, Make, Work

\* What prune leaves has its type, and so has what its caller makes of it.
LEMMA PruneTypes ==
  ASSUME TypeOK, NEW s \in [Ids -> {None} \cup Session], NEW some \in SUBSET Ids,
         PruneThen(s, some)
  PROVE  /\ session' \in [Ids -> {None} \cup Session]
         /\ claim' \in [Keys -> {None} \cup Begin]
         /\ notified' \subseteq Ids
BY RetainedFacts DEF PruneThen, TypeOK, Late, Live

LEMMA GiveTypes ==
  ASSUME TypeOK, NEW m \in Makers, Give(m)
  PROVE  make' \in [Makers -> Make] /\ port' \in {None} \cup Makers \cup Ids
<1>1. make \in [Makers -> Make] /\ make[m] \in Make
  BY DEF TypeOK
<1>2. [make[m] EXCEPT !.at = "failed"] \in Make /\ Idle \in Make
  BY <1>1 DEF Make, Idle
<1> QED BY <1>1, <1>2 DEF Give, TypeOK

LEMMA MakerToTypes ==
  ASSUME TypeOK, NEW m \in Makers, NEW stage \in {"bound", "asked"}, MakerTo(m, stage)
  PROVE  make' \in [Makers -> Make]
<1>1. make \in [Makers -> Make] /\ make[m] \in Make
  BY DEF TypeOK
<1>2. [make[m] EXCEPT !.at = stage] \in Make
  BY <1>1 DEF Make
<1> QED BY <1>1, <1>2 DEF MakerTo, Make

LEMMA WorkToTypes ==
  ASSUME TypeOK, NEW a \in Actors,
         \/ Stop(a)
         \/ \E stage \in {"waiting", "code", "claimed", "granted", "refused", "saved"} :
              work' = [work EXCEPT ![a].at = stage]
  PROVE  work' \in [Actors -> Work]
<1>1. work \in [Actors -> Work] /\ work[a] \in Work
  BY DEF TypeOK
<1>2. CASE Stop(a)
  BY <1>1, <1>2 DEF Stop, Work
<1>3. ASSUME NEW stage \in {"waiting", "code", "claimed", "granted", "refused", "saved"},
             work' = [work EXCEPT ![a].at = stage]
      PROVE  work' \in [Actors -> Work]
  <2>1. [work[a] EXCEPT !.at = stage] \in Work
    BY <1>1 DEF Work
  <2> QED BY <1>1, <1>3, <2>1 DEF Work
<1> QED BY <1>2, <1>3

LEMMA EndWaitingTypes ==
  ASSUME TypeOK, NEW i \in Ids, NEW st \in Statuses, EndWaiting(i, st)
  PROVE  session' \in [Ids -> {None} \cup Session]
BY EndFacts DEF EndWaiting, TypeOK, Waiting

LEMMA MakerTypes ==
  ASSUME TypeOK, ClaimInv, NEW m \in Makers,
         \/ \E k \in Keys, f \in Flows : BeginKeyed(m, k, f)
         \/ \E f \in Flows : BeginUnkeyed(m, f)
         \/ MakerStep(m)
  PROVE  TypeOK'
<1>1. /\ make \in [Makers -> Make] /\ make[m] \in Make
      /\ Pruned \in [Ids -> {None} \cup Session] /\ Late \subseteq Ids
  BY PrunedFacts DEF TypeOK, Late, Live
<1>2. ASSUME NEW k \in Keys, NEW f \in Flows, BeginKeyed(m, k, f) PROVE TypeOK'
  <2>1. [at |-> "begun", key |-> k, flow |-> f, made |-> None] \in Make
    BY DEF Make
  <2>2. make' \in [Makers -> Make]
    BY <1>1, <1>2, <2>1 DEF BeginKeyed
  <2>3. [flow |-> f, session |-> None] \in Begin
    BY DEF Begin
  <2>4. claim' \in [Keys -> {None} \cup Begin]
    BY <1>2, <2>3, RetainedFacts DEF BeginKeyed
  <2> QED BY <1>1, <1>2, <2>2, <2>4 DEF BeginKeyed, TypeOK
<1>3. ASSUME NEW f \in Flows, BeginUnkeyed(m, f) PROVE TypeOK'
  <2>1. [at |-> "begun", key |-> None, flow |-> f, made |-> None] \in Make
    BY DEF Make
  <2> QED BY <1>1, <1>3, <2>1 DEF BeginUnkeyed, TypeOK
<1>4. CASE Bind(m)
  BY <1>4, MakerToTypes DEF Bind, TypeOK
<1>5. CASE AskDevice(m)
  <2>1. make' \in [Makers -> Make] /\ port' \in {None} \cup Makers \cup Ids
    BY <1>5, MakerToTypes, GiveTypes DEF AskDevice, TypeOK
  <2> QED BY <1>1, <1>5, <2>1, PruneTypes DEF AskDevice, TypeOK
<1>6. CASE Fails(m)
  BY <1>6, GiveTypes DEF Fails, TypeOK
<1>7. ASSUME NEW i \in Ids, Insert(m, i) PROVE TypeOK'
  <2> DEFINE r == [status |-> "waiting", flow |-> make[m].flow, key |-> make[m].key,
                   late |-> FALSE, old |-> FALSE, code |-> make[m].flow # "device"]
  <2>1. make[m].flow \in Flows
    BY <1>7 DEF Insert, Asked, ClaimInv, MakersInv, Begun
  <2>2. r \in Session
    BY <1>1, <2>1 DEF Session, Statuses, Make
  <2>3. [Pruned EXCEPT ![i] = r] \in [Ids -> {None} \cup Session]
    <3> HIDE DEF r
    <3> QED BY <1>1, <2>2
  <2>4. /\ session' \in [Ids -> {None} \cup Session]
        /\ claim' \in [Keys -> {None} \cup Begin]
        /\ notified' \subseteq Ids
    BY <1>7, <2>3, PruneTypes DEF Insert
  <2>5. work' \in [Actors -> Work]
    <3>1. /\ [at |-> "starting", on |-> i] \in Work /\ [at |-> "waiting", on |-> i] \in Work
          /\ work \in [Actors -> Work] /\ i \in Actors
      BY DEF Work, TypeOK, Actors
    <3> QED BY <1>7, <3>1 DEF Insert
  <2>6. make' \in [Makers -> Make]
    <3>1. [make[m] EXCEPT !.at = "made", !.made = i] \in Make /\ Idle \in Make
      BY <1>1 DEF Make, Idle
    <3> QED BY <1>1, <1>7, <3>1 DEF Insert
  <2> QED BY <1>7, <2>4, <2>5, <2>6 DEF Insert, TypeOK
<1>8. CASE InsertRefused(m)
  BY <1>1, <1>8, GiveTypes, PruneTypes DEF InsertRefused, TypeOK
<1>9. CASE Settle(m)
  <2>1. make[m].key \in Keys /\ claim[make[m].key] \in Begin
    BY <1>1, <1>9 DEF Settle, ClaimInv, MakersInv, ClaimsAttended, Make, TypeOK
  <2>2. Settled(m) \in {None} \cup Begin
    BY <1>1, <2>1 DEF Settled, SettleEither, Make, Begin
  <2>3. Idle \in Make
    BY DEF Make, Idle
  <2> QED BY <1>9, <2>2, <2>3 DEF Settle, TypeOK
<1> QED BY <1>2, <1>3, <1>4, <1>5, <1>6, <1>7, <1>8, <1>9 DEF MakerStep

LEMMA TaskTypes ==
  ASSUME TypeOK, SessionInv, NEW i \in Ids,
         \/ LookLate(i) \/ Cancel(i) \/ TaskStep(i) \/ Gets(i) \/ Age(i)
         \/ \E status \in {"expired", "cancelled", "failed"} : Ends(i, status)
         \/ \E c \in Callers : Deliver(c, i)
  PROVE  TypeOK'
<1>1. Pruned \in [Ids -> {None} \cup Session] /\ i \in Actors
  BY PrunedFacts DEF Actors
<1>2. CASE LookLate(i)
  <2>1. Pruned[i] \in Session
    BY <1>1, <1>2 DEF LookLate, Waiting, SessionInv, AgeInv, Live, Pruned, Expired, Late
  <2> DEFINE s == [Pruned EXCEPT ![i].status = "expired", ![i].late = TRUE]
  <2>2. s \in [Ids -> {None} \cup Session]
    <3>1. [Pruned[i] EXCEPT !.status = "expired", !.late = TRUE] \in Session
      BY <2>1 DEF Session, Statuses
    <3>2. s = [Pruned EXCEPT ![i] = [Pruned[i] EXCEPT !.status = "expired", !.late = TRUE]]
      BY <1>1, <2>1 DEF Session
    <3> HIDE DEF s
    <3> QED BY <1>1, <3>1, <3>2
  <2>3. PruneThen(s, {}) /\ UNCHANGED <<make, work, port, drawn, exchanged, accounts>>
    BY <1>2 DEF LookLate
  <2> HIDE DEF s
  <2> QED BY <2>2, <2>3, PruneTypes DEF TypeOK
<1>3. CASE Cancel(i)
  <2> DEFINE s == End(Pruned, i, "cancelled")
  <2>1. s \in [Ids -> {None} \cup Session]
    BY <1>1, <1>3, EndFacts DEF Cancel, Cancelling, Waiting, Statuses
  <2>2. PruneThen(s, {i}) /\ UNCHANGED <<make, work, port, drawn, exchanged, accounts>>
    BY <1>3 DEF Cancel, Cancelling
  <2> HIDE DEF s
  <2> QED BY <2>1, <2>2, PruneTypes DEF TypeOK
<1>4. CASE ListenStarts(i)
  BY <1>1, <1>4, WorkToTypes DEF ListenStarts, Unbind, TypeOK
<1>5. CASE Notified(i) \/ Deadline(i)
  <2>1. EndWaiting(i, "expired") /\ Stop(i) /\ Unbind(i)
    BY <1>5 DEF Notified, Deadline, TimesOut
  <2>2. notified' \subseteq notified /\ UNCHANGED <<claim, make, drawn, exchanged, accounts>>
    BY <1>5 DEF Notified, Deadline, TimesOut
  <2> QED BY <1>1, <2>1, <2>2, WorkToTypes, EndWaitingTypes DEF Unbind, TypeOK, Statuses
<1>6. ASSUME NEW status \in {"expired", "cancelled", "failed"}, Ends(i, status) PROVE TypeOK'
  BY <1>1, <1>6, WorkToTypes, EndWaitingTypes DEF Ends, Unbind, TypeOK, Statuses
<1>7. CASE Gets(i)
  BY <1>1, <1>7, WorkToTypes DEF Gets, Unbind, TypeOK
<1>8. CASE Age(i)
  <2>1. session[i] \in Session /\ session \in [Ids -> {None} \cup Session]
    BY <1>8 DEF Age, TypeOK
  <2>2. [session[i] EXCEPT !.late = TRUE, !.old = session[i].late] \in Session
    BY <2>1 DEF Session
  <2>3. session' = [session EXCEPT ![i] =
                      [session[i] EXCEPT !.late = TRUE, !.old = session[i].late]]
    BY <1>8, <2>1 DEF Age, Session
  <2>4. session' \in [Ids -> {None} \cup Session]
    BY <2>1, <2>2, <2>3
  <2> QED BY <1>8, <2>4 DEF Age, TypeOK
<1>9. ASSUME NEW c \in Callers, Deliver(c, i) PROVE TypeOK'
  <2>1. [at |-> "code", on |-> i] \in Work /\ c \in Actors
    BY DEF Work, Actors
  <2> QED BY <1>1, <1>9, <2>1, PruneTypes DEF Deliver, TypeOK
<1> QED BY <1>2, <1>3, <1>4, <1>5, <1>6, <1>7, <1>8, <1>9 DEF TaskStep

LEMMA TakerTypes ==
  ASSUME TypeOK, SessionInv, NEW a \in Actors, ClaimStep(a)
  PROVE  TypeOK'
<1> DEFINE i == work[a].on
<1>1. /\ Pruned \in [Ids -> {None} \cup Session] /\ i \in Ids
      /\ work \in [Actors -> Work] /\ session \in [Ids -> {None} \cup Session]
  BY PrunedFacts DEF ClaimStep, Claim, Save, Close, Exchange, SessionInv, WorkInv, TypeOK
<1>2. CASE Claim(a)
  <2>1. PICK some \in SUBSET Ids :
          \/ PruneThen(Pruned, some)
          \/ PruneThen(End(Pruned, i, "processing"), some) /\ Pruned[i] # None
    BY <1>1, <1>2 DEF Claim, Taken, TakenForGood, Claimable, ClaimableWaiting, Waiting
  <2>2. PICK s \in [Ids -> {None} \cup Session] : PruneThen(s, some)
    BY <1>1, <2>1, EndFacts DEF Statuses
  <2>3. work' \in [Actors -> Work]
    BY <1>2, WorkToTypes DEF Claim
  <2> QED BY <1>2, <2>2, <2>3, PruneTypes DEF Claim, TypeOK
<1>3. ASSUME NEW stage \in {"granted", "refused"}, NEW spent \in BOOLEAN,
             Exchange(a, stage, spent)
      PROVE  TypeOK'
  <2>1. work' \in [Actors -> Work]
    BY <1>3, WorkToTypes DEF Exchange
  <2>2. exchanged' \in [Ids -> Nat]
    BY <1>1, <1>3 DEF Exchange, TypeOK
  <2> QED BY <1>1, <1>3, <2>1, <2>2, PruneTypes DEF Exchange, TypeOK
<1>4. CASE Save(a)
  <2>1. work' \in [Actors -> Work] /\ accounts' \subseteq Ids
    BY <1>1, <1>4, WorkToTypes DEF Save, TypeOK
  <2> QED BY <1>4, <2>1 DEF Save, TypeOK
<1>5. CASE Close(a)
  <2>1. work' \in [Actors -> Work]
    BY <1>5, WorkToTypes DEF Close
  <2>2. session' \in [Ids -> {None} \cup Session]
    BY <1>1, <1>5, EndFacts DEF Close, Statuses
  <2> QED BY <1>5, <2>1, <2>2 DEF Close, TypeOK
<1> QED BY <1>2, <1>3, <1>4, <1>5 DEF ClaimStep

LEMMA TypeNext == IInv /\ [Next]_vars => TypeOK'
<1> SUFFICES ASSUME TypeOK, SessionInv, ClaimInv, [Next]_vars PROVE TypeOK'
  BY DEF IInv
<1>1. CASE Look
  BY <1>1, PrunedFacts, PruneTypes DEF Look, TypeOK
<1>2. CASE UNCHANGED vars
  BY <1>2 DEF vars, TypeOK
<1> QED BY <1>1, <1>2, MakerTypes, TaskTypes, TakerTypes DEF Next

----------------------------------------------------------------------------
(* The theorems.                                                            *)

\* Claims, sessions, tasks and callbacks fit together in every reachable state:
\* OAuthSessionManager.
THEOREM Inductive == Spec => []IInv
<1>1. Init => IInv
  BY TypeInit, SessionInit, ClaimInit DEF IInv
<1>2. IInv /\ [Next]_vars => IInv'
  BY TypeNext, SessionNext, ClaimNext DEF IInv
<1> QED BY <1>1, <1>2, PTL DEF Spec

\* Every variable keeps its type.
THEOREM TypeCorrect == Spec => []TypeOK
<1>1. IInv => TypeOK
  BY DEF IInv
<1> QED BY <1>1, Inductive, PTL

\* However many callbacks and tasks bring it, a session's code is exchanged once.
THEOREM CodeIsSpentOnce == Spec => []CodeSpentOnce
<1>1. IInv => CodeSpentOnce
  BY DEF IInv, SessionInv, SpentInv, CodeSpentOnce
<1> QED BY <1>1, Inductive, PTL

\* A session that is processing has somebody who finishes it.
THEOREM NobodyIsStranded == Spec => []NoneStranded
<1>1. IInv => NoneStranded
  BY DEF IInv, SessionInv
<1> QED BY <1>1, Inductive, PTL

\* No key answers Busy for ever: a claim without a session has its begin.
THEOREM ClaimsAreAttended == Spec => []ClaimsAttended
<1>1. IInv => ClaimsAttended
  BY DEF IInv, ClaimInv
<1> QED BY <1>1, Inductive, PTL

\* Sessions never outgrow their places.
THEOREM SlotsAlwaysFit == Spec => []SlotsFit
<1>1. IInv => SlotsFit
  BY DEF IInv, SessionInv, RoomInv
<1> QED BY <1>1, Inductive, PTL

LEMMA LoneElement ==
  ASSUME NEW S, \A x, y \in S : x = y
  PROVE  Cardinality(S) <= 1
<1>1. CASE S = {}
  BY <1>1, FS_EmptySet
<1>2. CASE S # {}
  <2>1. PICK x \in S : TRUE
    BY <1>2
  <2>2. S = {x}
    BY <2>1
  <2>3. Cardinality(S) = 1
    BY <2>2, FS_Singleton
  <2> QED BY <2>3
<1> QED BY <1>1, <1>2

LEMMA LoneLogin == IInv => OneLoginPerKey
<1> SUFFICES ASSUME IInv, NEW k \in Keys
             PROVE  Cardinality({i \in Live(session) : session[i].key = k}
                      \cup {m \in Makers : make[m].key = k
                                           /\ make[m].at \in {"begun", "bound", "asked"}}) <= 1
  BY DEF OneLoginPerKey
<1> DEFINE made == {i \in Live(session) : session[i].key = k}
           underway == {m \in Makers : make[m].key = k /\ make[m].at \in {"begun", "bound", "asked"}}
<1>1. k # None
  OBVIOUS
<1>2. \A m, n \in underway : m = n
  BY <1>1 DEF IInv, ClaimInv, MakersInv
<1>3. underway # {} => made = {}
  <2>1. ASSUME NEW m \in underway, NEW i \in made PROVE FALSE
    <3>1. claim[k] # None /\ claim[k].session = None
      BY DEF IInv, ClaimInv, ClaimsAttended
    <3>2. PICK n \in Makers : make[n].key = k /\ make[n].at = "made"
      BY <3>1 DEF IInv, ClaimInv, KeyInv, Live
    <3> QED BY <1>1, <3>2 DEF IInv, ClaimInv, MakersInv
  <2> QED BY <2>1
<1>4. \A i, j \in made : i = j
  <2> SUFFICES ASSUME NEW i \in made, NEW j \in made PROVE i = j
    OBVIOUS
  <2>1. CASE claim[k].session = None
    <3>1. PICK m \in Makers : make[m].key = k /\ make[m].made = i
      BY <2>1 DEF IInv, ClaimInv, KeyInv, Live
    <3>2. PICK n \in Makers : make[n].key = k /\ make[n].made = j
      BY <2>1 DEF IInv, ClaimInv, KeyInv, Live
    <3> QED BY <1>1, <3>1, <3>2 DEF IInv, ClaimInv, MakersInv
  <2>2. CASE claim[k].session # None
    BY <2>2 DEF IInv, ClaimInv, KeyInv, Live
  <2> QED BY <2>1, <2>2
<1>5. \A x, y \in made \cup underway : x = y
  BY <1>2, <1>3, <1>4
<1> HIDE DEF made, underway
<1>6. Cardinality(made \cup underway) <= 1
  BY <1>5, LoneElement
<1> QED BY <1>6 DEF made, underway

\* A retry with a key finds the one login of it, made or on its way.
THEOREM OneLoginForAKey == Spec => []OneLoginPerKey
BY Inductive, LoneLogin, PTL

StaysEnded(i) ==
  /\ session[i] # None /\ session[i].status \in Ended /\ session'[i] # None
       => session'[i].status = session[i].status
  /\ i \in accounts' \ accounts => session[i] # None /\ session[i].status = "processing"

LEMMA EndedStep == IInv /\ [Next]_vars => \A i \in Ids : StaysEnded(i)
<1> SUFFICES ASSUME TypeOK, SessionInv, [Next]_vars, NEW i \in Ids PROVE StaysEnded(i)
  BY DEF IInv
<1>1. ASSUME SessionsLast, accounts' = accounts PROVE StaysEnded(i)
  BY <1>1 DEF StaysEnded, SessionsLast, Lasts, Ended
<1>2. ASSUME NEW m \in Makers,
             \/ \E k \in Keys, f \in Flows : BeginKeyed(m, k, f)
             \/ \E f \in Flows : BeginUnkeyed(m, f)
             \/ MakerStep(m)
      PROVE  StaysEnded(i)
  <2>1. ASSUME NEW j \in Ids, Insert(m, j) PROVE StaysEnded(i)
    <3>1. session[j] = None /\ accounts' = accounts
      BY <2>1 DEF Insert, SessionInv, SpentInv
    <3>2. i # j => Lasts(session'[i], session[i])
      BY <2>1, PrunedFacts DEF Insert, PruneThen
    <3> QED BY <3>1, <3>2 DEF StaysEnded, Lasts, Ended
  <2>2. CASE ~\E j \in Ids : Insert(m, j)
    <3>1. accounts' = accounts
      BY <1>2, <2>2 DEF BeginKeyed, BeginUnkeyed, MakerStep, Bind, AskDevice, Fails, InsertRefused,
                        Settle
    <3> QED BY <1>1, <1>2, <2>2, <3>1, MakerLast DEF MakerStep
  <2> QED BY <2>1, <2>2
<1>3. CASE Look \/ \E j \in Ids : LookLate(j) \/ Cancel(j)
  <2>1. accounts' = accounts
    BY <1>3 DEF Look, LookLate, Cancel
  <2> QED BY <1>1, <1>3, <2>1, LookLast
<1>4. ASSUME NEW j \in Ids,
             \/ TaskStep(j) \/ Gets(j) \/ Age(j)
             \/ \E status \in {"expired", "cancelled", "failed"} : Ends(j, status)
             \/ \E c \in Callers : Deliver(c, j)
      PROVE  StaysEnded(i)
  <2>1. accounts' = accounts
    BY <1>4 DEF TaskStep, ListenStarts, Notified, Deadline, TimesOut, Gets, Ends, Deliver, Age
  <2> QED BY <1>1, <1>4, <2>1, TaskLast
<1>5. ASSUME NEW a \in Actors, ClaimStep(a) PROVE StaysEnded(i)
  <2> DEFINE j == work[a].on
  <2>1. j \in Ids /\ session \in [Ids -> {None} \cup Session]
    BY <1>5 DEF ClaimStep, Claim, Save, Close, Exchange, SessionInv, WorkInv, TypeOK
  <2>2. CASE Claim(a)
    <3>1. accounts' = accounts
      BY <2>2 DEF Claim
    <3>2. CASE Claimable(j)
      <4>1. Waiting(session, j) /\ Pruned[j] # None
        BY <2>1, <3>2, PrunedFacts DEF Claimable, ClaimableWaiting, Waiting
      <4>2. i # j => session'[i] = Pruned[i]
        BY <2>1, <2>2, <3>2, <4>1, PrunedFacts, EndFacts
        DEF Claim, PruneThen, Taken, TakenForGood, Statuses
      <4> QED BY <3>1, <4>1, <4>2, PrunedFacts DEF StaysEnded, Lasts, Ended, Waiting
    <3>3. CASE ~Claimable(j)
      BY <1>1, <2>2, <3>1, <3>3, PrunedLast DEF Claim, PruneThen
    <3> QED BY <3>2, <3>3
  <2>3. CASE Save(a)
    <3>1. session' = session /\ accounts' \subseteq accounts \cup {j}
      BY <2>3 DEF Save
    <3>2. Processing(session, j)
      BY <2>3 DEF Save, SessionInv, HeldInv, Holding
    <3> QED BY <3>1, <3>2 DEF StaysEnded, Processing
  <2>4. CASE Close(a)
    <3>1. Processing(session, j)
      BY <2>4 DEF Close, SessionInv, HeldInv, Holding
    <3>2. accounts' = accounts /\ (i # j => session'[i] = session[i])
      BY <2>1, <2>4 DEF Close, End
    <3> QED BY <3>1, <3>2 DEF StaysEnded, Processing, Ended
  <2>5. ASSUME NEW stage \in {"granted", "refused"}, NEW spent \in BOOLEAN,
               Exchange(a, stage, spent)
        PROVE  StaysEnded(i)
    BY <1>1, <2>5, PrunedLast DEF Exchange, PruneThen
  <2> QED BY <1>5, <2>2, <2>3, <2>4, <2>5 DEF ClaimStep
<1>6. CASE UNCHANGED vars
  BY <1>6 DEF vars, StaysEnded
<1> QED BY <1>2, <1>3, <1>4, <1>5, <1>6 DEF Next

\* An ended session stays as it ended, and only a session that was claimed while it
\* waited saves an account: nobody who was told of a cancellation finds one.
THEOREM EndedSessionsStay == Spec => EndedStays
<1>1. IInv /\ [Next]_vars =>
        [\A i \in Ids :
           /\ session[i] # None /\ session[i].status \in Ended /\ session'[i] # None
                => session'[i].status = session[i].status
           /\ i \in accounts' \ accounts => session[i] # None /\ session[i].status = "processing"]_vars
  BY EndedStep DEF StaysEnded
<1> QED BY <1>1, Inductive, PTL DEF Spec, EndedStays

==============================================================================
