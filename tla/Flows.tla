------------------------------- MODULE Flows -------------------------------
(***************************************************************************)
(* One fetch of a provider, as a function of the replies so far.            *)
(*                                                                         *)
(* A fetch asks for one thing after another: a key of the environment, a    *)
(* native credential, an HTTP request.  What it has been answered is a      *)
(* function r from the names of those steps to replies, and an adapter is   *)
(* an operator of r whose outcome is the next question (asks has it, or     *)
(* none), an error, or what it shows.  A reply has an error or none, a      *)
(* marker of the case it is (says), the lanes it carries (wire), the account *)
(* it is of and those that a program would describe in the same way (like). *)
(***************************************************************************)
EXTENDS Quotas, Sequences

CONSTANTS None

(* The step's name, the account whose credential the request carries (Self  *)
(* for the environment, Login for whoever is logged in to the provider's    *)
(* own program), the lanes the reply may have with the fields read of each, *)
(* the cases of it that are told apart, and how it may fail.                *)
Question(s, of, lanes, says, fails) ==
  [step |-> s, of |-> of, lanes |-> lanes, says |-> says, fails |-> fails]

Self == "self"
Login == "login"
NoLanes == <<>>

(* The bodies of http::json: what each end of a request is to the adapter.  *)
(* A Retry-After of at most an hour is waited for, and then the request may *)
(* be made again.                                                           *)
HttpEnds == [unsent |-> "Transient", slow |-> "Timeout", denied |-> "Authentication",
             limited |-> "RateLimited", waited |-> "Transient", failing |-> "Transient",
             other |-> "Unavailable", oversized |-> "InvalidData", garbled |-> "InvalidData"]

HttpErrors == {HttpEnds[e] : e \in DOMAIN HttpEnds}

-----------------------------------------------------------------------------
(* Outcomes.                                                               *)

Nothing == [asks |-> {}, error |-> None, shows |-> {}, told |-> {}, account |-> None]

Asks(q) == [Nothing EXCEPT !.asks = {q}]
Fails(e) == [Nothing EXCEPT !.error = e]
Shows(w) == [Nothing EXCEPT !.shows = {w}]
Notes(d, e) == [Nothing EXCEPT !.told = {[source |-> d, code |-> e]}]

Open(o) == o.asks # {} \/ o.error # None

(* One after the other, as `?` does: the second is not begun when the first *)
(* failed.                                                                  *)
o ++ p ==
  IF Open(o) THEN o
  ELSE IF Open(p) THEN p
  ELSE [Nothing EXCEPT !.shows = o.shows \cup p.shows, !.told = o.told \cup p.told]

(* Both, as tokio::join! does: the first error counts once both are in. *)
Join(o, p) == IF o.asks # {} THEN o ELSE IF p.asks # {} THEN p ELSE o ++ p

(* A part that may fail without failing the rest, silently or noted. *)
Optional(o) == IF o.error # None THEN Nothing ELSE o
Noted(o, d) == IF o.error # None THEN Notes(d, o.error) ELSE o

(* Another way when the first failed with one of these errors. *)
Instead(o, errors, p) == IF o.error \in errors THEN p ELSE o

OrElse(o, e) == IF ~Open(o) /\ o.shows = {} THEN Fails(e) ELSE o

Require(condition, e, o) == IF condition THEN o ELSE Fails(e)
Valid(condition, o) == Require(condition, "InvalidData", o)
When(condition, o) == IF condition THEN o ELSE Nothing

-----------------------------------------------------------------------------
(* Questions.                                                              *)

Step(r, q, o) ==
  IF q.step \notin DOMAIN r THEN Asks(q)
  ELSE IF r[q.step].error # None THEN Fails(r[q.step].error) ELSE o

(* An HTTP request made with the credential of an account. *)
Request(r, s, of, lanes, says, o) == Step(r, Question(s, of, lanes, says, HttpErrors), o)

(* The variable of the environment that holds a key: missing, or blank,     *)
(* oversized or with control characters, is no authentication.              *)
Key(r, s, o) ==
  Step(r, Question(s, Self, NoLanes, {"ok", "missing", "malformed"}, {}),
       Require(r[s].says = "ok", "Authentication", o))

(* A setting of the environment and the cases of it. *)
Setting(r, s, says, o) == Step(r, Question(s, Self, NoLanes, says, {}), o)

(* A program of this machine that is run and read, as whoever is logged in. *)
ProcessErrors == {"Unavailable", "InvalidData", "Internal"}

Run(r, s, says, o) == Step(r, Question(s, Login, NoLanes, says, ProcessErrors), o)

(* A file, database or keychain entry of the provider's own program. *)
NativeErrors == {"Authentication", "CredentialStorage", "Internal"}

Native(r, s, fails, o) ==
  Step(r, Question(s, Login, NoLanes, {"ok", "missing"}, fails),
       Require(r[s].says = "ok", "Authentication", o))

(* A credential was found, and whose it is; what is done with it.          *)
Having(of) == [Nothing EXCEPT !.account = of]
Using(credential, o) == IF Open(credential) THEN credential ELSE o

(* A token of the environment is authoritative: a malformed one is refused,  *)
(* and the native login is looked at only when there is none.               *)
Explicit(r, native) ==
  Setting(r, "token", {"ok", "none", "malformed"},
    IF r.token.says = "none" THEN native
    ELSE Require(r.token.says = "ok", "Authentication", Having(r.token.of)))

(* The first native source that has a credential; when none has, the last    *)
(* error that is not one of those passed over.                              *)
FirstOf(r, sources, fails, passed) ==
  LET read == {i \in DOMAIN sources : sources[i] \in DOMAIN r}
      failed == {i \in read : r[sources[i]].error # None}
      found == {i \in read \ failed : r[sources[i]].says = "ok"}
      kept == {i \in failed : r[sources[i]].error \notin passed}
      last == CHOOSE i \in kept : \A j \in kept : j <= i
  IN  IF found # {} THEN Having(r[sources[CHOOSE i \in found : TRUE]].of)
      ELSE IF Cardinality(read) < Len(sources)
      THEN Asks(Question(sources[Cardinality(read) + 1], Login, NoLanes, {"ok", "missing"}, fails))
      ELSE Fails(IF kept = {} THEN "Authentication" ELSE r[sources[last]].error)

-----------------------------------------------------------------------------
(* Lanes.                                                                  *)

(* A lane the reply has not has no fields; one is read when no field is Bad. *)
Wire(reply, lane) ==
  IF lane \in DOMAIN reply.wire THEN reply.wire[lane] ELSE [f \in Fields |-> Absent]
Sound(w) == \A f \in Fields : w[f] # Bad

(* common::window over numbers the adapter has worked out. *)
Window(reply, lane, used, limit, left) ==
  Valid(Coherent(limit, left), Shows(Measured(reply, lane, used, limit, left)))

(* A lane taken as it is: any of its fields may be missing. *)
Plain(reply, lane) ==
  LET w == Wire(reply, lane)
  IN  Valid(Sound(w), Window(reply, lane, w.used, w.limit, w.left))

Empty(w) == \A f \in Fields : w[f] = Absent

(* One that may not be there, and one whose fields must all be. *)
MayHave(reply, lane, o) == When(~Empty(Wire(reply, lane)), o)
Needs(reply, lane, fields, o) == Valid(\A f \in fields : Given(Wire(reply, lane)[f]), o)

Must(reply, lane, fields) == Needs(reply, lane, fields, Plain(reply, lane))
May(reply, lane) == MayHave(reply, lane, Plain(reply, lane))

(* One that is shown when it says what was used or what is left. *)
Amounts(reply, lane) ==
  LET w == Wire(reply, lane)
  IN  Valid(Sound(w), When(w.used # Absent \/ w.left # Absent, Plain(reply, lane)))

(* A percentage that must be there, shown as used of a hundred. *)
OfHundred(reply, lane) ==
  LET w == Wire(reply, lane)
  IN  Needs(reply, lane, {"spent"},
        Valid(w.spent <= Whole, Window(reply, lane, w.spent, Whole, Absent)))

(* The quota of a window is a percentage of the reply. *)
Percent(reply, lane, quota, limit) ==
  Shows([Measured(reply, lane, Absent, limit, Absent) EXCEPT !.quota = quota])

(* A percentage of the quota: more than the whole is refused. *)
Spent(reply, lane) ==
  LET w == Wire(reply, lane)
  IN  Valid(Sound(w) /\ (w.spent # Absent => w.spent <= Whole),
            Percent(reply, lane, FromUsed(w.spent), Absent))

(* Of the groups of one thing the one with the least left is shown. *)
LowestGroup(reply, groups) ==
  LET over(g) == Wire(reply, g).over
      known == {g \in groups : over(g) # Absent}
  IN  Valid(\A g \in known : over(g) # Bad,
        Valid(\A g \in known : over(g) <= Whole,
          IF known = {} THEN Nothing
          ELSE LET g == CHOOSE g \in known : \A h \in known : over(g) <= over(h)
               IN  Window(reply, g, Whole - over(g), Whole, over(g))))

(* common::usage: nothing to show, or nothing known of what is shown, is no *)
(* usage; and it is that of the account whose credential was used.          *)
Owned(of, o) == IF Open(o) THEN o ELSE [o EXCEPT !.account = of]

Usage(of, o) == IF Open(o) THEN o ELSE Valid(\E w \in o.shows : Tells(w), Owned(of, o))

Keyed(r, o) == Key(r, "key", Usage(r["key"].of, o))
Get(r, s, lanes, o) == Request(r, s, r["key"].of, lanes, {"ok"}, o)
GetCase(r, s, lanes, says, o) == Request(r, s, r["key"].of, lanes, says, o)

(* Field sets of lanes. *)
U == {"used"}
L == {"left"}
UL == {"used", "limit"}
LL == {"limit", "left"}
ULL == {"used", "limit", "left"}
P == {"spent"}
=============================================================================
