---------------------------- MODULE CollectionProofs ----------------------------
(****************************************************************************)
(* One collection, for any accounts, worlds and bounds: a refresh token is    *)
(* sent once, what ends a task is a usage or an error of those the report     *)
(* knows, all of a usage is of one account and of the right one, its windows  *)
(* say of a quota only what a reply says, and no account is lost or shown     *)
(* twice.  The first three need to know whom the adapters ask and whose       *)
(* replies they show; that is shown operator by operator, and then provider   *)
(* by provider, for a context: whom a fetch may ask what, and whose windows   *)
(* it may show.  The fourth is shown the same way, for the wires of the       *)
(* replies so far.                                                            *)
(****************************************************************************)
EXTENDS Collection, FiniteSetTheorems, TLAPS

----------------------------------------------------------------------------
(* Steps.                                                                   *)

\* The steps of a refresh, those with what is saved, those that look for a credential, and
\* those that are asked whoever it is of.  No window is made of what these are answered, but
\* for what Amp's program says.
Refreshing == {"latest", "fence", "rotate", "installed"}
Vaulted == Refreshing \cup {"read", "verify", "resolve", "resolve_again"}
Sources == {"url", "token", "keychain", "file", "apps", "hosts", "gh_hosts", "state", "az", "az_token",
            "adc", "refresh", "secrets", "program"}
Settings == {"region", "team", "base", "project", "organization", "access_key", "account", "resource",
             "other_project", "gcloud", "daily_keychain", "daily_again", "prod_keychain", "prod_again"}
Prelims == Vaulted \cup Sources \cup Settings

----------------------------------------------------------------------------
(* Outcomes.                                                                *)

\* Whose credential a request may be made with.
Asked == Accounts \cup {Self, Login}

\* A question that may be asked in a context: what is asked of no prelims is asked of its askers.
Proper(ctx, q) ==
  /\ q.step \notin ctx.never
  /\ q.of \in Asked
  /\ q.fails \subseteq ctx.errors
  /\ q.step \notin Prelims => q.of \in ctx.askers
  /\ q.step = "token" => q.of = Self

\* An outcome that asks nothing else, fails with errors of the context and shows windows of
\* its accounts.
Sane(ctx, o) ==
  /\ {"asks", "error", "shows", "account", "told"} \subseteq DOMAIN o
  /\ \A q \in o.asks : Proper(ctx, q)
  /\ o.error # None => o.error \in ctx.errors
  /\ \A d \in o.told : d.code \in ctx.errors
  /\ \A w \in o.shows : w.of \in ctx.accounts

\* One that is of one of some accounts, once it is a usage.
Owns(A, o) == ~Open(o) => o.account \in A
Done(ctx, o) == Sane(ctx, o) /\ Owns(ctx.accounts, o)

\* What replies may be, which of them are no failures, and those that are of some accounts.
Answered(ctx, r) ==
  \A s \in DOMAIN r : r[s].of \in Accounts /\ (r[s].error = None \/ r[s].error \in ctx.errors)
Has(r, s) == s \in DOMAIN r /\ r[s].error = None
Ours(A, r) == \A s \in DOMAIN r : s \notin Prelims => r[s].of \in A

AllErrors == ProviderErrors \cup DOMAIN AccountEnds

\* A context: how its requests may fail, whose windows are shown, whom is asked, and what not.
Context(ctx) ==
  /\ ProviderErrors \subseteq ctx.errors /\ ctx.errors \subseteq AllErrors
  /\ ctx.accounts \subseteq Accounts
  /\ ctx.accounts \subseteq ctx.askers /\ ctx.askers \subseteq Asked
  /\ Refreshing \subseteq ctx.never

\* One of an adapter.
Usual(ctx) == Context(ctx) /\ ctx.never \subseteq Vaulted \cup Sources

\* The errors that are named.
LEMMA KnownErrors ==
  /\ None \notin AllErrors /\ ProviderErrors \subseteq AllErrors
  /\ HttpErrors \subseteq ProviderErrors /\ QuotaErrors \subseteq ProviderErrors
  /\ ProcessErrors \subseteq ProviderErrors /\ NativeErrors \subseteq ProviderErrors
  /\ \A e \in {"Transient", "Timeout", "Authentication", "RateLimited", "Unavailable",
               "InvalidData", "QuotaUnavailable", "Internal", "Cancelled",
               "CredentialStorage", "LocalCredentialStorage", "OwnerRefreshRequired",
               "SourceDisabled"} : e \in ProviderErrors /\ e # None
<1>1. HttpErrors = {"Transient", "Timeout", "Authentication", "RateLimited", "Unavailable", "InvalidData"}
  <2>1. DOMAIN HttpEnds = {"unsent", "slow", "denied", "limited", "waited", "failing", "other",
                           "oversized", "garbled"}
    BY DEF HttpEnds
  <2> QED BY <2>1 DEF HttpErrors, HttpEnds
<1>2. None \notin AllErrors /\ ProviderErrors \subseteq AllErrors
  BY NoneIsNothing DEF AllErrors
<1>3. \A e \in {"Transient", "Timeout", "Authentication", "RateLimited", "Unavailable",
                "InvalidData", "QuotaUnavailable", "Internal", "Cancelled",
                "CredentialStorage", "LocalCredentialStorage", "OwnerRefreshRequired",
                "SourceDisabled"} : e \in ProviderErrors
  BY <1>1 DEF ProviderErrors, QuotaErrors
<1>4. /\ HttpErrors \subseteq ProviderErrors /\ QuotaErrors \subseteq ProviderErrors
      /\ ProcessErrors \subseteq ProviderErrors /\ NativeErrors \subseteq ProviderErrors
  BY <1>1 DEF ProviderErrors, QuotaErrors, ProcessErrors, NativeErrors
<1> QED BY <1>2, <1>3, <1>4

LEMMA UsualErrors ==
  ASSUME NEW ctx, Context(ctx)
  PROVE  /\ None \notin ctx.errors
         /\ HttpErrors \subseteq ctx.errors /\ QuotaErrors \subseteq ctx.errors
         /\ ProcessErrors \subseteq ctx.errors /\ NativeErrors \subseteq ctx.errors
         /\ \A e \in {"Transient", "Timeout", "Authentication", "RateLimited", "Unavailable",
                      "InvalidData", "QuotaUnavailable", "Internal", "Cancelled",
                      "CredentialStorage", "LocalCredentialStorage", "OwnerRefreshRequired",
                      "SourceDisabled"} : e \in ctx.errors
         /\ ctx.accounts \subseteq Asked /\ Self \in Asked /\ Login \in Asked
<1>1. ctx.accounts \subseteq Asked /\ Self \in Asked /\ Login \in Asked
  BY DEF Context, Asked
<1>2. ProviderErrors \subseteq ctx.errors /\ ctx.errors \subseteq AllErrors
  BY DEF Context
<1> QED BY <1>1, <1>2, KnownErrors

\* The outcomes that have one thing to say, field by field.
IsOutcome(o, asks, error, shows, told, account) ==
  /\ DOMAIN o = {"asks", "error", "shows", "told", "account"}
  /\ o.asks = asks /\ o.error = error /\ o.shows = shows /\ o.told = told /\ o.account = account

LEMMA SimpleOutcomes ==
  /\ IsOutcome(Nothing, {}, None, {}, {}, None)
  /\ \A e : IsOutcome(Fails(e), {}, e, {}, {}, None)
  /\ \A q : IsOutcome(Asks(q), {q}, None, {}, {}, None)
  /\ \A w : IsOutcome(Shows(w), {}, None, {w}, {}, None)
  /\ \A a : IsOutcome(Having(a), {}, None, {}, {}, a)
  /\ \A d, e : IsOutcome(Notes(d, e), {}, None, {}, {[source |-> d, code |-> e]}, None)
  /\ \A shows, told : IsOutcome([Nothing EXCEPT !.shows = shows, !.told = told], {}, None, shows, told, None)
BY DEF IsOutcome, Fails, Asks, Shows, Having, Notes, Nothing

LEMMA OutcomesSane ==
  ASSUME NEW ctx, Context(ctx)
  PROVE  /\ Sane(ctx, Nothing)
         /\ \A e \in ctx.errors : Done(ctx, Fails(e))
         /\ \A w : w.of \in ctx.accounts => Sane(ctx, Shows(w))
         /\ \A d : \A e \in ctx.errors : Sane(ctx, Notes(d, e))
         /\ \A a : Sane(ctx, Having(a))
         /\ \A a \in ctx.accounts : Done(ctx, Having(a))
         /\ \A o, p : Sane(ctx, o) /\ Sane(ctx, p) => Sane(ctx, o ++ p)
         /\ \A o, p : Sane(ctx, o) /\ Sane(ctx, p) => Sane(ctx, Join(o, p))
         /\ \A o : Sane(ctx, o) => Sane(ctx, Optional(o))
         /\ \A o, d : Sane(ctx, o) => Sane(ctx, Noted(o, d))
         /\ \A o, F, p : Sane(ctx, o) /\ Sane(ctx, p) => Sane(ctx, Instead(o, F, p))
<1>1. Sane(ctx, Nothing)
  BY SimpleOutcomes DEF Sane, IsOutcome
<1>2. \A e \in ctx.errors : Done(ctx, Fails(e))
  BY SimpleOutcomes, UsualErrors DEF Done, Owns, Sane, Open, IsOutcome
<1>3. (\A w : w.of \in ctx.accounts => Sane(ctx, Shows(w))) /\ \A a : Sane(ctx, Having(a))
  BY SimpleOutcomes DEF Sane, IsOutcome
<1>4. \A d : \A e \in ctx.errors : Sane(ctx, Notes(d, e))
  BY SimpleOutcomes DEF Sane, IsOutcome
<1>5. \A a \in ctx.accounts : Done(ctx, Having(a))
  BY <1>3, SimpleOutcomes DEF Done, Owns, IsOutcome
<1>6. ASSUME NEW o, NEW p, Sane(ctx, o), Sane(ctx, p) PROVE Sane(ctx, o ++ p)
  <2>1. IsOutcome([Nothing EXCEPT !.shows = o.shows \cup p.shows, !.told = o.told \cup p.told],
             {}, None, o.shows \cup p.shows, o.told \cup p.told, None)
    BY SimpleOutcomes
  <2> QED BY <1>6, <2>1 DEF Sane, IsOutcome, ++
<1>7. ASSUME NEW o, NEW p, Sane(ctx, o), Sane(ctx, p) PROVE Sane(ctx, Join(o, p))
  BY <1>6, <1>7 DEF Join
<1>8. ASSUME NEW o, NEW d, Sane(ctx, o) PROVE Sane(ctx, Optional(o)) /\ Sane(ctx, Noted(o, d))
  BY <1>1, <1>4, <1>8 DEF Optional, Noted, Sane
<1>9. \A o, F, p : Sane(ctx, o) /\ Sane(ctx, p) => Sane(ctx, Instead(o, F, p))
  BY DEF Instead
<1> QED BY <1>1, <1>2, <1>3, <1>4, <1>5, <1>6, <1>7, <1>8, <1>9

\* Ways to go on.
LEMMA WaysSane ==
  ASSUME NEW ctx, Context(ctx)
  PROVE  /\ \A c, o : \A e \in ctx.errors : Sane(ctx, o) => Sane(ctx, Require(c, e, o))
         /\ \A c, o : \A e \in ctx.errors : Done(ctx, o) => Done(ctx, Require(c, e, o))
         /\ \A c, o : Sane(ctx, o) => Sane(ctx, Valid(c, o))
         /\ \A c, o : Done(ctx, o) => Done(ctx, Valid(c, o))
         /\ \A c, o : Sane(ctx, o) => Sane(ctx, When(c, o))
         /\ \A o : \A e \in ctx.errors : Sane(ctx, o) => Sane(ctx, OrElse(o, e))
         /\ \A o, of : Sane(ctx, o) => Sane(ctx, Owned(of, o))
         /\ \A o : \A of \in ctx.accounts : Sane(ctx, o) => Done(ctx, Owned(of, o))
         /\ \A o, of : Sane(ctx, o) => Sane(ctx, Usage(of, o))
         /\ \A o : \A of \in ctx.accounts : Sane(ctx, o) => Done(ctx, Usage(of, o))
         /\ \A c, o : Sane(ctx, c) /\ (~Open(c) => Sane(ctx, o)) => Sane(ctx, Using(c, o))
         /\ \A c, o : Sane(ctx, c) /\ (~Open(c) => Done(ctx, o)) => Done(ctx, Using(c, o))
<1>1. \A e \in ctx.errors : Sane(ctx, Fails(e)) /\ Done(ctx, Fails(e))
  BY OutcomesSane DEF Done
<1>2. "InvalidData" \in ctx.errors
  BY UsualErrors
<1>3. /\ \A c, o : \A e \in ctx.errors : Sane(ctx, o) => Sane(ctx, Require(c, e, o))
      /\ \A c, o : \A e \in ctx.errors : Done(ctx, o) => Done(ctx, Require(c, e, o))
  BY <1>1 DEF Require
<1>4. \A c, o : (Sane(ctx, o) => Sane(ctx, Valid(c, o))) /\ (Done(ctx, o) => Done(ctx, Valid(c, o)))
  BY <1>2, <1>3 DEF Valid
<1>5. \A c, o : Sane(ctx, o) => Sane(ctx, When(c, o))
  BY OutcomesSane DEF When
<1>6. \A o : \A e \in ctx.errors : Sane(ctx, o) => Sane(ctx, OrElse(o, e))
  BY <1>1 DEF OrElse
<1>7. ASSUME NEW o, NEW of, Sane(ctx, o)
      PROVE  /\ Sane(ctx, Owned(of, o)) /\ Sane(ctx, Usage(of, o))
             /\ of \in ctx.accounts => Done(ctx, Owned(of, o)) /\ Done(ctx, Usage(of, o))
  <2>1. CASE Open(o)
    <3>1. Owned(of, o) = o /\ Usage(of, o) = o
      BY <2>1 DEF Owned, Usage
    <3> QED BY <1>7, <2>1, <3>1 DEF Done, Owns
  <2>2. CASE ~Open(o)
    <3>1. Owned(of, o) = [o EXCEPT !.account = of]
      BY <2>2 DEF Owned
    <3>2. /\ DOMAIN Owned(of, o) = DOMAIN o
          /\ Owned(of, o).asks = o.asks /\ Owned(of, o).error = o.error
          /\ Owned(of, o).told = o.told /\ Owned(of, o).account = of
          /\ Owned(of, o).shows = o.shows
      BY <1>7, <3>1 DEF Sane
    <3>3. Sane(ctx, Owned(of, o)) /\ (of \in ctx.accounts => Done(ctx, Owned(of, o)))
      BY <1>7, <3>2 DEF Sane, Done, Owns
    <3> QED BY <1>4, <2>2, <3>3 DEF Usage
  <2> QED BY <2>1, <2>2
<1>8. \A c, o : /\ Sane(ctx, c) /\ (~Open(c) => Sane(ctx, o)) => Sane(ctx, Using(c, o))
                /\ Sane(ctx, c) /\ (~Open(c) => Done(ctx, o)) => Done(ctx, Using(c, o))
  BY DEF Using, Done, Owns
<1> QED BY <1>3, <1>4, <1>5, <1>6, <1>7, <1>8

----------------------------------------------------------------------------
(* Questions.                                                               *)

LEMMA AskedSane ==
  ASSUME NEW ctx, NEW q, Proper(ctx, q)
  PROVE  Sane(ctx, Asks(q)) /\ Done(ctx, Asks(q))
<1>1. IsOutcome(Asks(q), {q}, None, {}, {}, None)
  BY SimpleOutcomes
<1>2. Sane(ctx, Asks(q))
  BY <1>1 DEF Sane, IsOutcome
<1>3. Open(Asks(q))
  BY <1>1 DEF Open, IsOutcome
<1> QED BY <1>2, <1>3 DEF Done, Owns

\* Something has been asked and answered when a step is neither a question nor an error.
LEMMA StepsEnd ==
  \A r, s, of, lanes, says, fails, o :
    LET step == Step(r, Question(s, of, lanes, says, fails), o)
    IN  ~Open(step) => Has(r, s) /\ step = o
<1> TAKE r, s, of, lanes, says, fails, o
<1> DEFINE q == Question(s, of, lanes, says, fails)
<1>1. q.step = s
  BY DEF Question
<1>2. Open(Asks(q)) /\ \A e : e # None => Open(Fails(e))
  BY SimpleOutcomes DEF Open, IsOutcome
<1> HIDE DEF q
<1> QED BY <1>1, <1>2 DEF Step, Has, q

LEMMA StepsSane ==
  ASSUME NEW ctx, Context(ctx), NEW r, Answered(ctx, r)
  PROVE  /\ \A q, o : Proper(ctx, q) /\ (Has(r, q.step) => Sane(ctx, o)) => Sane(ctx, Step(r, q, o))
         /\ \A q, o : Proper(ctx, q) /\ (Has(r, q.step) => Done(ctx, o)) => Done(ctx, Step(r, q, o))
<1>1. \A s \in DOMAIN r : r[s].error # None => Sane(ctx, Fails(r[s].error)) /\ Done(ctx, Fails(r[s].error))
  BY OutcomesSane DEF Answered, Done
<1> QED BY <1>1, AskedSane DEF Step, Has

\* The fields of a question.
LEMMA QuestionFields ==
  \A s, of, lanes, says, fails :
    /\ Question(s, of, lanes, says, fails).step = s
    /\ Question(s, of, lanes, says, fails).of = of
    /\ Question(s, of, lanes, says, fails).fails = fails
BY DEF Question

\* A step that may be asked in a context with one credential or another.
MayAsk(ctx, s, of) ==
  /\ s \notin ctx.never /\ of \in Asked
  /\ s \notin Prelims => of \in ctx.askers
  /\ s = "token" => of = Self

LEMMA RequestsSane ==
  ASSUME NEW ctx, Context(ctx), NEW r, Answered(ctx, r)
  PROVE  /\ \A s, of, lanes, says, fails, o :
              MayAsk(ctx, s, of) /\ fails \subseteq ctx.errors /\ (Has(r, s) => Sane(ctx, o))
                => Sane(ctx, Step(r, Question(s, of, lanes, says, fails), o))
         /\ \A s, of, lanes, says, fails, o :
              MayAsk(ctx, s, of) /\ fails \subseteq ctx.errors /\ (Has(r, s) => Done(ctx, o))
                => Done(ctx, Step(r, Question(s, of, lanes, says, fails), o))
         /\ \A s, of, lanes, says, o :
              MayAsk(ctx, s, of) /\ (Has(r, s) => Sane(ctx, o)) => Sane(ctx, Request(r, s, of, lanes, says, o))
         /\ \A s, of, lanes, says, o :
              MayAsk(ctx, s, of) /\ (Has(r, s) => Done(ctx, o)) => Done(ctx, Request(r, s, of, lanes, says, o))
         /\ \A s, says, o :
              MayAsk(ctx, s, Login) /\ (Has(r, s) => Sane(ctx, o)) => Sane(ctx, Run(r, s, says, o))
         /\ \A s, says, o :
              MayAsk(ctx, s, Login) /\ (Has(r, s) => Done(ctx, o)) => Done(ctx, Run(r, s, says, o))
         /\ \A s, fails, o :
              MayAsk(ctx, s, Login) /\ fails \subseteq ctx.errors /\ (Has(r, s) => Sane(ctx, o))
                => Sane(ctx, Native(r, s, fails, o))
         /\ \A s, fails, o :
              MayAsk(ctx, s, Login) /\ fails \subseteq ctx.errors /\ (Has(r, s) => Done(ctx, o))
                => Done(ctx, Native(r, s, fails, o))
         /\ \A s, says, o :
              MayAsk(ctx, s, Self) /\ (Has(r, s) => Sane(ctx, o)) => Sane(ctx, Setting(r, s, says, o))
         /\ \A s, says, o :
              MayAsk(ctx, s, Self) /\ (Has(r, s) => Done(ctx, o)) => Done(ctx, Setting(r, s, says, o))
<1>1. /\ HttpErrors \subseteq ctx.errors /\ ProcessErrors \subseteq ctx.errors
      /\ "Authentication" \in ctx.errors
  BY UsualErrors
<1>2. \A s, of, lanes, says, fails :
        MayAsk(ctx, s, of) /\ fails \subseteq ctx.errors => Proper(ctx, Question(s, of, lanes, says, fails))
  BY QuestionFields DEF MayAsk, Proper
<1>3. \A s, of, lanes, says, fails, o :
        MayAsk(ctx, s, of) /\ fails \subseteq ctx.errors =>
          /\ (Has(r, s) => Sane(ctx, o)) => Sane(ctx, Step(r, Question(s, of, lanes, says, fails), o))
          /\ (Has(r, s) => Done(ctx, o)) => Done(ctx, Step(r, Question(s, of, lanes, says, fails), o))
  BY <1>2, StepsSane, QuestionFields
<1>4. \A s, of, lanes, says, o :
        MayAsk(ctx, s, of) =>
          /\ (Has(r, s) => Sane(ctx, o)) => Sane(ctx, Request(r, s, of, lanes, says, o))
          /\ (Has(r, s) => Done(ctx, o)) => Done(ctx, Request(r, s, of, lanes, says, o))
  BY <1>1, <1>3 DEF Request
<1>5. \A s, says, o :
        MayAsk(ctx, s, Login) =>
          /\ (Has(r, s) => Sane(ctx, o)) => Sane(ctx, Run(r, s, says, o))
          /\ (Has(r, s) => Done(ctx, o)) => Done(ctx, Run(r, s, says, o))
  BY <1>1, <1>3 DEF Run
<1>6. \A s, fails, o :
        MayAsk(ctx, s, Login) /\ fails \subseteq ctx.errors =>
          /\ (Has(r, s) => Sane(ctx, o)) => Sane(ctx, Native(r, s, fails, o))
          /\ (Has(r, s) => Done(ctx, o)) => Done(ctx, Native(r, s, fails, o))
  BY <1>1, <1>3, WaysSane DEF Native
<1>7. \A s, says, o :
        MayAsk(ctx, s, Self) =>
          /\ (Has(r, s) => Sane(ctx, o)) => Sane(ctx, Setting(r, s, says, o))
          /\ (Has(r, s) => Done(ctx, o)) => Done(ctx, Setting(r, s, says, o))
  <2>1. {} \subseteq ctx.errors
    OBVIOUS
  <2> QED BY <1>3, <2>1 DEF Setting
<1> QED BY <1>3, <1>4, <1>5, <1>6, <1>7

\* The same of an adapter: what is no prelim is asked of an asker, and settings of whoever it is.
LEMMA QuestionsSane ==
  ASSUME NEW ctx, Usual(ctx), NEW r, Answered(ctx, r), Ours(ctx.accounts, r)
  PROVE  /\ Context(ctx)
         /\ \A s : Has(r, s) /\ s \notin Prelims => r[s].of \in ctx.accounts
         /\ \A s, lanes, says, fails, o : \A of \in ctx.askers :
              s \notin Prelims /\ fails \subseteq ctx.errors /\ (Has(r, s) => Sane(ctx, o))
                => Sane(ctx, Step(r, Question(s, of, lanes, says, fails), o))
         /\ \A s, lanes, says, fails, o : \A of \in ctx.askers :
              s \notin Prelims /\ fails \subseteq ctx.errors /\ (Has(r, s) => Done(ctx, o))
                => Done(ctx, Step(r, Question(s, of, lanes, says, fails), o))
         /\ \A s, lanes, says, o : \A of \in ctx.askers :
              s \notin Prelims /\ (Has(r, s) => Sane(ctx, o)) => Sane(ctx, Request(r, s, of, lanes, says, o))
         /\ \A s, lanes, says, o : \A of \in ctx.askers :
              s \notin Prelims /\ (Has(r, s) => Done(ctx, o)) => Done(ctx, Request(r, s, of, lanes, says, o))
         /\ \A s, says, o :
              s \in Settings /\ (Has(r, s) => Sane(ctx, o)) => Sane(ctx, Setting(r, s, says, o))
         /\ \A s, says, o :
              s \in Settings /\ (Has(r, s) => Done(ctx, o)) => Done(ctx, Setting(r, s, says, o))
         /\ \A o : Self \in ctx.askers /\ (Has(r, "key") => Sane(ctx, o)) => Sane(ctx, Key(r, "key", o))
         /\ \A o : Self \in ctx.askers /\ (Has(r, "key") => Done(ctx, o)) => Done(ctx, Key(r, "key", o))
<1>1. Context(ctx)
  BY DEF Usual
<1>2. \A s : Has(r, s) /\ s \notin Prelims => r[s].of \in ctx.accounts
  BY DEF Ours, Has
<1>3. \A s : \A of \in ctx.askers : s \notin Prelims => MayAsk(ctx, s, of)
  BY <1>1 DEF Usual, Context, MayAsk, Prelims, Sources
<1>4. \A s \in Settings : MayAsk(ctx, s, Self)
  BY <1>1, UsualErrors DEF Usual, MayAsk, Prelims, Sources, Settings, Vaulted, Refreshing
<1>5. "Authentication" \in ctx.errors /\ {} \subseteq ctx.errors
  BY <1>1, UsualErrors
<1>6. "key" \notin Prelims
  BY DEF Prelims, Sources, Settings, Vaulted, Refreshing
<1>7. ASSUME Self \in ctx.askers, NEW o
      PROVE  /\ (Has(r, "key") => Sane(ctx, o)) => Sane(ctx, Key(r, "key", o))
             /\ (Has(r, "key") => Done(ctx, o)) => Done(ctx, Key(r, "key", o))
  <2>1. MayAsk(ctx, "key", Self)
    BY <1>3, <1>6, <1>7
  <2> QED BY <1>1, <1>5, <2>1, RequestsSane, WaysSane DEF Key
<1>8. /\ \A s, lanes, says, fails, o : \A of \in ctx.askers :
              s \notin Prelims /\ fails \subseteq ctx.errors /\ (Has(r, s) => Sane(ctx, o))
                => Sane(ctx, Step(r, Question(s, of, lanes, says, fails), o))
      /\ \A s, lanes, says, fails, o : \A of \in ctx.askers :
              s \notin Prelims /\ fails \subseteq ctx.errors /\ (Has(r, s) => Done(ctx, o))
                => Done(ctx, Step(r, Question(s, of, lanes, says, fails), o))
  BY <1>1, <1>3, RequestsSane
<1>9. /\ \A s, lanes, says, o : \A of \in ctx.askers :
              s \notin Prelims /\ (Has(r, s) => Sane(ctx, o)) => Sane(ctx, Request(r, s, of, lanes, says, o))
      /\ \A s, lanes, says, o : \A of \in ctx.askers :
              s \notin Prelims /\ (Has(r, s) => Done(ctx, o)) => Done(ctx, Request(r, s, of, lanes, says, o))
  BY <1>1, <1>3, RequestsSane
<1>10. /\ \A s, says, o :
              s \in Settings /\ (Has(r, s) => Sane(ctx, o)) => Sane(ctx, Setting(r, s, says, o))
       /\ \A s, says, o :
              s \in Settings /\ (Has(r, s) => Done(ctx, o)) => Done(ctx, Setting(r, s, says, o))
  BY <1>1, <1>4, RequestsSane
<1> QED BY <1>1, <1>2, <1>7, <1>8, <1>9, <1>10

\* Requests with a key.
LEMMA KeyedSane ==
  ASSUME NEW ctx, Usual(ctx), NEW r, Answered(ctx, r), Ours(ctx.accounts, r), Self \in ctx.askers
  PROVE  /\ Has(r, "key") => r["key"].of \in ctx.accounts
         /\ \A o : (Has(r, "key") => Sane(ctx, o)) => Done(ctx, Keyed(r, o))
         /\ \A s, lanes, o : Has(r, "key") /\ s \notin Prelims /\ (Has(r, s) => Sane(ctx, o))
              => Sane(ctx, Get(r, s, lanes, o))
         /\ \A s, lanes, o : Has(r, "key") /\ s \notin Prelims /\ (Has(r, s) => Done(ctx, o))
              => Done(ctx, Get(r, s, lanes, o))
         /\ \A s, lanes, says, o : Has(r, "key") /\ s \notin Prelims /\ (Has(r, s) => Sane(ctx, o))
              => Sane(ctx, GetCase(r, s, lanes, says, o))
         /\ \A s, lanes, says, o : Has(r, "key") /\ s \notin Prelims /\ (Has(r, s) => Done(ctx, o))
              => Done(ctx, GetCase(r, s, lanes, says, o))
<1>1. Has(r, "key") => r["key"].of \in ctx.accounts /\ r["key"].of \in ctx.askers
  <2>1. "key" \notin Prelims
    BY DEF Prelims, Sources, Settings, Vaulted, Refreshing
  <2> QED BY <2>1, QuestionsSane DEF Usual, Context
<1>2. \A o : (Has(r, "key") => Sane(ctx, o)) => Done(ctx, Keyed(r, o))
  BY <1>1, QuestionsSane, WaysSane DEF Keyed
<1>3. /\ \A s, lanes, o : Has(r, "key") /\ s \notin Prelims =>
           /\ (Has(r, s) => Sane(ctx, o)) => Sane(ctx, Get(r, s, lanes, o))
           /\ (Has(r, s) => Done(ctx, o)) => Done(ctx, Get(r, s, lanes, o))
      /\ \A s, lanes, says, o : Has(r, "key") /\ s \notin Prelims =>
           /\ (Has(r, s) => Sane(ctx, o)) => Sane(ctx, GetCase(r, s, lanes, says, o))
           /\ (Has(r, s) => Done(ctx, o)) => Done(ctx, GetCase(r, s, lanes, says, o))
  BY <1>1, QuestionsSane DEF Get, GetCase
<1> QED BY <1>1, <1>2, <1>3

\* Lanes: a window is of whom the reply is of.
LEMMA LanesSane ==
  ASSUME NEW ctx, Context(ctx)
  PROVE  /\ \A reply, l, used, limit, left, quota : reply.of \in ctx.accounts =>
              /\ Sane(ctx, Shows(Measured(reply, l, used, limit, left)))
              /\ Sane(ctx, Shows([Measured(reply, l, used, limit, left) EXCEPT !.quota = quota]))
         /\ \A reply, l, used, limit, left :
              reply.of \in ctx.accounts => Sane(ctx, Window(reply, l, used, limit, left))
         /\ \A reply, l : reply.of \in ctx.accounts =>
              /\ Sane(ctx, Plain(reply, l)) /\ Sane(ctx, May(reply, l)) /\ Sane(ctx, Amounts(reply, l))
              /\ Sane(ctx, OfHundred(reply, l)) /\ Sane(ctx, Spent(reply, l))
         /\ \A reply, l, fields : reply.of \in ctx.accounts => Sane(ctx, Must(reply, l, fields))
         /\ \A reply, l, o : Sane(ctx, o) => Sane(ctx, MayHave(reply, l, o))
         /\ \A reply, l, fields, o : Sane(ctx, o) => Sane(ctx, Needs(reply, l, fields, o))
         /\ \A reply, l, quota, limit : reply.of \in ctx.accounts => Sane(ctx, Percent(reply, l, quota, limit))
         /\ \A reply, groups : reply.of \in ctx.accounts => Sane(ctx, LowestGroup(reply, groups))
<1>1. \A c, o : (Sane(ctx, o) => Sane(ctx, Valid(c, o))) /\ (Sane(ctx, o) => Sane(ctx, When(c, o)))
  BY WaysSane
<1>a. ASSUME NEW reply, NEW l, NEW used, NEW limit, NEW left, NEW quota, reply.of \in ctx.accounts
      PROVE  /\ Sane(ctx, Shows(Measured(reply, l, used, limit, left)))
             /\ Sane(ctx, Shows([Measured(reply, l, used, limit, left) EXCEPT !.quota = quota]))
  <2> DEFINE w == Measured(reply, l, used, limit, left)
             v == [w EXCEPT !.quota = quota]
  <2>1. w.of = reply.of /\ v.of = reply.of
    BY DEF Measured
  <2> HIDE DEF w, v
  <2>2. Sane(ctx, Shows(w)) /\ Sane(ctx, Shows(v))
    BY <1>a, <2>1, OutcomesSane
  <2> QED BY <2>2 DEF w, v
<1>2. \A reply, l, used, limit, left :
        reply.of \in ctx.accounts => Sane(ctx, Window(reply, l, used, limit, left))
  BY <1>1, <1>a DEF Window
<1>3. \A reply, l, quota, limit : reply.of \in ctx.accounts => Sane(ctx, Percent(reply, l, quota, limit))
  BY <1>a DEF Percent
<1>4. /\ \A reply, l, o : Sane(ctx, o) => Sane(ctx, MayHave(reply, l, o))
      /\ \A reply, l, fields, o : Sane(ctx, o) => Sane(ctx, Needs(reply, l, fields, o))
  BY <1>1 DEF MayHave, Needs
<1>5. \A reply, l : reply.of \in ctx.accounts => Sane(ctx, Plain(reply, l))
  BY <1>1, <1>2 DEF Plain
<1>6. \A reply, l : reply.of \in ctx.accounts => Sane(ctx, May(reply, l)) /\ Sane(ctx, Amounts(reply, l))
  BY <1>1, <1>4, <1>5 DEF May, Amounts
<1>7. \A reply, l, fields : reply.of \in ctx.accounts => Sane(ctx, Must(reply, l, fields))
  BY <1>4, <1>5 DEF Must
<1>8. \A reply, l : reply.of \in ctx.accounts => Sane(ctx, OfHundred(reply, l)) /\ Sane(ctx, Spent(reply, l))
  BY <1>1, <1>2, <1>3, <1>4 DEF OfHundred, Spent
<1>9. \A reply, groups : reply.of \in ctx.accounts => Sane(ctx, LowestGroup(reply, groups))
  <2>1. Sane(ctx, Nothing)
    BY OutcomesSane
  <2> SUFFICES ASSUME NEW reply, NEW groups, reply.of \in ctx.accounts
               PROVE  Sane(ctx, LowestGroup(reply, groups))
    OBVIOUS
  <2> DEFINE over(g) == Wire(reply, g).over
             known == {g \in groups : over(g) # Absent}
             lowest == CHOOSE g \in known : \A h \in known : over(g) <= over(h)
             window == Window(reply, lowest, Whole - over(lowest), Whole, over(lowest))
             shown == IF known = {} THEN Nothing ELSE window
             few == \A g \in known : over(g) <= Whole
             sound == \A g \in known : over(g) # Bad
  <2>2. LowestGroup(reply, groups) = Valid(sound, Valid(few, shown))
    BY DEF LowestGroup
  <2>3. Sane(ctx, window)
    BY <1>2
  <2> HIDE DEF window, sound, few, known
  <2>4. Sane(ctx, shown)
    BY <2>1, <2>3
  <2> HIDE DEF shown
  <2>5. Sane(ctx, Valid(sound, Valid(few, shown)))
    BY <1>1, <2>4
  <2> QED BY <2>2, <2>5
<1>b. /\ \A reply, l, used, limit, left, quota : reply.of \in ctx.accounts =>
           /\ Sane(ctx, Shows(Measured(reply, l, used, limit, left)))
           /\ Sane(ctx, Shows([Measured(reply, l, used, limit, left) EXCEPT !.quota = quota]))
      /\ \A reply, l : reply.of \in ctx.accounts =>
           /\ Sane(ctx, Plain(reply, l)) /\ Sane(ctx, May(reply, l)) /\ Sane(ctx, Amounts(reply, l))
           /\ Sane(ctx, OfHundred(reply, l)) /\ Sane(ctx, Spent(reply, l))
  BY <1>a, <1>5, <1>6, <1>8
<1>c. /\ \A reply, l, used, limit, left :
           reply.of \in ctx.accounts => Sane(ctx, Window(reply, l, used, limit, left))
      /\ \A reply, l, fields : reply.of \in ctx.accounts => Sane(ctx, Must(reply, l, fields))
      /\ \A reply, l, quota, limit : reply.of \in ctx.accounts => Sane(ctx, Percent(reply, l, quota, limit))
      /\ \A reply, groups : reply.of \in ctx.accounts => Sane(ctx, LowestGroup(reply, groups))
  BY <1>2, <1>3, <1>7, <1>9
<1> QED BY <1>4, <1>b, <1>c

\* What key_api.rs does around its requests, and the pages of a ledger.
LEMMA HelpersSane ==
  ASSUME NEW ctx, Usual(ctx), NEW r, Answered(ctx, r), Ours(ctx.accounts, r), Self \in ctx.askers
  PROVE  /\ \A o, of : Sane(ctx, o) => Sane(ctx, KeyUsage(of, o))
         /\ \A o : \A of \in ctx.accounts : Sane(ctx, o) => Done(ctx, KeyUsage(of, o))
         /\ \A regions, o : (Has(r, "key") => Done(ctx, o)) => Done(ctx, KeyApi(r, regions, o))
         /\ \A page1, page2, lanes, o :
              Has(r, "key") /\ page1 \notin Prelims /\ page2 \notin Prelims
                /\ (Has(r, page1) => Sane(ctx, o))
                => Sane(ctx, Pages(r, page1, page2, lanes, o))
<1>0. /\ Context(ctx)
      /\ "region" \in Settings
  BY DEF Usual, Prelims, Sources, Settings, Vaulted, Refreshing
<1> USE <1>0, OutcomesSane, WaysSane, QuestionsSane, KeyedSane, LanesSane, UsualErrors
<1>1. \A o, of : Sane(ctx, o) => Sane(ctx, KeyUsage(of, o))
  BY DEF KeyUsage
<1>2. \A o : \A of \in ctx.accounts : Sane(ctx, o) => Done(ctx, KeyUsage(of, o))
  BY DEF KeyUsage, Done, Owns
<1>3. \A regions, o : (Has(r, "key") => Done(ctx, o)) => Done(ctx, KeyApi(r, regions, o))
  BY DEF KeyApi
<1>4. ASSUME Has(r, "key"), NEW page1, NEW page2, page1 \notin Prelims, page2 \notin Prelims,
             NEW lanes, NEW o, Has(r, page1) => Sane(ctx, o)
      PROVE  Sane(ctx, Pages(r, page1, page2, lanes, o))
  <2> DEFINE second == GetCase(r, page2, lanes, {"last", "more", "repeated"},
                         Valid(r[page2].says = "last" /\ \A l \in DOMAIN lanes : Sound(Wire(r[page2], l)), o))
             whole == IF r[page1].says = "last" THEN o ELSE second
  <2>1. Has(r, page1) => Sane(ctx, second)
    BY <1>4
  <2>2. Pages(r, page1, page2, lanes, o) =
          GetCase(r, page1, lanes, {"last", "more"},
            Valid(\A l \in DOMAIN lanes : Sound(Wire(r[page1], l)), whole))
    BY DEF Pages
  <2> HIDE DEF second
  <2>3. Has(r, page1) => Sane(ctx, whole)
    BY <1>4, <2>1
  <2> HIDE DEF whole
  <2> QED BY <1>4, <2>2, <2>3
<1> QED BY <1>1, <1>2, <1>3, <1>4

\* balances.rs, key_api.rs and openrouter.rs.
LEMMA KeysDone ==
  ASSUME NEW ctx, Usual(ctx), NEW r, Answered(ctx, r), Ours(ctx.accounts, r), Self \in ctx.askers
  PROVE  /\ Done(ctx, DeepSeek(r))
         /\ Done(ctx, Moonshot(r))
         /\ Done(ctx, Venice(r))
         /\ Done(ctx, Xai(r))
         /\ Done(ctx, Poe(r))
         /\ Done(ctx, ZenMux(r))
         /\ Done(ctx, Crof(r))
         /\ Done(ctx, Synthetic(r))
         /\ Done(ctx, Zai(r))
         /\ Done(ctx, MiniMax(r))
         /\ Done(ctx, OpenRouter(r))
<1>0. /\ Context(ctx)
      /\ "region" \in Settings /\ "team" \in Settings
      /\ "balance" \notin Prelims /\ "credits" \notin Prelims /\ "detail" \notin Prelims /\ "limits" \notin Prelims
      /\ "payg" \notin Prelims /\ "plan" \notin Prelims /\ "quota" \notin Prelims /\ "quotas" \notin Prelims
      /\ "remains" \notin Prelims /\ "usage" \notin Prelims
  BY DEF Usual, Prelims, Sources, Settings, Vaulted, Refreshing
<1> USE <1>0, OutcomesSane, WaysSane, QuestionsSane, KeyedSane, LanesSane, UsualErrors
<1>1. Done(ctx, DeepSeek(r))
  BY DEF DeepSeek
<1>2. Done(ctx, Moonshot(r))
  BY DEF Moonshot
<1>3. Done(ctx, Venice(r))
  BY DEF Venice, VeniceDiem
<1>4. Done(ctx, Xai(r))
  BY DEF Xai
<1>5. Done(ctx, Poe(r))
  BY DEF Poe
<1>6. Done(ctx, ZenMux(r))
  BY DEF ZenMux, ZenMuxQuota
<1>7. Done(ctx, Crof(r))
  BY DEF Crof, CrofRequests
<1>8. Done(ctx, Synthetic(r))
  <2>1. \A l : r.quotas.of \in ctx.accounts => Sane(ctx, SyntheticSlot(r.quotas, l))
    BY DEF SyntheticSlot
  <2> QED BY <2>1, HelpersSane DEF Synthetic
<1>9. Done(ctx, Zai(r))
  BY HelpersSane DEF Zai, ZaiSearches
<1>10. Done(ctx, MiniMax(r))
  <2>1. \A l : r.remains.of \in ctx.accounts => Sane(ctx, MiniMaxLane(r.remains, l))
    BY DEF MiniMaxLane
  <2> QED BY <2>1, HelpersSane, SMTT(30) DEF MiniMax
<1>11. Done(ctx, OpenRouter(r))
  <2> DEFINE
        credits == Noted(Get(r, "credits", [credits |-> ULL], OpenRouterCredits(r.credits)),
                         "openrouter_credits_api")
        limits == Noted(Get(r, "limits", [limit |-> LL, spend |-> U], OpenRouterKey(r.limits)),
                        "openrouter_key_api")
        both == Join(credits, limits)
        failed == IF \E d \in both.told : d.code = "Authentication" THEN "Authentication"
                  ELSE IF credits.told # {} THEN (CHOOSE d \in credits.told : TRUE).code
                  ELSE IF limits.told # {} THEN (CHOOSE d \in limits.told : TRUE).code
                  ELSE "InvalidData"
  <2>1. /\ Has(r, "credits") => Sane(ctx, OpenRouterCredits(r.credits))
        /\ Has(r, "limits") => Sane(ctx, OpenRouterKey(r.limits))
    BY DEF OpenRouterCredits, OpenRouterKey
  <2>2. ASSUME Has(r, "key")
        PROVE  Sane(ctx, credits) /\ Sane(ctx, limits) /\ Sane(ctx, both)
    <3>1. Sane(ctx, credits) /\ Sane(ctx, limits)
      BY <2>1, <2>2
    <3> QED BY <3>1
  <2>3. ASSUME Has(r, "key")
        PROVE  failed \in ctx.errors
    <3>1. credits.told # {} => (CHOOSE d \in credits.told : TRUE) \in credits.told
      OBVIOUS
    <3>2. limits.told # {} => (CHOOSE d \in limits.told : TRUE) \in limits.told
      OBVIOUS
    <3> QED BY <2>2, <2>3, <3>1, <3>2, SMTT(30), ZenonT(40) DEF Sane
  <2> HIDE DEF credits, limits, failed
  <2>4. Has(r, "key") => Done(ctx, Usage(r.key.of, OrElse(both, failed)))
    BY <2>2, <2>3
  <2>5. OpenRouter(r) = KeyApi(r, {"ok"}, Usage(r.key.of, OrElse(both, failed)))
    BY DEF OpenRouter, credits, limits, both, failed
  <2> QED BY <2>4, <2>5, HelpersSane
<1> QED BY <1>1, <1>2, <1>3, <1>4, <1>5, <1>6, <1>7, <1>8, <1>9, <1>10, <1>11

\* coding.rs.
LEMMA PlansDone ==
  ASSUME NEW ctx, Usual(ctx), NEW r, Answered(ctx, r), Ours(ctx.accounts, r), Self \in ctx.askers
  PROVE  /\ Done(ctx, AiAnd(r))
         /\ Done(ctx, Alibaba(r))
         /\ Done(ctx, ClinePass(r))
         /\ Done(ctx, CodeBuff(r))
         /\ Done(ctx, IbmBob(r))
         /\ Done(ctx, Kilo(r))
         /\ Done(ctx, Warp(r))
<1>0. /\ Context(ctx)
      /\ "organization" \in Settings /\ "region" \in Settings
      /\ "batch" \notin Prelims /\ "budget1" \notin Prelims /\ "budget2" \notin Prelims /\ "graphql" \notin Prelims
      /\ "limits" \notin Prelims /\ "page1" \notin Prelims /\ "page2" \notin Prelims /\ "plan" \notin Prelims
      /\ "profile" \notin Prelims /\ "usage" \notin Prelims
  BY DEF Usual, Prelims, Sources, Settings, Vaulted, Refreshing
<1> USE <1>0, OutcomesSane, WaysSane, QuestionsSane, KeyedSane, LanesSane, UsualErrors
<1>1. Done(ctx, AiAnd(r))
  BY DEF AiAnd, Spend
<1>2. Done(ctx, Alibaba(r))
  BY DEF Alibaba, AlibabaLane
<1>3. Done(ctx, ClinePass(r))
  BY DEF ClinePass, ClinePassLane
<1>4. Done(ctx, CodeBuff(r))
  BY DEF CodeBuff
<1>5. Done(ctx, IbmBob(r))
  BY DEF IbmBob, IbmTeam
<1>6. Done(ctx, Kilo(r))
  BY DEF Kilo, KiloCredits, KiloPass
<1>7. Done(ctx, Warp(r))
  <2>1. \A reply : reply.of \in ctx.accounts => Sane(ctx, WarpRequests(reply))
    BY DEF WarpRequests
  <2>2. \A reply : reply.of \in ctx.accounts => Sane(ctx, WarpBonus(reply))
    BY DEF WarpBonus
  <2> QED BY <2>1, <2>2 DEF Warp
<1> QED BY <1>1, <1>2, <1>3, <1>4, <1>5, <1>6, <1>7

\* gateways.rs, doubao.rs and tools.rs.
LEMMA GatewaysDone ==
  ASSUME NEW ctx, Usual(ctx), NEW r, Answered(ctx, r), Ours(ctx.accounts, r), Self \in ctx.askers
  PROVE  /\ Done(ctx, ClawRouter(r))
         /\ Done(ctx, LiteLlm(r))
         /\ Done(ctx, LlmProxy(r))
         /\ Done(ctx, Sub2Api(r))
         /\ Done(ctx, OpenAi(r))
         /\ Done(ctx, Doubao(r))
         /\ Done(ctx, Devin(r))
         /\ Done(ctx, OpenCodeGo(r))
<1>0. /\ Context(ctx)
      /\ "access_key" \in Settings /\ "base" \in Settings /\ "organization" \in Settings /\ "project" \in Settings
      /\ "consumption" \notin Prelims /\ "costs1" \notin Prelims /\ "costs2" \notin Prelims /\ "key_info" \notin Prelims
      /\ "models1" \notin Prelims /\ "models2" \notin Prelims /\ "plan" \notin Prelims /\ "stats" \notin Prelims
      /\ "team_info" \notin Prelims /\ "usage" \notin Prelims /\ "user_info" \notin Prelims
  BY DEF Usual, Prelims, Sources, Settings, Vaulted, Refreshing
<1> USE <1>0, OutcomesSane, WaysSane, QuestionsSane, KeyedSane, LanesSane, UsualErrors
<1>1. Done(ctx, ClawRouter(r))
  BY DEF ClawRouter, Based
<1>2. Done(ctx, LiteLlm(r))
  BY DEF LiteLlm, Based, LiteLlmOwner
<1>3. Done(ctx, LlmProxy(r))
  BY DEF LlmProxy, Based
<1>4. Done(ctx, Sub2Api(r))
  BY DEF Sub2Api, Based, Sub2ApiLimit
<1>5. Done(ctx, OpenAi(r))
  BY HelpersSane DEF OpenAi, OverPages
<1>6. Done(ctx, Doubao(r))
  BY DEF Doubao, DoubaoLevel
<1>7. Done(ctx, Devin(r))
  BY DEF Devin
<1>8. Done(ctx, OpenCodeGo(r))
  BY DEF OpenCodeGo
<1> QED BY <1>1, <1>2, <1>3, <1>4, <1>5, <1>6, <1>7, <1>8

\* infrastructure.rs and azure.rs.
LEMMA InfrastructureDone ==
  ASSUME NEW ctx, Usual(ctx), NEW r, Answered(ctx, r), Ours(ctx.accounts, r), Self \in ctx.askers
  PROVE  /\ Done(ctx, Chutes(r))
         /\ Done(ctx, DeepInfra(r))
         /\ Done(ctx, Fireworks(r))
         /\ Done(ctx, Groq(r))
         /\ Done(ctx, Deepgram(r))
         /\ Done(ctx, ElevenLabs(r))
         /\ Done(ctx, NeuralWatt(r))
         /\ Done(ctx, Kimi(r))
         /\ Done(ctx, DevinDesktop(r))
<1>0. /\ Context(ctx)
      /\ "account" \in Settings /\ "project" \in Settings
      /\ "checklist" \notin Prelims /\ "quota" \notin Prelims /\ "rate" \notin Prelims /\ "status" \notin Prelims
      /\ "subscription" \notin Prelims /\ "summary" \notin Prelims /\ "usage" \notin Prelims /\ "usages" \notin Prelims
  BY DEF Usual, Prelims, Sources, Settings, Vaulted, Refreshing
<1> USE <1>0, OutcomesSane, WaysSane, QuestionsSane, KeyedSane, LanesSane, UsualErrors
<1>1. Done(ctx, Chutes(r))
  BY DEF Chutes
<1>2. Done(ctx, DeepInfra(r))
  BY DEF DeepInfra, DeepInfraWindows
<1>3. Done(ctx, Fireworks(r))
  BY DEF Fireworks, Named
<1>4. Done(ctx, Groq(r))
  BY DEF Groq
<1>5. Done(ctx, Deepgram(r))
  BY DEF Deepgram, Named
<1>6. Done(ctx, ElevenLabs(r))
  BY DEF ElevenLabs, ElevenLabsSlots
<1>7. Done(ctx, NeuralWatt(r))
  BY DEF NeuralWatt, NeuralWattEnergy, NeuralWattBalance
<1>8. Done(ctx, Kimi(r))
  BY DEF Kimi, KimiWindow
<1>9. Done(ctx, DevinDesktop(r))
  BY DEF DevinDesktop, DevinLane, DevinNumber
<1> QED BY <1>1, <1>2, <1>3, <1>4, <1>5, <1>6, <1>7, <1>8, <1>9

----------------------------------------------------------------------------
(* Credentials.                                                             *)

\* The credentials that the adapters of a login look for, as they do so themselves.
GrokToken(r) ==
  Explicit(r, Native(r, "file", {"Authentication", "CredentialStorage", "InvalidData"},
                     Having(r["file"].of)))

KiroFile(r) ==
  Step(r, Question("file", Login, NoLanes, {"ok", "missing", "expiring"},
                   {"Authentication", "CredentialStorage", "InvalidData"}),
    Require(r["file"].says = "ok", "OwnerRefreshRequired", Having(r["file"].of)))
KiroToken(r) == Explicit(r, KiroFile(r))

AmpProgram(r) ==
  Step(r, Question("program", Login, AmpLanes, AmpCases, ProcessErrors), Having(r.program.of))
AmpKey(r) ==
  Explicit(r,
    Step(r, Question("secrets", Login, NoLanes, {"ok", "missing"},
                     {"Authentication", "InvalidData", "Internal"}),
         Having(IF r.secrets.says = "ok" THEN r.secrets.of ELSE None)))
AmpToken(r) ==
  Setting(r, "url", {"public", "other"},
    IF r.url.says = "other" THEN AmpProgram(r)
    ELSE Using(AmpKey(r), IF AmpKey(r).account = None THEN AmpProgram(r) ELSE AmpKey(r)))

Logins == CatalogLogins \cup {"amp"}
Cred(p, r) ==
  CASE p = "claude" -> ClaudeToken(r)
    [] p = "gemini" -> GeminiToken(r)
    [] p = "copilot" -> CopilotToken(r)
    [] p = "cursor" -> CursorToken(r)
    [] p = "grok" -> GrokToken(r)
    [] p = "vertexai" -> VertexToken(r)
    [] p = "azureopenai" -> AzureToken(r)
    [] p = "kiro" -> KiroToken(r)
    [] p = "amp" -> AmpToken(r)

\* One that is sane, and of one of some accounts once it is found.
Vouched(ctx, A, o) == Sane(ctx, o) /\ Owns(A, o)

\* Where a credential is looked for in a context that has nothing against it.
Searching(ctx) == Context(ctx) /\ ctx.never \cap Sources = {}

LEMMA SourcesAsked ==
  ASSUME NEW ctx, Searching(ctx)
  PROVE  /\ \A s \in Sources : MayAsk(ctx, s, Self)
         /\ \A s \in Sources : \A of \in Asked : s # "token" => MayAsk(ctx, s, of)
BY UsualErrors DEF Searching, MayAsk, Prelims

LEMMA SourcesVouched ==
  ASSUME NEW ctx, Searching(ctx), NEW r, Answered(ctx, r), NEW A
  PROVE  /\ \A e \in ctx.errors : Vouched(ctx, A, Fails(e))
         /\ \A a \in A : Vouched(ctx, A, Having(a))
         /\ \A c, o : \A e \in ctx.errors : Vouched(ctx, A, o) => Vouched(ctx, A, Require(c, e, o))
         /\ \A s, of, lanes, says, fails, o :
              MayAsk(ctx, s, of) /\ fails \subseteq ctx.errors /\ (Has(r, s) => Vouched(ctx, A, o))
                => Vouched(ctx, A, Step(r, Question(s, of, lanes, says, fails), o))
         /\ \A s, of, lanes, says, o :
              MayAsk(ctx, s, of) /\ (Has(r, s) => Vouched(ctx, A, o))
                => Vouched(ctx, A, Request(r, s, of, lanes, says, o))
         /\ \A s, says, o :
              MayAsk(ctx, s, Self) /\ (Has(r, s) => Vouched(ctx, A, o)) => Vouched(ctx, A, Setting(r, s, says, o))
         /\ \A s, says, o :
              MayAsk(ctx, s, Login) /\ (Has(r, s) => Vouched(ctx, A, o)) => Vouched(ctx, A, Run(r, s, says, o))
         /\ \A s, fails, o :
              MayAsk(ctx, s, Login) /\ fails \subseteq ctx.errors /\ (Has(r, s) => Vouched(ctx, A, o))
                => Vouched(ctx, A, Native(r, s, fails, o))
<1>0. /\ Context(ctx) /\ HttpErrors \subseteq ctx.errors /\ ProcessErrors \subseteq ctx.errors
      /\ "Authentication" \in ctx.errors /\ None \notin ctx.errors
  BY UsualErrors DEF Searching
<1>1. \A e \in ctx.errors : Vouched(ctx, A, Fails(e))
  BY <1>0, OutcomesSane, SimpleOutcomes DEF Done, Vouched, Owns, Open, IsOutcome
<1>2. \A a \in A : Vouched(ctx, A, Having(a))
  BY <1>0, OutcomesSane, SimpleOutcomes DEF Vouched, Owns, IsOutcome
<1>3. \A c, o : \A e \in ctx.errors : Vouched(ctx, A, o) => Vouched(ctx, A, Require(c, e, o))
  BY <1>1 DEF Require
<1>4. ASSUME NEW s, NEW of, NEW lanes, NEW says, NEW fails, NEW o, MayAsk(ctx, s, of),
             fails \subseteq ctx.errors, Has(r, s) => Vouched(ctx, A, o)
      PROVE  Vouched(ctx, A, Step(r, Question(s, of, lanes, says, fails), o))
  <2>1. Sane(ctx, Step(r, Question(s, of, lanes, says, fails), o))
    BY <1>0, <1>4, RequestsSane DEF Vouched
  <2>2. Owns(A, Step(r, Question(s, of, lanes, says, fails), o))
    BY <1>4, StepsEnd DEF Vouched, Owns
  <2> QED BY <2>1, <2>2 DEF Vouched
<1>5. {} \subseteq ctx.errors
  OBVIOUS
<1>6. \A s, of, lanes, says, o :
        MayAsk(ctx, s, of) /\ (Has(r, s) => Vouched(ctx, A, o))
          => Vouched(ctx, A, Request(r, s, of, lanes, says, o))
  BY <1>0, <1>4 DEF Request
<1>7. /\ \A s, says, o :
           MayAsk(ctx, s, Self) /\ (Has(r, s) => Vouched(ctx, A, o)) => Vouched(ctx, A, Setting(r, s, says, o))
      /\ \A s, says, o :
           MayAsk(ctx, s, Login) /\ (Has(r, s) => Vouched(ctx, A, o)) => Vouched(ctx, A, Run(r, s, says, o))
  BY <1>0, <1>4, <1>5 DEF Setting, Run
<1>8. \A s, fails, o :
        MayAsk(ctx, s, Login) /\ fails \subseteq ctx.errors /\ (Has(r, s) => Vouched(ctx, A, o))
          => Vouched(ctx, A, Native(r, s, fails, o))
  BY <1>0, <1>3, <1>4 DEF Native
<1> QED BY <1>1, <1>2, <1>3, <1>4, <1>6, <1>7, <1>8

\* A token of the environment, or else what the program's own login is.
LEMMA ExplicitVouched ==
  ASSUME NEW ctx, Searching(ctx), NEW r, Answered(ctx, r), NEW A, Has(r, "token") => r.token.of \in A,
         NEW native, Vouched(ctx, A, native)
  PROVE  Vouched(ctx, A, Explicit(r, native))
<1>1. MayAsk(ctx, "token", Self)
  BY SourcesAsked DEF Sources
<1>2. "Authentication" \in ctx.errors
  BY UsualErrors DEF Searching
<1>3. Has(r, "token") => Vouched(ctx, A, Require(r.token.says = "ok", "Authentication", Having(r.token.of)))
  BY <1>2, SourcesVouched
<1> QED BY <1>1, <1>3, SourcesVouched DEF Explicit

\* Of a few places there is a last.
LEMMA LastOfFew ==
  ASSUME NEW K \in SUBSET {1, 2, 3, 4}, K # {}
  PROVE  \E i \in K : \A j \in K : j <= i
<1>1. \A j \in K : j = 1 \/ j = 2 \/ j = 3 \/ j = 4
  OBVIOUS
<1>2. CASE 4 \in K
  BY <1>1, <1>2
<1>3. CASE 4 \notin K /\ 3 \in K
  BY <1>1, <1>3
<1>4. CASE 4 \notin K /\ 3 \notin K /\ 2 \in K
  BY <1>1, <1>4
<1>5. CASE 4 \notin K /\ 3 \notin K /\ 2 \notin K
  <2>1. \A j \in K : j = 1
    BY <1>1, <1>5
  <2>2. PICK i \in K : TRUE
    OBVIOUS
  <2> QED BY <2>1, <2>2
<1> QED BY <1>2, <1>3, <1>4, <1>5

\* The first of several native sources.
LEMMA FirstVouched ==
  ASSUME NEW ctx, Searching(ctx), NEW r, Answered(ctx, r),
         NEW A, \A s \in DOMAIN r : r[s].of \in A, NEW sources,
         DOMAIN sources = 1..Len(sources), Len(sources) \in 0..4,
         \A i \in DOMAIN sources : sources[i] \in Sources \ {"token"}, NEW fails, fails \subseteq ctx.errors,
         NEW passed
  PROVE  Vouched(ctx, A, FirstOf(r, sources, fails, passed))
<1> DEFINE read == {i \in DOMAIN sources : sources[i] \in DOMAIN r}
           failed == {i \in read : r[sources[i]].error # None}
           found == {i \in read \ failed : r[sources[i]].says = "ok"}
           kept == {i \in failed : r[sources[i]].error \notin passed}
           last == CHOOSE i \in kept : \A j \in kept : j <= i
<1>1. DOMAIN sources = 1..Len(sources) /\ Len(sources) \in Nat
  OBVIOUS
<1>2. CASE found # {}
  <2> DEFINE i == CHOOSE i \in found : TRUE
  <2>1. i \in found
    BY <1>2
  <2>2. r[sources[i]].of \in A
    BY <2>1
  <2> HIDE DEF i
  <2>3. Vouched(ctx, A, Having(r[sources[i]].of))
    BY <2>2, SourcesVouched
  <2> QED BY <1>2, <2>3 DEF FirstOf, i
<1>3. CASE found = {} /\ Cardinality(read) < Len(sources)
  <2>1. IsFiniteSet(read) /\ Cardinality(read) \in Nat
    <3>1. IsFiniteSet(1..Len(sources))
      BY <1>1, FS_Interval
    <3>2. IsFiniteSet(read)
      BY <1>1, <3>1, FS_Subset
    <3> QED BY <3>2, FS_CardinalityType
  <2>2. Cardinality(read) + 1 \in DOMAIN sources
    BY <1>1, <1>3, <2>1
  <2>3. sources[Cardinality(read) + 1] \in Sources \ {"token"}
    BY <2>2
  <2> DEFINE s == sources[Cardinality(read) + 1]
             q == Question(s, Login, NoLanes, {"ok", "missing"}, fails)
  <2>4. MayAsk(ctx, s, Login)
    BY <2>3, SourcesAsked DEF Asked
  <2> HIDE DEF s
  <2>5. Proper(ctx, q)
    BY <2>4, QuestionFields DEF MayAsk, Proper
  <2> HIDE DEF q
  <2>6. Vouched(ctx, A, Asks(q))
    <3>1. Sane(ctx, Asks(q))
      BY <2>5, AskedSane
    <3>2. IsOutcome(Asks(q), {q}, None, {}, {}, None)
      BY SimpleOutcomes
    <3>3. Open(Asks(q))
      BY <3>2 DEF IsOutcome, Open
    <3> QED BY <3>1, <3>3 DEF Vouched, Owns
  <2> QED BY <1>3, <2>6 DEF FirstOf, q, s
<1>4. CASE found = {} /\ ~(Cardinality(read) < Len(sources))
  <2>1. CASE kept = {}
    <3>1. "Authentication" \in ctx.errors
      BY UsualErrors DEF Searching
    <3> QED BY <1>4, <2>1, <3>1, SourcesVouched DEF FirstOf
  <2>2. CASE kept # {}
    <3>1. kept \subseteq {1, 2, 3, 4}
      BY <1>1
    <3>2. PICK i \in kept : \A j \in kept : j <= i
      BY <2>2, <3>1, LastOfFew
    <3>3. last \in kept
      BY <3>2
    <3>4. r[sources[last]].error \in ctx.errors
      BY <3>3 DEF Answered
    <3> HIDE DEF last
    <3>5. Vouched(ctx, A, Fails(r[sources[last]].error))
      BY <3>4, SourcesVouched
    <3> QED BY <1>4, <2>2, <3>5 DEF FirstOf, last
  <2> QED BY <2>1, <2>2
<1> QED BY <1>2, <1>3, <1>4

LEMMA SourcesFirst ==
  ASSUME NEW ctx, Searching(ctx), NEW r, Answered(ctx, r), NEW A, \A s \in DOMAIN r : r[s].of \in A
  PROVE  /\ Vouched(ctx, A, FirstOf(r, <<"keychain", "file">>, KeychainErrors, Passed))
         /\ Vouched(ctx, A, FirstOf(r, <<"apps", "hosts", "gh_hosts", "keychain">>, KeychainErrors, Passed))
<1>1. KeychainErrors \subseteq ctx.errors
  BY UsualErrors DEF Searching, KeychainErrors
<1>2. Vouched(ctx, A, FirstOf(r, <<"keychain", "file">>, KeychainErrors, Passed))
  <2> DEFINE sources == <<"keychain", "file">>
  <2>1. DOMAIN sources = 1..Len(sources) /\ Len(sources) = 2
    OBVIOUS
  <2>2. \A i \in DOMAIN sources : sources[i] \in Sources \ {"token"}
    BY DEF Sources
  <2> HIDE DEF sources
  <2>3. Vouched(ctx, A, FirstOf(r, sources, KeychainErrors, Passed))
    BY <1>1, <2>1, <2>2, FirstVouched
  <2> QED BY <2>3 DEF sources
<1>3. Vouched(ctx, A, FirstOf(r, <<"apps", "hosts", "gh_hosts", "keychain">>, KeychainErrors, Passed))
  <2> DEFINE sources == <<"apps", "hosts", "gh_hosts", "keychain">>
  <2>1. DOMAIN sources = 1..Len(sources) /\ Len(sources) = 4
    OBVIOUS
  <2>2. \A i \in DOMAIN sources : sources[i] \in Sources \ {"token"}
    BY DEF Sources
  <2> HIDE DEF sources
  <2>3. Vouched(ctx, A, FirstOf(r, sources, KeychainErrors, Passed))
    BY <1>1, <2>1, <2>2, FirstVouched
  <2> QED BY <2>3 DEF sources
<1> QED BY <1>2, <1>3

\* Every credential is of whoever one of the replies is of.
LEMMA CredsVouched ==
  ASSUME NEW ctx, Searching(ctx), NEW r, Answered(ctx, r), NEW A, \A s \in DOMAIN r : r[s].of \in A,
         NEW p \in Logins
  PROVE  Vouched(ctx, A, Cred(p, r))
<1>0. /\ \A s : Has(r, s) => r[s].of \in A /\ r[s].of \in Asked
      /\ {"Authentication", "CredentialStorage", "InvalidData", "Internal", "Unavailable",
          "OwnerRefreshRequired"} \subseteq ctx.errors
      /\ NativeErrors \subseteq ctx.errors /\ ProcessErrors \subseteq ctx.errors
      /\ None \notin ctx.errors
  <2>1. \A s : Has(r, s) => r[s].of \in A /\ r[s].of \in Asked
    BY DEF Has, Answered, Asked
  <2> QED BY <2>1, UsualErrors DEF Searching
<1>a. /\ MayAsk(ctx, "token", Self) /\ MayAsk(ctx, "url", Self) /\ MayAsk(ctx, "az", Self)
      /\ MayAsk(ctx, "file", Login) /\ MayAsk(ctx, "keychain", Login) /\ MayAsk(ctx, "state", Login)
      /\ MayAsk(ctx, "az_token", Login) /\ MayAsk(ctx, "adc", Login) /\ MayAsk(ctx, "secrets", Login)
      /\ MayAsk(ctx, "program", Login) /\ \A of \in Asked : MayAsk(ctx, "refresh", of)
  BY SourcesAsked DEF Sources, Asked
<1> USE <1>0, <1>a, SourcesVouched
<1>b. \A native : Vouched(ctx, A, native) => Vouched(ctx, A, Explicit(r, native))
  BY ExplicitVouched
<1>1. Vouched(ctx, A, ClaudeToken(r))
  BY <1>b, SourcesFirst DEF ClaudeToken
<1>2. Vouched(ctx, A, GeminiToken(r))
  BY <1>b DEF GeminiToken
<1>3. Vouched(ctx, A, CopilotToken(r))
  BY <1>b, SourcesFirst DEF CopilotToken
<1>4. Vouched(ctx, A, CursorToken(r))
  BY <1>b DEF CursorToken, KeychainErrors
<1>5. Vouched(ctx, A, GrokToken(r))
  BY <1>b DEF GrokToken
<1>6. Vouched(ctx, A, VertexToken(r))
  <2> DEFINE adc == Step(r, Question("adc", Login, NoLanes, {"ok", "missing", "expiring"},
                                     {"Authentication", "CredentialStorage", "InvalidData"}),
                      Require(r.adc.says # "missing", "Authentication",
                        IF r.adc.says = "ok" THEN Having(r.adc.of)
                        ELSE Request(r, "refresh", r.adc.of, NoLanes, {"ok"}, Having(r.refresh.of))))
  <2>1. Vouched(ctx, A, adc)
    OBVIOUS
  <2> HIDE DEF adc
  <2>2. Vouched(ctx, A, Explicit(r, adc))
    BY <1>b, <2>1
  <2> QED BY <2>2 DEF VertexToken, adc
<1>7. Vouched(ctx, A, AzureToken(r))
  <2> DEFINE az == Setting(r, "az", {"ok", "missing"},
                     Require(r.az.says = "ok", "Unavailable",
                       Run(r, "az_token", {"ok", "malformed"},
                         Require(r.az_token.says = "ok", "Authentication", Having(r.az_token.of)))))
  <2>1. Vouched(ctx, A, az)
    OBVIOUS
  <2> HIDE DEF az
  <2>2. Vouched(ctx, A, Explicit(r, az))
    BY <1>b, <2>1
  <2> QED BY <2>2 DEF AzureToken, az
<1>8. Vouched(ctx, A, KiroToken(r))
  BY <1>b DEF KiroToken, KiroFile
<1>9. Vouched(ctx, A, AmpToken(r))
  <2> DEFINE secrets == Step(r, Question("secrets", Login, NoLanes, {"ok", "missing"},
                                         {"Authentication", "InvalidData", "Internal"}),
                             Having(IF r.secrets.says = "ok" THEN r.secrets.of ELSE None))
  <2>1. Vouched(ctx, A, AmpProgram(r))
    BY DEF AmpProgram
  <2>2. Vouched(ctx, A \cup {None}, secrets)
    <3>1. Has(r, "secrets") =>
            Vouched(ctx, A \cup {None}, Having(IF r.secrets.says = "ok" THEN r.secrets.of ELSE None))
      OBVIOUS
    <3> QED BY <3>1
  <2> HIDE DEF secrets
  <2>3. Vouched(ctx, A \cup {None}, Explicit(r, secrets))
    BY <2>2, ExplicitVouched
  <2>4. Vouched(ctx, A \cup {None}, AmpKey(r))
    BY <2>3 DEF AmpKey, secrets
  <2>5. Vouched(ctx, A, Using(AmpKey(r), IF AmpKey(r).account = None THEN AmpProgram(r) ELSE AmpKey(r)))
    BY <2>1, <2>4 DEF Using, Vouched, Owns
  <2> QED BY <2>1, <2>5 DEF AmpToken
<1> QED BY <1>1, <1>2, <1>3, <1>4, <1>5, <1>6, <1>7, <1>8, <1>9 DEF Cred, Logins, CatalogLogins

\* An adapter that goes on as one that looks for the credential does, once that has it.
LEMMA StepsFollow ==
  ASSUME NEW ctx, NEW r
  PROVE  /\ \A q, o, p : Done(ctx, Step(r, q, o)) /\ (Has(r, q.step) /\ Done(ctx, o) => Done(ctx, p))
              => Done(ctx, Step(r, q, p))
         /\ \A s, says, o, p : Done(ctx, Setting(r, s, says, o)) /\ (Has(r, s) /\ Done(ctx, o) => Done(ctx, p))
              => Done(ctx, Setting(r, s, says, p))
         /\ \A a : Done(ctx, Having(a)) => a \in ctx.accounts
<1>1. \A q, o, p : Done(ctx, Step(r, q, o)) /\ (Has(r, q.step) /\ Done(ctx, o) => Done(ctx, p))
              => Done(ctx, Step(r, q, p))
  BY DEF Step, Has
<1>2. ASSUME NEW a, Done(ctx, Having(a)) PROVE a \in ctx.accounts
  <2>1. ~Open(Having(a)) /\ Having(a).account = a
    BY SimpleOutcomes DEF IsOutcome, Open
  <2> QED BY <1>2, <2>1 DEF Done, Owns
<1> QED BY <1>1, <1>2, QuestionFields DEF Setting

LEMMA KiroSane ==
  ASSUME NEW ctx, Usual(ctx), NEW r, Answered(ctx, r), Ours(ctx.accounts, r)
  PROVE  /\ \A of \in ctx.askers : \A borrowed : Sane(ctx, KiroUsage(r, of, borrowed))
         /\ \A of \in ctx.accounts : \A borrowed : Done(ctx, KiroUsage(r, of, borrowed))
         /\ \A o : Sane(ctx, o) => Sane(ctx, KiroMetadata(r, o))
         /\ \A o : Done(ctx, o) => Done(ctx, KiroMetadata(r, o))
<1>0. /\ Context(ctx) /\ "region" \in Settings /\ "limits" \notin Prelims
      /\ ctx.accounts \subseteq ctx.askers
  BY DEF Usual, Context, Prelims, Sources, Settings, Vaulted, Refreshing
<1> USE <1>0, OutcomesSane, WaysSane, QuestionsSane, LanesSane, UsualErrors
<1> DEFINE limits(of) ==
             Request(r, "limits", of, [requests |-> UL, trial |-> UL], {"ok"},
               OrElse(May(r.limits, "requests") ++ May(r.limits, "trial"), "QuotaUnavailable"))
           refused(of) == Instead(limits(of), {"Authentication"}, Fails("OwnerRefreshRequired"))
<1>a. \A of \in ctx.askers : Sane(ctx, limits(of))
  OBVIOUS
<1>1. \A of \in ctx.askers : Sane(ctx, limits(of)) /\ Sane(ctx, refused(of))
  BY <1>a DEF Done
<1>2. \A of, borrowed : KiroUsage(r, of, borrowed) = Usage(of, IF borrowed THEN refused(of) ELSE limits(of))
  BY DEF KiroUsage
<1> HIDE DEF limits, refused
<1>3. \A of \in ctx.askers : \A borrowed : Sane(ctx, IF borrowed THEN refused(of) ELSE limits(of))
  BY <1>1
<1>4. /\ \A of \in ctx.askers : \A borrowed : Sane(ctx, KiroUsage(r, of, borrowed))
      /\ \A of \in ctx.accounts : \A borrowed : Done(ctx, KiroUsage(r, of, borrowed))
  BY <1>2, <1>3
<1>5. \A o : (Sane(ctx, o) => Sane(ctx, KiroMetadata(r, o))) /\ (Done(ctx, o) => Done(ctx, KiroMetadata(r, o)))
  BY DEF KiroMetadata
<1> QED BY <1>4, <1>5

\* oauth_primary.rs, oauth_editors.rs and oauth_cloud.rs: with a credential of an account of the
\* context, all that is asked and shown is of that.
LEMMA LoginsDone ==
  ASSUME NEW ctx, Usual(ctx), NEW r, Answered(ctx, r), Ours(ctx.accounts, r), NEW p \in Logins,
         Done(ctx, Cred(p, r))
  PROVE  Done(ctx, Local(p, r))
<1>0. /\ Context(ctx) /\ ctx.accounts \subseteq ctx.askers
      /\ "project" \in Settings /\ "other_project" \in Settings /\ "resource" \in Settings
      /\ "usage" \notin Prelims /\ "code_assist" \notin Prelims /\ "quota" \notin Prelims /\ "user" \notin Prelims
      /\ "summary" \notin Prelims /\ "period" \notin Prelims /\ "billing" \notin Prelims
      /\ "settings" \notin Prelims /\ "limits" \notin Prelims /\ "usage1" \notin Prelims
      /\ "usage2" \notin Prelims /\ "limits1" \notin Prelims /\ "limits2" \notin Prelims
      /\ "costs1" \notin Prelims /\ "costs2" \notin Prelims /\ "api" \notin Prelims
  BY DEF Usual, Context, Prelims, Sources, Settings, Vaulted, Refreshing
<1> USE <1>0, OutcomesSane, WaysSane, QuestionsSane, LanesSane, UsualErrors
<1>c. ASSUME NEW token, Done(ctx, token), NEW u, token.account \in ctx.accounts => Done(ctx, u)
      PROVE  Done(ctx, Using(token, u))
  BY <1>c DEF Done, Owns
<1>1. CASE p = "claude"
  <2>1. Done(ctx, ClaudeToken(r))
    BY <1>1 DEF Cred
  <2>2. \A of \in ctx.accounts : Done(ctx, ClaudeUsage(r, of))
    BY DEF ClaudeUsage, ClaudeWindow
  <2>3. Done(ctx, Claude(r))
    BY <1>c, <2>1, <2>2 DEF Claude
  <2> QED BY <1>1, <2>3 DEF Local
<1>2. CASE p = "gemini"
  <2>1. Done(ctx, GeminiToken(r))
    BY <1>2 DEF Cred
  <2>2. \A of \in ctx.accounts : Sane(ctx, GeminiProject(r, of))
    BY DEF GeminiProject
  <2>3. \A reply : reply.of \in ctx.accounts => Sane(ctx, GeminiWindows(reply))
    BY DEF GeminiWindows
  <2>4. \A of \in ctx.accounts : Done(ctx, GeminiUsage(r, of))
    BY <2>2, <2>3 DEF GeminiUsage
  <2>5. Done(ctx, Gemini(r))
    BY <1>c, <2>1, <2>4 DEF Gemini
  <2> QED BY <1>2, <2>5 DEF Local
<1>3. CASE p = "copilot"
  <2>1. Done(ctx, CopilotToken(r))
    BY <1>3 DEF Cred
  <2>2. \A reply, l : reply.of \in ctx.accounts =>
          Sane(ctx, CopilotSnapshot(reply, l)) /\ Sane(ctx, CopilotLegacy(reply, l))
    BY DEF CopilotSnapshot, CopilotLegacy
  <2>3. \A reply : reply.of \in ctx.accounts => Sane(ctx, CopilotWindows(reply))
    BY <2>2 DEF CopilotWindows
  <2>4. \A of \in ctx.accounts : Done(ctx, CopilotUsage(r, of))
    BY <2>3 DEF CopilotUsage
  <2>5. Done(ctx, Copilot(r))
    BY <1>c, <2>1, <2>4 DEF Copilot
  <2> QED BY <1>3, <2>5 DEF Local
<1>4. CASE p = "cursor"
  <2>1. Done(ctx, CursorToken(r))
    BY <1>4 DEF Cred
  <2>2. \A reply : reply.of \in ctx.accounts => Sane(ctx, CursorSummary(reply)) /\ Sane(ctx, CursorPeriod(reply))
    BY DEF CursorSummary, CursorPeriod
  <2>3. ASSUME NEW of \in ctx.accounts PROVE Done(ctx, CursorUsage(r, of))
    <3> DEFINE summary == Request(r, "summary", of, [plan |-> ULL, demand |-> ULL],
                                  {"plan", "unlimited", "neither", "malformed"},
                            Valid(r.summary.says # "malformed", CursorSummary(r.summary)))
               period == Usage(of, Request(r, "period", of, [total |-> P, models |-> P],
                                           {"ok", "ended"}, CursorPeriod(r.period)))
               both == Join(Noted(summary, "cursor_usage_summary"),
                            Noted(period, "cursor_current_period"))
    <3>1. Sane(ctx, summary) /\ Sane(ctx, period)
      BY <2>2
    <3>2. CursorUsage(r, of) = Owned(of, IF summary.error # None /\ period.error # None
                                         THEN Fails(summary.error) ELSE both)
      BY DEF CursorUsage
    <3> HIDE DEF summary, period
    <3>3. Sane(ctx, both) /\ (summary.error # None => Sane(ctx, Fails(summary.error)))
      <4>1. /\ Sane(ctx, Noted(summary, "cursor_usage_summary"))
            /\ Sane(ctx, Noted(period, "cursor_current_period"))
        BY <3>1, OutcomesSane
      <4>2. Sane(ctx, both)
        BY <4>1, OutcomesSane
      <4>3. summary.error # None => summary.error \in ctx.errors
        BY <3>1 DEF Sane
      <4>4. \A e \in ctx.errors : Sane(ctx, Fails(e))
        BY OutcomesSane DEF Done
      <4> HIDE DEF both
      <4> QED BY <4>2, <4>3, <4>4
    <3> QED BY <3>2, <3>3
  <2>4. Done(ctx, Cursor(r))
    BY <1>c, <2>1, <2>3 DEF Cursor
  <2> QED BY <1>4, <2>4 DEF Local
<1>5. CASE p = "grok"
  <2>1. Done(ctx, GrokToken(r))
    BY <1>5 DEF Cred
  <2>2. \A reply : reply.of \in ctx.accounts => Sane(ctx, GrokWindows(reply))
    <3> SUFFICES ASSUME NEW reply, reply.of \in ctx.accounts PROVE Sane(ctx, GrokWindows(reply))
      OBVIOUS
    <3> DEFINE cap == Wire(reply, "cap").limit
               extra == Measured(reply, "cap", Absent, Absent, Absent)
               quota == IF cap = Absent THEN Unknown ELSE IF cap = 0 THEN Off ELSE Capped
               capped == IF cap = Bad THEN Shows(extra) ++ Notes("grok_extra_usage", "InvalidData")
                         ELSE Shows([extra EXCEPT !.quota = quota])
    <3> HIDE DEF quota
    <3>1. Sane(ctx, Shows(extra)) /\ Sane(ctx, Shows([extra EXCEPT !.quota = quota]))
      BY LanesSane
    <3> HIDE DEF extra
    <3>2. Sane(ctx, capped)
      BY <3>1
    <3> HIDE DEF capped, cap
    <3>3. \E valid, unsaid, used :
             GrokWindows(reply) = Valid(valid, When(unsaid, Notes("grok_credits", "InvalidData"))
                                          ++ Window(reply, "credits", used, Whole, Absent) ++ capped)
      BY DEF GrokWindows, capped, cap, extra, quota
    <3>4. \A unsaid, used : Sane(ctx, When(unsaid, Notes("grok_credits", "InvalidData")))
                             /\ Sane(ctx, Window(reply, "credits", used, Whole, Absent))
      OBVIOUS
    <3>5. \A unsaid, used : Sane(ctx, When(unsaid, Notes("grok_credits", "InvalidData"))
                               ++ Window(reply, "credits", used, Whole, Absent) ++ capped)
      BY <3>2, <3>4
    <3> QED BY <3>3, <3>5
  <2>3. \A of \in ctx.accounts : Done(ctx, GrokUsage(r, of))
    BY <2>2 DEF GrokUsage
  <2>4. Grok(r) = Using(GrokToken(r), GrokUsage(r, GrokToken(r).account))
    BY DEF Grok, GrokToken
  <2>5. Done(ctx, Grok(r))
    BY <1>c, <2>1, <2>3, <2>4
  <2> QED BY <1>5, <2>5 DEF Local
<1>6. CASE p = "kiro"
  <2>1. Done(ctx, KiroToken(r))
    BY <1>6 DEF Cred
  <2>2. \A of \in ctx.accounts : \A borrowed : Done(ctx, KiroUsage(r, of, borrowed))
    BY KiroSane
  <2> DEFINE token == IF r.token.says = "none" THEN KiroFile(r)
                      ELSE Require(r.token.says = "ok", "Authentication", Having(r.token.of))
             usage == IF r.token.says = "none" THEN KiroLogin(r)
                      ELSE KiroMetadata(r,
                             Require(r.token.says = "ok", "Authentication", KiroUsage(r, r.token.of, FALSE)))
  <2>3. ASSUME Done(ctx, KiroFile(r)) PROVE Done(ctx, KiroLogin(r))
    <3> DEFINE q == Question("file", Login, NoLanes, {"ok", "missing", "expiring"},
                             {"Authentication", "CredentialStorage", "InvalidData"})
               found == Require(r["file"].says = "ok", "OwnerRefreshRequired", Having(r["file"].of))
               read == Require(r["file"].says # "missing", "Authentication",
                         KiroMetadata(r,
                           Require(r["file"].says = "ok", "OwnerRefreshRequired",
                                   KiroUsage(r, r["file"].of, TRUE))))
    <3>1. ASSUME Done(ctx, found) PROVE Done(ctx, read)
      <4>1. r["file"].says = "ok" => r["file"].of \in ctx.accounts
        BY <3>1, StepsFollow DEF Require
      <4>2. Done(ctx, Require(r["file"].says = "ok", "OwnerRefreshRequired", KiroUsage(r, r["file"].of, TRUE)))
        BY <2>2, <4>1 DEF Require
      <4> QED BY <4>2, KiroSane
    <3>2. KiroFile(r) = Step(r, q, found) /\ KiroLogin(r) = Step(r, q, read)
      BY DEF KiroFile, KiroLogin
    <3> HIDE DEF found, read, q
    <3> QED BY <2>3, <3>1, <3>2, StepsFollow
  <2>4. ASSUME Done(ctx, token) PROVE Done(ctx, usage)
    <3>1. CASE r.token.says = "none"
      BY <2>3, <2>4, <3>1
    <3>2. CASE r.token.says # "none"
      <4>1. r.token.says = "ok" => r.token.of \in ctx.accounts
        BY <2>4, <3>2, StepsFollow DEF Require
      <4>2. Done(ctx, Require(r.token.says = "ok", "Authentication", KiroUsage(r, r.token.of, FALSE)))
        BY <2>2, <4>1 DEF Require
      <4> QED BY <3>2, <4>2, KiroSane
    <3> QED BY <3>1, <3>2
  <2>5. /\ KiroToken(r) = Setting(r, "token", {"ok", "none", "malformed"}, token)
        /\ Kiro(r) = Setting(r, "token", {"ok", "none", "malformed"}, usage)
    BY DEF KiroToken, Kiro, Explicit
  <2> HIDE DEF token, usage
  <2>6. Done(ctx, Kiro(r))
    BY <2>1, <2>4, <2>5, StepsFollow
  <2> QED BY <1>6, <2>6 DEF Local
<1>7. CASE p = "vertexai"
  <2>1. Done(ctx, VertexToken(r))
    BY <1>7 DEF Cred
  <2>2. ASSUME NEW of \in ctx.accounts, NEW p1, NEW p2, NEW lanes, NEW o,
               p1 \notin Prelims, p2 \notin Prelims, Has(r, p1) => Sane(ctx, o)
        PROVE  Sane(ctx, VertexSeries(r, p1, p2, of, lanes, o))
    <3> DEFINE page(s, rest) == Step(r, Question(s, of, lanes, {"last", "more"}, MonitoringErrors), rest)
               second == page(p2, Require(r[p2].says = "last", "QuotaUnavailable", o))
               whole == IF r[p1].says = "last" THEN o ELSE second
    <3>1. \A s \in {p1, p2} : \A rest : (Has(r, s) => Sane(ctx, rest)) => Sane(ctx, page(s, rest))
      <4>1. MonitoringErrors \subseteq ctx.errors
        BY DEF MonitoringErrors
      <4> QED BY <2>2, <4>1
    <3>2. Has(r, p1) => Sane(ctx, Require(r[p2].says = "last", "QuotaUnavailable", o))
      BY <2>2
    <3> HIDE DEF page
    <3>3. Has(r, p1) => Sane(ctx, second)
      BY <3>1, <3>2
    <3> HIDE DEF second
    <3>4. Has(r, p1) => Sane(ctx, whole)
      BY <2>2, <3>3
    <3> HIDE DEF whole
    <3>5. Sane(ctx, page(p1, whole))
      BY <3>1, <3>4
    <3> QED BY <3>5 DEF VertexSeries, page, whole, second
  <2>3. Has(r, "usage1") => Sane(ctx, VertexWindows(r))
    <3>1. Has(r, "usage1") => r.usage1.of \in ctx.accounts
      OBVIOUS
    <3> QED BY <3>1 DEF VertexWindows
  <2>4. \A of \in ctx.accounts : Done(ctx, VertexUsage(r, of))
    <3> TAKE of \in ctx.accounts
    <3> DEFINE lanes1 == [named |-> U, unnamed |-> U]
               lanes2 == [named |-> {"limit"}, other |-> {"limit"}]
               second == VertexSeries(r, "limits1", "limits2", of, lanes2, VertexWindows(r))
    <3> HIDE DEF lanes1, lanes2
    <3>1. Has(r, "usage1") => Sane(ctx, second)
      BY <2>2, <2>3
    <3> HIDE DEF second
    <3>2. Sane(ctx, VertexSeries(r, "usage1", "usage2", of, lanes1, second))
      BY <2>2, <3>1
    <3> QED BY <3>2 DEF VertexUsage, second, lanes1, lanes2
  <2>5. \A o : Done(ctx, o) => Done(ctx, VertexProject(r, o))
    <3>1. MayAsk(ctx, "gcloud", Login)
      BY DEF Usual, MayAsk, Prelims, Sources, Settings, Vaulted, Refreshing
    <3>2. \A says, o : Done(ctx, o) =>
            Done(ctx, Step(r, Question("gcloud", Login, NoLanes, says, {"CredentialStorage"}), o))
      BY <3>1, RequestsSane
    <3> QED BY <3>2 DEF VertexProject
  <2>6. Done(ctx, VertexAi(r))
    BY <1>c, <2>1, <2>4, <2>5 DEF VertexAi
  <2> QED BY <1>7, <2>6 DEF Local
<1>8. CASE p = "azureopenai"
  <2>1. Done(ctx, AzureToken(r))
    BY <1>8 DEF Cred
  <2>2. ASSUME NEW of \in ctx.accounts PROVE Sane(ctx, AzureCosts(r, of))
    <3> DEFINE sound(page) == \A l \in DOMAIN AzureLanes : Sound(Wire(r[page], l))
               cost(l) == Added(Wire(r.costs1, l).used,
                                IF "costs2" \in DOMAIN r THEN Wire(r.costs2, l).used ELSE Absent)
               costs == Valid(\E l \in DOMAIN AzureLanes : cost(l) # Absent,
                          When(cost("eur") # Absent,
                               Window(r.costs1, "eur", cost("eur"), Absent, Absent))
                          ++ When(cost("usd") # Absent,
                                  Window(r.costs1, "usd", cost("usd"), Absent, Absent)))
    <3>0. Has(r, "costs1") => r.costs1.of \in ctx.accounts
      OBVIOUS
    <3>1. Has(r, "costs1") => Sane(ctx, costs)
      BY <3>0
    <3> HIDE DEF costs
    <3>2. AzureCosts(r, of) =
            Request(r, "costs1", of, AzureLanes, {"last", "more", "elsewhere"},
              Valid(r.costs1.says # "elsewhere" /\ sound("costs1"),
                IF r.costs1.says = "last" THEN costs
                ELSE Request(r, "costs2", of, AzureLanes, {"last", "more"},
                       Valid(r.costs2.says = "last" /\ sound("costs2"), costs))))
      BY DEF AzureCosts, costs
    <3> HIDE DEF sound
    <3> QED BY <3>1, <3>2
  <2>3. Done(ctx, Azure(r))
    BY <1>c, <2>1, <2>2 DEF Azure
  <2> QED BY <1>8, <2>3 DEF Local
<1>9. CASE p = "amp"
  <2>1. Done(ctx, AmpToken(r))
    BY <1>9 DEF Cred
  <2>2. \A reply : reply.of \in ctx.accounts => Sane(ctx, AmpFree(reply)) /\ Sane(ctx, AmpCredits(reply))
    BY DEF AmpFree, AmpCredits
  <2>3. \A reply : reply.of \in ctx.accounts => Done(ctx, AmpText(reply))
    BY <2>2 DEF AmpText
  <2>4. \A of \in ctx.accounts : Done(ctx, AmpApi(r, of))
    BY <2>3 DEF AmpApi
  <2> DEFINE run == Step(r, Question("program", Login, AmpLanes, AmpCases, ProcessErrors), AmpText(r.program))
             key == AmpKey(r)
             found == IF r.url.says = "other" THEN AmpProgram(r)
                      ELSE Using(key, IF key.account = None THEN AmpProgram(r) ELSE key)
             usage == IF r.url.says = "other" THEN run
                      ELSE Using(key, IF key.account = None THEN run ELSE AmpApi(r, key.account))
  <2>5. Done(ctx, AmpProgram(r)) => Done(ctx, run)
    BY <2>3, StepsFollow DEF AmpProgram
  <2> HIDE DEF run, key
  <2>6. ASSUME Done(ctx, found) PROVE Done(ctx, usage)
    <3>1. ASSUME ~Open(key), key.account # None, Done(ctx, key) PROVE Done(ctx, AmpApi(r, key.account))
      BY <2>4, <3>1 DEF Done, Owns
    <3> QED BY <2>5, <2>6, <3>1 DEF Using
  <2>7. /\ AmpToken(r) = Setting(r, "url", {"public", "other"}, found)
        /\ AmpLocal(r) = Setting(r, "url", {"public", "other"}, usage)
    BY DEF AmpToken, AmpLocal, AmpKey, run, key
  <2> HIDE DEF found, usage
  <2>8. Done(ctx, AmpLocal(r))
    BY <2>1, <2>6, <2>7, StepsFollow
  <2> QED BY <1>9, <2>8 DEF Local
<1> QED BY <1>1, <1>2, <1>3, <1>4, <1>5, <1>6, <1>7, <1>8, <1>9 DEF Logins, CatalogLogins

\* Codex, Amp and Factory, asked with a saved credential or a key; and the program of Codex,
\* whose login may be of anybody.
LEMMA AgentsDone ==
  ASSUME NEW ctx, Usual(ctx), NEW r, Answered(ctx, r), Ours(ctx.accounts, r)
  PROVE  /\ Login \in ctx.askers => Done(ctx, CodexLocal(r))
         /\ Self \in ctx.askers => Done(ctx, CodexApi(r)) /\ Done(ctx, AmpApi(r, Self)) /\ Done(ctx, FactoryLocal(r))
         /\ Self \in ctx.askers /\ {"OAuth", "QuotaForbidden"} \subseteq ctx.errors => Done(ctx, FactoryOAuth(r))
<1>0. /\ Context(ctx) /\ ctx.accounts \subseteq ctx.askers
      /\ "before" \notin Prelims /\ "limits" \notin Prelims /\ "after" \notin Prelims
      /\ "credential" \notin Prelims /\ "extra_usage" \notin Prelims /\ "inventory" \notin Prelims
      /\ "profile" \notin Prelims /\ "usage" \notin Prelims /\ "api" \notin Prelims
      /\ "region" \in Settings /\ "organization" \in Settings
  BY DEF Usual, Context, Prelims, Sources, Settings, Vaulted, Refreshing
<1> USE <1>0, OutcomesSane, WaysSane, QuestionsSane, LanesSane, UsualErrors
<1>1. \A reply : reply.of \in ctx.accounts => Sane(ctx, CodexWindows(reply))
  BY DEF CodexWindows, CodexWindow
<1>2. \A of \in ctx.accounts : \A extra : Sane(ctx, extra) => Sane(ctx, CodexSupplement(r, of, extra))
  BY DEF CodexSupplement
<1>3. ASSUME Login \in ctx.askers PROVE Done(ctx, CodexLocal(r))
  <2>1. {"Timeout", "Authentication"} \subseteq ctx.errors
    OBVIOUS
  <2>2. Sane(ctx, CodexLocalSupplement(r))
    BY <1>2, <1>3, <2>1 DEF CodexLocalSupplement
  <2>3. \A s, o : s \notin Prelims /\ (Has(r, s) => Done(ctx, o)) => Done(ctx, CodexAccount(r, s, o))
    BY <1>3 DEF CodexAccount, Run
  <2> DEFINE shown == Owned(r.after.of, CodexWindows(r.limits) ++ CodexLocalSupplement(r))
             third == CodexAccount(r, "after", Valid(r.before.like = r.after.like, shown))
             second == Step(r, Question("limits", Login, CodexLanes, CodexCases, ProcessErrors), third)
  <2>4. Has(r, "limits") /\ Has(r, "after") => Done(ctx, shown)
    BY <1>1, <2>2
  <2> HIDE DEF shown
  <2>5. Has(r, "limits") => Done(ctx, third)
    BY <2>3, <2>4
  <2> HIDE DEF third
  <2>6. Done(ctx, second)
    BY <1>3, <2>5
  <2> HIDE DEF second
  <2>7. Done(ctx, CodexAccount(r, "before", second))
    BY <2>3, <2>6
  <2> QED BY <2>7 DEF CodexLocal, second, third, shown
<1>4. ASSUME Self \in ctx.askers PROVE Done(ctx, CodexApi(r))
  <2>1. Has(r, "usage") => Sane(ctx, CodexWindows(r.usage) ++ Noted(May(r.usage, "extra"), "codex_extra_usage")
                                      ++ CodexSupplement(r, r.usage.of, Nothing))
    BY <1>1, <1>2
  <2> QED BY <1>4, <2>1 DEF CodexApi
<1>5. ASSUME Self \in ctx.askers PROVE Done(ctx, AmpApi(r, Self))
  <2>1. \A reply : reply.of \in ctx.accounts => Sane(ctx, AmpFree(reply)) /\ Sane(ctx, AmpCredits(reply))
    BY DEF AmpFree, AmpCredits
  <2>2. \A reply : reply.of \in ctx.accounts => Done(ctx, AmpText(reply))
    BY <2>1 DEF AmpText
  <2> QED BY <1>5, <2>2 DEF AmpApi
<1>6. \A reply : reply.of \in ctx.accounts => Sane(ctx, FactoryWindows(reply))
  BY DEF FactoryWindows, FactoryPool
<1>7. ASSUME Self \in ctx.askers PROVE Done(ctx, FactoryLocal(r))
  BY <1>6, <1>7, KeyedSane DEF FactoryLocal
<1>8. ASSUME Self \in ctx.askers, {"OAuth", "QuotaForbidden"} \subseteq ctx.errors PROVE Done(ctx, FactoryOAuth(r))
  BY <1>6, <1>8 DEF FactoryOAuth
<1> QED BY <1>3, <1>4, <1>5, <1>7, <1>8

\* Antigravity: the steps of its two services, asked with the login of the keychain, and of the
\* program's own.
Session(base) == {base.who, base.plan, base.project, base.summary, base.models, base.quota}
Services == {"services", "service_before", "service_quota", "service_after"}

LEMMA BasesApart ==
  /\ \A base \in {Daily, Prod} :
       /\ (Session(base) \cup Services) \cap Prelims = {} /\ Session(base) \cap Services = {}
       /\ base.keychain \in Settings /\ base.again \in Settings /\ base.keychain # base.again
  /\ Session(Daily) \cap Session(Prod) = {}
  /\ {Daily.keychain, Daily.again} \cap {Prod.keychain, Prod.again} = {}
<1>1. /\ Session(Daily) = {"daily_who", "daily_plan", "daily_project", "daily_summary", "daily_models", "daily_quota"}
      /\ Session(Prod) = {"prod_who", "prod_plan", "prod_project", "prod_summary", "prod_models", "prod_quota"}
      /\ Daily.keychain = "daily_keychain" /\ Daily.again = "daily_again"
      /\ Prod.keychain = "prod_keychain" /\ Prod.again = "prod_again"
  BY DEF Session, Daily, Prod
<1>2. "daily_keychain" \in Settings /\ "daily_again" \in Settings /\ "prod_keychain" \in Settings /\ "prod_again" \in Settings
  BY DEF Settings
<1>3. (Session(Daily) \cup Services) \cap Prelims = {}
  BY <1>1 DEF Services, Prelims, Sources, Settings, Vaulted, Refreshing
<1>4. (Session(Prod) \cup Services) \cap Prelims = {}
  BY <1>1 DEF Services, Prelims, Sources, Settings, Vaulted, Refreshing
<1>5. Session(Daily) \cap Services = {} /\ Session(Prod) \cap Services = {} /\ Session(Daily) \cap Session(Prod) = {}
  BY <1>1 DEF Services
<1> QED BY <1>1, <1>2, <1>3, <1>4, <1>5

\* A service asked with the credential of an account of the context.
LEMMA BaseDone ==
  ASSUME NEW ctx, Context(ctx), NEW r, Answered(ctx, r), NEW base \in {Daily, Prod},
         Session(base) \cap ctx.never = {}, \A s \in Session(base) : Has(r, s) => r[s].of \in ctx.accounts,
         NEW of \in ctx.accounts, NEW expected
  PROVE  Done(ctx, AntigravityBase(r, base, of, expected))
<1>0. /\ of \in Asked /\ of \in ctx.askers
      /\ \A s \in Session(base) : MayAsk(ctx, s, of)
  <2>1. of \in Asked /\ of \in ctx.askers
    BY UsualErrors DEF Context
  <2>2. "token" \in Prelims
    BY DEF Prelims, Sources
  <2> QED BY <2>1, <2>2, BasesApart DEF MayAsk
<1>a. QuotaErrors \subseteq ctx.errors
  BY UsualErrors
<1> USE OutcomesSane, WaysSane, LanesSane, UsualErrors, RequestsSane, <1>0, <1>a
<1>1. \A reply, l : reply.of \in ctx.accounts => Sane(ctx, Fraction(reply, l))
  BY DEF Fraction
<1>2. \A s \in Session(base) : \A lanes, o :
        (Has(r, s) => Sane(ctx, o)) => Sane(ctx, QuotaRequest(r, s, of, lanes, o))
  BY DEF QuotaRequest
<1>3. \A s \in Session(base) : \A otherwise :
        Sane(ctx, otherwise) => Sane(ctx, AntigravitySummary(r, s, of, otherwise))
  BY <1>1, <1>2 DEF AntigravitySummary
<1>4. Sane(ctx, AntigravityModels(r, base, of))
  <2>1. base.models \in Session(base) /\ base.quota \in Session(base)
    BY DEF Session
  <2> DEFINE shown == Fraction(r[base.quota], "model")
             buckets == QuotaRequest(r, base.quota, of, [model |-> {"over"}],
                          IF \E w \in shown.shows : w.quota = Unknown
                          THEN Fails("QuotaUnavailable") ELSE shown)
             listed == QuotaRequest(r, base.models, of, [model |-> {"over"}],
                                    Fraction(r[base.models], "model"))
  <2>2. Sane(ctx, listed)
    BY <1>1, <1>2, <2>1
  <2>3. Sane(ctx, buckets)
    <3>1. (Has(r, base.quota) => Sane(ctx, shown)) /\ Sane(ctx, Fails("QuotaUnavailable"))
      BY <1>1, <2>1 DEF Done
    <3> HIDE DEF shown
    <3> QED BY <1>2, <2>1, <3>1
  <2> HIDE DEF buckets, listed
  <2>4. AntigravityModels(r, base, of) \in {buckets, listed}
    BY DEF AntigravityModels, buckets, listed
  <2> QED BY <2>2, <2>3, <2>4
<1>5. {base.who, base.plan, base.project, base.summary} \subseteq Session(base)
  BY DEF Session
<1> DEFINE summary == AntigravitySummary(r, base.summary, of, AntigravityModels(r, base, of))
           withProject == AntigravitySummary(r, base.project, of, summary)
           subscribed == Step(r, Question(base.plan, of, NoLanes, {"project", "none"}, QuotaErrors),
                              Nothing)
<1>6. Sane(ctx, summary)
  BY <1>3, <1>4, <1>5
<1>7. Sane(ctx, withProject)
  BY <1>3, <1>5, <1>6
<1>8. Sane(ctx, subscribed)
  BY <1>5
<1> HIDE DEF summary, withProject, subscribed
<1>9. Sane(ctx, Instead(subscribed, Undecided \cup {"Transient", "Timeout"}, Nothing))
  BY <1>8
<1> DEFINE chosen == IF r[base.plan].error = None /\ r[base.plan].says = "project"
                     THEN withProject ELSE summary
           usage == Owned(of, Instead(subscribed, Undecided \cup {"Transient", "Timeout"}, Nothing)
                              ++ chosen)
<1>10. Done(ctx, usage)
  <2>1. Sane(ctx, chosen)
    BY <1>6, <1>7
  <2> HIDE DEF chosen
  <2> QED BY <1>9, <2>1
<1>11. AntigravityBase(r, base, of, expected) =
         Request(r, base.who, of, NoLanes, {"ok", "unnamed"},
           Valid(r[base.who].says = "ok",
             Require(expected \in {None, r[base.who].of}, "Authentication", usage)))
  BY DEF AntigravityBase, summary, withProject, subscribed
<1> HIDE DEF usage
<1> DEFINE body == Valid(r[base.who].says = "ok",
                     Require(expected \in {None, r[base.who].of}, "Authentication", usage))
<1>12. Done(ctx, body)
  BY <1>10
<1> HIDE DEF body
<1>13. Done(ctx, Request(r, base.who, of, NoLanes, {"ok", "unnamed"}, body))
  BY <1>5, <1>12
<1> QED BY <1>11, <1>13 DEF body

\* One asked with the login of the keychain.
LEMMA SessionDone ==
  ASSUME NEW ctx, Context(ctx), NEW r, Answered(ctx, r), NEW base \in {Daily, Prod},
         Session(base) \cap ctx.never = {}, \A s \in Session(base) : Has(r, s) => r[s].of \in ctx.accounts,
         base.again \notin ctx.never, ~Has(r, base.keychain) => base.keychain \notin ctx.never,
         Has(r, base.keychain) => r[base.keychain].of \in ctx.accounts, NEW expected
  PROVE  Done(ctx, AntigravitySession(r, base, expected))
<1> DEFINE fails == {"Authentication", "LocalCredentialStorage", "Internal", "Unavailable"}
           usage == AntigravityBase(r, base, r[base.keychain].of, expected)
           again == Native(r, base.again, fails,
                           Require(r[base.again].of = r[base.keychain].of, "Authentication", Nothing))
           whole == Owned(r[base.keychain].of, usage ++ again)
<1> USE OutcomesSane, WaysSane, UsualErrors, RequestsSane
<1>1. fails \subseteq ctx.errors
  OBVIOUS
<1>2. MayAsk(ctx, base.again, Login) /\ (~Has(r, base.keychain) => MayAsk(ctx, base.keychain, Login))
  <2>1. base.again \in Prelims /\ base.again # "token" /\ base.keychain \in Prelims /\ base.keychain # "token"
    <3>1. "token" \notin Settings
      BY DEF Settings
    <3> QED BY <3>1, BasesApart DEF Prelims
  <2> QED BY <2>1 DEF MayAsk
<1>3. AntigravitySession(r, base, expected) = Native(r, base.keychain, fails, whole)
  BY DEF AntigravitySession
<1> HIDE DEF fails
<1>4. Sane(ctx, again)
  BY <1>1, <1>2
<1>5. CASE Has(r, base.keychain)
  <2>1. Done(ctx, usage)
    BY <1>5, BaseDone
  <2> HIDE DEF usage, again
  <2>2. Done(ctx, whole)
    BY <1>4, <1>5, <2>1 DEF Done
  <2> HIDE DEF whole
  <2>3. Native(r, base.keychain, fails, whole) = Require(r[base.keychain].says = "ok", "Authentication", whole)
    BY <1>5, QuestionFields DEF Native, Step, Has
  <2> QED BY <1>3, <2>2, <2>3
<1>6. CASE ~Has(r, base.keychain)
  <2> HIDE DEF whole
  <2> QED BY <1>1, <1>2, <1>3, <1>6
<1> QED BY <1>5, <1>6

\* The service of the program itself.
LEMMA ServiceDone ==
  ASSUME NEW ctx, Context(ctx), NEW r, Answered(ctx, r), Services \cap ctx.never = {}, Login \in ctx.askers,
         Has(r, "service_before") => r.service_before.of \in ctx.accounts,
         Has(r, "service_quota") => r.service_quota.of \in ctx.accounts,
         NEW expected, NEW error \in ctx.errors
  PROVE  Done(ctx, AntigravityService(r, expected, error))
<1> DEFINE owner(s, o) == Run(r, s, {"ok", "unnamed"}, Require(r[s].says = "ok", "Authentication", o))
           fraction == Fraction(r.service_quota, "model")
           after == owner("service_after", Require(r.service_after.of = r.service_before.of, "Authentication",
                                                   Nothing))
           quota == Require(expected \in {None, r.service_before.of}, "Authentication",
                      Step(r, Question("service_quota", Login, [model |-> {"over"}], {"ok", "empty"},
                                       HttpErrors),
                        Require(r.service_quota.says = "ok", "QuotaUnavailable", fraction ++ after)))
           probe == owner("service_before", quota)
           several == Require(r.services.says = "one" \/ expected # None, "Authentication", probe)
           named == Require(r.services.says # "none", "Unavailable", several)
           found == Run(r, "services", {"none", "one", "several"}, named)
<1> USE OutcomesSane, WaysSane, UsualErrors, RequestsSane
<1>0. \A s \in Services : MayAsk(ctx, s, Login)
  BY BasesApart DEF MayAsk, Services
<1>a. /\ \A s \in Services : \A o : (Has(r, s) => Sane(ctx, o)) => Sane(ctx, owner(s, o))
      /\ "services" \in Services /\ "service_before" \in Services /\ "service_quota" \in Services
      /\ "service_after" \in Services
  BY <1>0 DEF Services
<1>1. Sane(ctx, after)
  BY <1>a
<1>2. Has(r, "service_quota") => Sane(ctx, fraction)
  BY LanesSane DEF Fraction
<1> HIDE DEF after, fraction
<1>3. Sane(ctx, quota)
  BY <1>0, <1>a, <1>1, <1>2
<1> HIDE DEF quota
<1>4. Sane(ctx, probe)
  BY <1>a, <1>3
<1>5. ~Open(probe) => Has(r, "service_before")
  BY StepsEnd DEF Run
<1> HIDE DEF probe
<1>6. Sane(ctx, named) /\ Sane(ctx, found)
  BY <1>0, <1>a, <1>4
<1>7. ~Open(named) => named = probe
  BY SimpleOutcomes, SMTT(30) DEF Require, Open, IsOutcome
<1> HIDE DEF named
<1>8. ~Open(found) => found = named
  BY StepsEnd DEF Run
<1> HIDE DEF found
<1>9. Done(ctx, Owned(r.service_before.of, found))
  <2>1. CASE Open(found)
    BY <1>6, <2>1 DEF Owned, Done, Owns
  <2>2. CASE ~Open(found)
    BY <1>5, <1>6, <1>7, <1>8, <2>2
  <2> QED BY <2>1, <2>2
<1>10. AntigravityService(r, expected, error) =
         Instead(Owned(r.service_before.of, found), {"Unavailable"}, Fails(error))
  BY DEF AntigravityService, found, named, several, probe, quota, after, fraction
<1> QED BY <1>9, <1>10 DEF Instead

\* With a token that is there, nothing else is looked for.
LEMMA TokensVouched ==
  ASSUME NEW ctx, Usual(ctx), NEW r, Answered(ctx, r), "token" \notin ctx.never,
         Has(r, "token") => r.token.of \in ctx.accounts /\ r.token.says # "none"
  PROVE  \A native : Done(ctx, Explicit(r, native))
<1> TAKE native
<1>1. Context(ctx) /\ MayAsk(ctx, "token", Self) /\ "Authentication" \in ctx.errors
  <2>1. "token" \in Prelims
    BY DEF Prelims, Sources
  <2> QED BY <2>1, UsualErrors DEF Usual, MayAsk
<1> DEFINE said == IF r.token.says = "none" THEN native
                   ELSE Require(r.token.says = "ok", "Authentication", Having(r.token.of))
<1>2. ASSUME Has(r, "token") PROVE Done(ctx, said)
  <2>1. Done(ctx, Having(r.token.of))
    BY <1>1, <1>2, OutcomesSane
  <2> QED BY <1>1, <1>2, <2>1, WaysSane
<1> HIDE DEF said
<1>3. Done(ctx, Setting(r, "token", {"ok", "none", "malformed"}, said))
  BY <1>1, <1>2, RequestsSane
<1> QED BY <1>3 DEF Explicit, said

LEMMA GivenDone ==
  ASSUME NEW ctx, Usual(ctx), NEW r, Answered(ctx, r), Ours(ctx.accounts, r), "token" \notin ctx.never,
         Has(r, "token") => r.token.of \in ctx.accounts /\ r.token.says # "none"
  PROVE  Done(ctx, Antigravity(r))
<1> DEFINE asked == AntigravityAsked(r)
           native == AntigravityBases(AntigravitySession(r, Daily, None),
                                      AntigravitySession(r, Prod, asked))
           token == Explicit(r, Having(None))
           given == AntigravityBases(AntigravityBase(r, Daily, token.account, None),
                                     AntigravityBase(r, Prod, token.account, asked))
<1>1. Done(ctx, token)
  BY TokensVouched
<1>2. ~Open(token) => token.account \in ctx.accounts /\ token.account # None
  BY <1>1, NoneIsNothing DEF Done, Owns, Usual, Context
<1>3. \A base \in {Daily, Prod} :
        /\ Session(base) \cap ctx.never = {}
        /\ \A s \in Session(base) : Has(r, s) => r[s].of \in ctx.accounts
  <2>1. Context(ctx) /\ ctx.never \subseteq Prelims
    BY DEF Usual, Prelims
  <2> QED BY <2>1, BasesApart, QuestionsSane
<1>4. token.account \in ctx.accounts => Done(ctx, given)
  <2>1. ASSUME token.account \in ctx.accounts
        PROVE  /\ Done(ctx, AntigravityBase(r, Daily, token.account, None))
               /\ Done(ctx, AntigravityBase(r, Prod, token.account, asked))
    BY <1>3, <2>1, BaseDone DEF Usual
  <2> QED BY <2>1 DEF AntigravityBases, Instead
<1> HIDE DEF native, token, given
<1>5. Antigravity(r) =
         Using(token, IF token.account # None THEN given ELSE AntigravityNative(r, asked, native))
  BY DEF Antigravity, native, token, given
<1> QED BY <1>1, <1>2, <1>4, <1>5 DEF Using

\* Whatever asks for a quota with a key, or with a saved credential of that kind.
LEMMA QuotaDone ==
  ASSUME NEW ctx, Usual(ctx), NEW r, Answered(ctx, r), Ours(ctx.accounts, r), Self \in ctx.askers,
         "token" \notin ctx.never,
         Has(r, "token") => r.token.of \in ctx.accounts /\ r.token.says # "none",
         NEW p \in Providers, NEW kind,
         kind # "local" => ctx.errors = AllErrors,
         kind = "local" => p \in CatalogKeys \cup KeyApis \cup {"factory", "antigravity"}
  PROVE  Done(ctx, Quota(p, kind, r))
<1> USE OutcomesSane, WaysSane, QuestionsSane, LanesSane, UsualErrors
<1>1. CASE kind # "local" /\ p = "codex"
  BY <1>1, AgentsDone DEF Quota
<1>2. CASE kind # "local" /\ p = "amp"
  BY <1>2, AgentsDone DEF Quota
<1>3. CASE kind \in {"owned", "borrowed"} /\ p = "factory"
  <2>1. {"OAuth", "QuotaForbidden"} \subseteq ctx.errors
    BY <1>3 DEF AllErrors, AccountEnds
  <2>2. Quota(p, kind, r) = FactoryOAuth(r)
    BY <1>3 DEF Quota
  <2> QED BY <2>1, <2>2, AgentsDone
<1>4. CASE kind # "local" /\ p = "kiro"
  <2> DEFINE usage == KiroUsage(r, Self, kind = "borrowed")
             metadata == KiroMetadata(r, usage)
  <2>1. Sane(ctx, usage) /\ Sane(ctx, metadata)
    BY KiroSane
  <2>2. ~Open(metadata) => ~Open(usage)
    <3>1. metadata = Setting(r, "region", {"ok", "conflict"}, Valid(r.region.says = "ok", usage))
      BY DEF KiroMetadata
    <3> HIDE DEF usage, metadata
    <3>2. ~Open(metadata) => metadata = Valid(r.region.says = "ok", usage)
      BY <3>1, StepsEnd DEF Setting
    <3>3. Open(Fails("InvalidData"))
      BY UsualErrors, SimpleOutcomes DEF Open, IsOutcome
    <3> QED BY <3>2, <3>3 DEF Valid, Require
  <2>3. ~Open(usage) => Has(r, "limits")
    <3> DEFINE limits == Request(r, "limits", Self, [requests |-> UL, trial |-> UL], {"ok"},
                           OrElse(May(r.limits, "requests") ++ May(r.limits, "trial"),
                                  "QuotaUnavailable"))
               refused == Instead(limits, {"Authentication"}, Fails("OwnerRefreshRequired"))
               asked == IF kind = "borrowed" THEN refused ELSE limits
    <3>1. usage = Usage(Self, asked)
      BY DEF KiroUsage
    <3>2. ~Open(limits) => Has(r, "limits")
      BY StepsEnd DEF Request
    <3> HIDE DEF limits
    <3>3. "OwnerRefreshRequired" # None
      BY UsualErrors
    <3>4. Open(limits) => Open(refused)
      BY <3>3, SimpleOutcomes DEF Instead, Open, IsOutcome
    <3>5. Open(asked) => Open(usage)
      BY <3>1 DEF Usage
    <3> QED BY <3>2, <3>4, <3>5
  <2>a. Has(r, "limits") => r["limits"].of \in ctx.accounts
    <3>1. "limits" \notin Prelims
      BY DEF Prelims, Sources, Settings, Vaulted, Refreshing
    <3> QED BY <3>1
  <2> HIDE DEF usage, metadata
  <2>4. Done(ctx, Owned(r["limits"].of, metadata))
    <3>1. CASE Open(metadata)
      BY <2>1, <3>1 DEF Owned, Done, Owns
    <3>2. CASE ~Open(metadata)
      BY <2>1, <2>2, <2>3, <2>a, <3>2
    <3> QED BY <3>1, <3>2
  <2> QED BY <1>4, <2>4 DEF Quota, usage, metadata
<1>5. CASE \/ p \in CatalogKeys \cup KeyApis
           \/ kind \notin {"owned", "borrowed"} /\ p = "factory"
           \/ p = "antigravity"
  <2>1. Quota(p, kind, r) = Local(p, r)
    BY <1>5 DEF Quota, CatalogKeys, KeyApis
  <2>2. Done(ctx, FactoryLocal(r)) /\ Done(ctx, Antigravity(r))
    BY AgentsDone, GivenDone
  <2>3. p \in CatalogKeys \cup KeyApis \cup {"factory", "antigravity"}
    BY <1>5
  <2>4. Done(ctx, Local(p, r))
    BY <2>2, <2>3, KeysDone, PlansDone, GatewaysDone, InfrastructureDone
       DEF Local, CatalogKeys, KeyApis
  <2> QED BY <2>1, <2>4
<1>6. CASE kind # "local" /\ p \in CatalogLogins /\ p # "kiro"
  <2>1. Quota(p, kind, r) = Local(p, r) /\ p \in Logins
    BY <1>6 DEF Quota, CatalogLogins, Logins
  <2>2. PICK native : Cred(p, r) = Explicit(r, native)
    BY <1>6 DEF Cred, CatalogLogins, ClaudeToken, GeminiToken, CopilotToken, CursorToken, GrokToken,
                VertexToken, AzureToken
  <2>3. Done(ctx, Cred(p, r))
    BY <2>2, TokensVouched
  <2> QED BY <2>1, <2>3, LoginsDone
<1> QED BY <1>1, <1>2, <1>3, <1>4, <1>5, <1>6 DEF Providers, Agents

----------------------------------------------------------------------------
(* A credential, once found, stays what it is.                               *)

\* Replies that are the same where a credential is looked for.
Agree(r1, r2) == \A s \in Sources : /\ s \in DOMAIN r1 <=> s \in DOMAIN r2
                                    /\ s \in DOMAIN r1 => r1[s] = r2[s]

LEMMA StepsSame ==
  ASSUME NEW r1, NEW r2, Agree(r1, r2)
  PROVE  /\ \A s, of, lanes, says, fails, o1, o2 : s \in Sources /\ (Has(r1, s) => o1 = o2)
              => Step(r1, Question(s, of, lanes, says, fails), o1) = Step(r2, Question(s, of, lanes, says, fails), o2)
         /\ \A s, of, lanes, says, o1, o2 : s \in Sources /\ (Has(r1, s) => o1 = o2)
              => Request(r1, s, of, lanes, says, o1) = Request(r2, s, of, lanes, says, o2)
         /\ \A s, says, o1, o2 : s \in Sources /\ (Has(r1, s) => o1 = o2)
              => Setting(r1, s, says, o1) = Setting(r2, s, says, o2)
         /\ \A s, says, o1, o2 : s \in Sources /\ (Has(r1, s) => o1 = o2)
              => Run(r1, s, says, o1) = Run(r2, s, says, o2)
         /\ \A s, fails, o1, o2 : s \in Sources /\ (Has(r1, s) => o1 = o2)
              => Native(r1, s, fails, o1) = Native(r2, s, fails, o2)
         /\ \A o1, o2 : (o1 = o2) => Explicit(r1, o1) = Explicit(r2, o2)
<1>1. \A s, of, lanes, says, fails, o1, o2 : s \in Sources /\ (Has(r1, s) => o1 = o2)
        => Step(r1, Question(s, of, lanes, says, fails), o1) = Step(r2, Question(s, of, lanes, says, fails), o2)
  <2> TAKE s, of, lanes, says, fails, o1, o2
  <2> DEFINE q == Question(s, of, lanes, says, fails)
  <2>1. q.step = s
    BY QuestionFields
  <2> HIDE DEF q
  <2> QED BY <2>1 DEF Agree, Step, Has, q
<1>2. \A s \in Sources : Has(r1, s) => r1[s] = r2[s]
  BY DEF Agree, Has
<1>3. \A s, fails, o1, o2 : s \in Sources /\ (Has(r1, s) => o1 = o2)
        => Native(r1, s, fails, o1) = Native(r2, s, fails, o2)
  <2> TAKE s, fails, o1, o2
  <2> HAVE s \in Sources /\ (Has(r1, s) => o1 = o2)
  <2>1. Has(r1, s) => Require(r1[s].says = "ok", "Authentication", o1) = Require(r2[s].says = "ok", "Authentication", o2)
    BY <1>2
  <2> QED BY <1>1, <2>1 DEF Native
<1>4. \A s, says, o1, o2 : s \in Sources /\ (Has(r1, s) => o1 = o2)
        => Setting(r1, s, says, o1) = Setting(r2, s, says, o2)
  BY <1>1 DEF Setting
<1>5. \A o1, o2 : (o1 = o2) => Explicit(r1, o1) = Explicit(r2, o2)
  <2> TAKE o1, o2
  <2> HAVE o1 = o2
  <2>1. "token" \in Sources
    BY DEF Sources
  <2>2. Has(r1, "token") =>
          (IF r1.token.says = "none" THEN o1 ELSE Require(r1.token.says = "ok", "Authentication", Having(r1.token.of)))
          = (IF r2.token.says = "none" THEN o2 ELSE Require(r2.token.says = "ok", "Authentication", Having(r2.token.of)))
    BY <1>2, <2>1
  <2> QED BY <1>4, <2>1, <2>2 DEF Explicit
<1> QED BY <1>1, <1>3, <1>4, <1>5 DEF Request, Run

LEMMA FirstSame ==
  ASSUME NEW r1, NEW r2, Agree(r1, r2), NEW sources, DOMAIN sources \subseteq {1, 2, 3, 4},
         \A i \in DOMAIN sources : sources[i] \in Sources, NEW fails, NEW passed
  PROVE  FirstOf(r1, sources, fails, passed) = FirstOf(r2, sources, fails, passed)
<1> DEFINE read(r) == {i \in DOMAIN sources : sources[i] \in DOMAIN r}
           failed(r) == {i \in read(r) : r[sources[i]].error # None}
           found(r) == {i \in read(r) \ failed(r) : r[sources[i]].says = "ok"}
           kept(r) == {i \in failed(r) : r[sources[i]].error \notin passed}
<1>1. read(r1) = read(r2) /\ \A i \in read(r1) : r1[sources[i]] = r2[sources[i]]
  BY DEF Agree
<1>2. failed(r1) = failed(r2)
  BY <1>1
<1>3. found(r1) = found(r2) /\ kept(r1) = kept(r2)
  BY <1>1, <1>2
<1>4. found(r1) \subseteq read(r1) /\ kept(r1) \subseteq read(r1)
  OBVIOUS
<1> DEFINE one(F) == CHOOSE i \in F : TRUE
           last(K) == CHOOSE i \in K : \A j \in K : j <= i
           first(r, F, R, K) ==
             IF F # {} THEN Having(r[sources[one(F)]].of)
             ELSE IF Cardinality(R) < Len(sources)
             THEN Asks(Question(sources[Cardinality(R) + 1], Login, NoLanes, {"ok", "missing"}, fails))
             ELSE Fails(IF K = {} THEN "Authentication" ELSE r[sources[last(K)]].error)
<1>5. \A r : FirstOf(r, sources, fails, passed) = first(r, found(r), read(r), kept(r))
  BY DEF FirstOf
<1>6. found(r1) # {} => r1[sources[one(found(r1))]] = r2[sources[one(found(r1))]]
  <2>1. found(r1) # {} => one(found(r1)) \in found(r1)
    OBVIOUS
  <2> QED BY <1>1, <1>4, <2>1
<1>7. kept(r1) # {} => r1[sources[last(kept(r1))]] = r2[sources[last(kept(r1))]]
  <2>1. kept(r1) \in SUBSET {1, 2, 3, 4}
    BY <1>4
  <2>2. kept(r1) # {} => \E i \in kept(r1) : \A j \in kept(r1) : j <= i
    BY <2>1, LastOfFew
  <2>3. kept(r1) # {} => last(kept(r1)) \in kept(r1)
    BY <2>2
  <2> QED BY <1>1, <1>4, <2>3
<1> HIDE DEF one, last, read, found, kept, failed
<1> QED BY <1>1, <1>3, <1>5, <1>6, <1>7

LEMMA CredsSame ==
  ASSUME NEW r1, NEW r2, Agree(r1, r2), NEW p \in Logins
  PROVE  Cred(p, r1) = Cred(p, r2)
<1>0. /\ \A s \in Sources : Has(r1, s) => r1[s] = r2[s]
      /\ "url" \in Sources /\ "token" \in Sources /\ "keychain" \in Sources /\ "file" \in Sources
      /\ "apps" \in Sources /\ "hosts" \in Sources /\ "gh_hosts" \in Sources /\ "state" \in Sources
      /\ "az" \in Sources /\ "az_token" \in Sources /\ "adc" \in Sources /\ "refresh" \in Sources
      /\ "secrets" \in Sources /\ "program" \in Sources
  BY DEF Agree, Has, Sources
<1>a. FirstOf(r1, <<"keychain", "file">>, KeychainErrors, Passed) = FirstOf(r2, <<"keychain", "file">>, KeychainErrors, Passed)
  <2> DEFINE sources == <<"keychain", "file">>
  <2>1. DOMAIN sources \subseteq {1, 2, 3, 4} /\ \A i \in DOMAIN sources : sources[i] \in Sources
    BY <1>0
  <2> HIDE DEF sources
  <2>2. FirstOf(r1, sources, KeychainErrors, Passed) = FirstOf(r2, sources, KeychainErrors, Passed)
    BY <2>1, FirstSame
  <2> QED BY <2>2 DEF sources
<1>b. FirstOf(r1, <<"apps", "hosts", "gh_hosts", "keychain">>, KeychainErrors, Passed)
        = FirstOf(r2, <<"apps", "hosts", "gh_hosts", "keychain">>, KeychainErrors, Passed)
  <2> DEFINE sources == <<"apps", "hosts", "gh_hosts", "keychain">>
  <2>1. DOMAIN sources \subseteq {1, 2, 3, 4} /\ \A i \in DOMAIN sources : sources[i] \in Sources
    BY <1>0
  <2> HIDE DEF sources
  <2>2. FirstOf(r1, sources, KeychainErrors, Passed) = FirstOf(r2, sources, KeychainErrors, Passed)
    BY <2>1, FirstSame
  <2> QED BY <2>2 DEF sources
<1> USE <1>0, StepsSame
<1>1. ClaudeToken(r1) = ClaudeToken(r2) /\ CopilotToken(r1) = CopilotToken(r2)
  BY <1>a, <1>b DEF ClaudeToken, CopilotToken
<1>2. GeminiToken(r1) = GeminiToken(r2) /\ GrokToken(r1) = GrokToken(r2)
  BY DEF GeminiToken, GrokToken
<1>3. CursorToken(r1) = CursorToken(r2)
  <2> DEFINE state(r) == Native(r, "state", {"Authentication", "CredentialStorage", "InvalidData"},
                                Having(r.state.of))
             keychain(r) == Native(r, "keychain", KeychainErrors \ {"Internal"}, Having(r["keychain"].of))
             found(r) == IF "state" \in DOMAIN r
                         THEN IF r.state.error = None /\ r.state.says = "ok" THEN state(r) ELSE keychain(r)
                         ELSE state(r)
  <2>1. state(r1) = state(r2) /\ keychain(r1) = keychain(r2)
    OBVIOUS
  <2>2. /\ "state" \in DOMAIN r1 <=> "state" \in DOMAIN r2
        /\ "state" \in DOMAIN r1 => r1.state = r2.state
    BY DEF Agree
  <2> HIDE DEF state, keychain
  <2>3. found(r1) = found(r2)
    BY <2>1, <2>2
  <2> HIDE DEF found
  <2>4. \A r : CursorToken(r) = Explicit(r, found(r))
    BY DEF CursorToken, found, state, keychain
  <2> QED BY <2>3, <2>4
<1>4. VertexToken(r1) = VertexToken(r2)
  <2> DEFINE again(r) == Request(r, "refresh", r.adc.of, NoLanes, {"ok"}, Having(r.refresh.of))
             said(r) == Require(r.adc.says # "missing", "Authentication",
                          IF r.adc.says = "ok" THEN Having(r.adc.of) ELSE again(r))
             found(r) == Step(r, Question("adc", Login, NoLanes, {"ok", "missing", "expiring"},
                                          {"Authentication", "CredentialStorage", "InvalidData"}), said(r))
  <2>1. Has(r1, "adc") => again(r1) = again(r2)
    OBVIOUS
  <2> HIDE DEF again
  <2>2. Has(r1, "adc") => said(r1) = said(r2)
    BY <2>1
  <2> HIDE DEF said
  <2>3. found(r1) = found(r2)
    BY <2>2
  <2> HIDE DEF found
  <2>4. \A r : VertexToken(r) = Explicit(r, found(r))
    BY DEF VertexToken, found, said, again
  <2> QED BY <2>3, <2>4
<1>5. AzureToken(r1) = AzureToken(r2)
  <2> DEFINE asked(r) == Run(r, "az_token", {"ok", "malformed"},
                           Require(r.az_token.says = "ok", "Authentication", Having(r.az_token.of)))
             found(r) == Setting(r, "az", {"ok", "missing"}, Require(r.az.says = "ok", "Unavailable", asked(r)))
  <2>1. asked(r1) = asked(r2)
    OBVIOUS
  <2> HIDE DEF asked
  <2>2. found(r1) = found(r2)
    BY <2>1
  <2> HIDE DEF found
  <2>3. \A r : AzureToken(r) = Explicit(r, found(r))
    BY DEF AzureToken, found, asked
  <2> QED BY <2>2, <2>3
<1>6. KiroToken(r1) = KiroToken(r2)
  <2>1. KiroFile(r1) = KiroFile(r2)
    BY DEF KiroFile
  <2> QED BY <2>1 DEF KiroToken
<1>7. AmpToken(r1) = AmpToken(r2)
  <2> DEFINE found(r) == Step(r, Question("secrets", Login, NoLanes, {"ok", "missing"},
                                          {"Authentication", "InvalidData", "Internal"}),
                              Having(IF r.secrets.says = "ok" THEN r.secrets.of ELSE None))
             said(r) == IF r.url.says = "other" THEN AmpProgram(r)
                        ELSE Using(AmpKey(r), IF AmpKey(r).account = None THEN AmpProgram(r) ELSE AmpKey(r))
  <2>1. AmpProgram(r1) = AmpProgram(r2) /\ found(r1) = found(r2)
    BY DEF AmpProgram
  <2> HIDE DEF found
  <2>2. AmpKey(r1) = AmpKey(r2)
    BY <2>1 DEF AmpKey, found
  <2>3. Has(r1, "url") => said(r1) = said(r2)
    BY <2>1, <2>2
  <2> HIDE DEF said
  <2>4. \A r : AmpToken(r) = Setting(r, "url", {"public", "other"}, said(r))
    BY DEF AmpToken, said
  <2> QED BY <2>3, <2>4
<1> QED BY <1>1, <1>2, <1>3, <1>4, <1>5, <1>6, <1>7 DEF Cred, Logins, CatalogLogins


----------------------------------------------------------------------------
(* Whom a local fetch asks, and whose usage it comes to.                     *)

\* A token that is there is whose the usage is, unless Amp is to be asked at another address.
LEMMA ExplicitIs ==
  ASSUME NEW r, NEW native, ~Open(Explicit(r, native))
  PROVE  /\ Has(r, "token")
         /\ r.token.says # "none" => r.token.says = "ok" /\ Explicit(r, native) = Having(r.token.of)
<1> DEFINE said == IF r.token.says = "none" THEN native
                   ELSE Require(r.token.says = "ok", "Authentication", Having(r.token.of))
<1>1. Explicit(r, native) = Setting(r, "token", {"ok", "none", "malformed"}, said)
  BY DEF Explicit
<1> HIDE DEF said
<1>2. Has(r, "token") /\ Explicit(r, native) = said
  BY <1>1, StepsEnd DEF Setting
<1>3. Open(Fails("Authentication"))
  BY KnownErrors, SimpleOutcomes DEF Open, IsOutcome
<1> QED BY <1>2, <1>3 DEF said, Require

LEMMA CredsExplicit ==
  ASSUME NEW r, NEW p \in Logins, ~Open(Cred(p, r)), Has(r, "token") => r.token.of \in Accounts
  PROVE  /\ p = "amp" => Has(r, "url")
         /\ ~(p = "amp" /\ r.url.says = "other") =>
              /\ Has(r, "token")
              /\ r.token.says # "none" => r.token.says = "ok" /\ Cred(p, r).account = r.token.of
<1>a. \A a : Having(a).account = a
  BY SimpleOutcomes DEF IsOutcome
<1>1. CASE p # "amp"
  <2>1. PICK native : Cred(p, r) = Explicit(r, native)
    BY <1>1 DEF Cred, Logins, CatalogLogins, ClaudeToken, GeminiToken, CopilotToken, CursorToken, GrokToken,
                VertexToken, AzureToken, KiroToken
  <2> QED BY <1>a, <1>1, <2>1, ExplicitIs
<1>2. CASE p = "amp"
  <2> DEFINE key == AmpKey(r)
             found == IF r.url.says = "other" THEN AmpProgram(r)
                      ELSE Using(key, IF key.account = None THEN AmpProgram(r) ELSE key)
  <2>1. Cred(p, r) = Setting(r, "url", {"public", "other"}, found)
    BY <1>2 DEF Cred, AmpToken
  <2>2. PICK native : key = Explicit(r, native)
    BY DEF AmpKey
  <2> HIDE DEF key
  <2>3. Has(r, "url") /\ Cred(p, r) = found
    <3> HIDE DEF found
    <3> QED BY <2>1, StepsEnd DEF Setting
  <2>4. ASSUME r.url.says # "other"
        PROVE  /\ Has(r, "token")
               /\ r.token.says # "none" => r.token.says = "ok" /\ Cred(p, r).account = r.token.of
    <3>1. ~Open(key)
      BY <2>3, <2>4 DEF Using
    <3>2. Has(r, "token")
      BY <2>2, <3>1, ExplicitIs
    <3>3. ASSUME r.token.says # "none" PROVE r.token.says = "ok" /\ Cred(p, r).account = r.token.of
      <4>1. key = Having(r.token.of) /\ r.token.says = "ok"
        BY <2>2, <3>1, <3>3, ExplicitIs
      <4>2. key.account = r.token.of /\ key.account # None
        BY <1>a, <3>2, <4>1, NoneIsNothing
      <4>3. Cred(p, r) = key
        BY <2>3, <2>4, <3>1, <4>2 DEF Using
      <4> QED BY <4>1, <4>2, <4>3
    <3> QED BY <3>2, <3>3
  <2> QED BY <1>2, <2>3, <2>4
<1> QED BY <1>1, <1>2

\* The contexts of the proofs below.
Ctx(errors, accounts, askers, never) ==
  [errors |-> errors, accounts |-> accounts, askers |-> askers, never |-> never]

LEMMA ContextFields ==
  \A errors, accounts, askers, never :
    /\ Ctx(errors, accounts, askers, never).errors = errors
    /\ Ctx(errors, accounts, askers, never).accounts = accounts
    /\ Ctx(errors, accounts, askers, never).askers = askers
    /\ Ctx(errors, accounts, askers, never).never = never
BY DEF Ctx

\* What is asked with the login of another program: until the credential is found only what
\* finds it is, and after that nothing but of that.
InSearch(p, r) ==
  IF Open(Cred(p, r)) THEN DOMAIN r \subseteq Prelims ELSE Ours({Cred(p, r).account}, r)
Searches(p, r, q) ==
  IF Open(Cred(p, r)) THEN q.step \in Prelims
  ELSE q.step \notin Sources /\ (q.step \notin Prelims => q.of = Cred(p, r).account)

\* A question of an adapter of this machine, and what it comes to.
Plainly(q) ==
  /\ q.of \in Asked /\ q.fails \subseteq ProviderErrors /\ q.step \notin Vaulted
  /\ q.step = "token" => q.of = Self
Reports(r) == \A s \in DOMAIN r : r[s].of \in Accounts /\ (r[s].error = None \/ r[s].error \in ProviderErrors)

LEMMA LoginTraced ==
  ASSUME NEW p \in Logins, NEW r, Reports(r), InSearch(p, r)
  PROVE  LET o == Local(p, r) IN
         /\ \A q \in o.asks : Plainly(q) /\ Searches(p, r, q)
         /\ o.error # None => o.error \in ProviderErrors
         /\ ~Open(o) => /\ ~Open(Cred(p, r)) /\ o.account = Cred(p, r).account /\ o.account \in Accounts
                        /\ \A w \in o.shows : w.of = o.account
<1> DEFINE c == Cred(p, r)
           o == Local(p, r)
           ctx0 == Ctx(ProviderErrors, {}, {}, Vaulted)
           ctx1 == Ctx(ProviderErrors, {c.account}, {c.account}, Vaulted \cup Sources)
<1> HIDE DEF c, o
<1>1. /\ ctx0.errors = ProviderErrors /\ ctx0.accounts = {} /\ ctx0.askers = {} /\ ctx0.never = Vaulted
      /\ ctx1.errors = ProviderErrors /\ ctx1.accounts = {c.account} /\ ctx1.askers = {c.account}
      /\ ctx1.never = Vaulted \cup Sources
  BY ContextFields
<1> HIDE DEF ctx0, ctx1
<1>2. Searching(ctx0) /\ Usual(ctx0)
  <2>1. Vaulted \cap Sources = {} /\ Refreshing \subseteq Vaulted /\ ProviderErrors \subseteq AllErrors
    BY DEF Vaulted, Sources, Refreshing, AllErrors
  <2> QED BY <1>1, <2>1 DEF Searching, Usual, Context
<1>3. Answered(ctx0, r) /\ Answered(ctx1, r)
  BY <1>1 DEF Answered, Reports
<1>4. Sane(ctx0, c) /\ Owns(Accounts, c)
  <2>1. \A s \in DOMAIN r : r[s].of \in Accounts
    BY DEF Reports
  <2> QED BY <1>2, <1>3, <2>1, CredsVouched DEF Vouched, c
<1>5. CASE Open(c)
  <2>1. DOMAIN r \subseteq Prelims
    BY <1>5 DEF InSearch, c
  <2>2. Done(ctx0, c)
    BY <1>4, <1>5 DEF Done, Owns
  <2>3. Done(ctx0, o)
    <3>1. Ours(ctx0.accounts, r)
      BY <2>1 DEF Ours
    <3> QED BY <1>2, <1>3, <2>2, <3>1, LoginsDone DEF c, o
  <2>4. Open(o)
    BY <1>1, <2>3 DEF Done, Owns
  <2>5. \A q \in o.asks : Plainly(q) /\ q.step \in Prelims
    BY <1>1, <2>3 DEF Done, Sane, Proper, Plainly
  <2> QED BY <1>1, <1>5, <2>3, <2>4, <2>5 DEF Done, Sane, Searches, c, o
<1>6. CASE ~Open(c)
  <2>1. c.account \in Accounts
    BY <1>4, <1>6 DEF Owns
  <2>2. Usual(ctx1)
    <3>1. Refreshing \subseteq Vaulted /\ ProviderErrors \subseteq AllErrors /\ Accounts \subseteq Asked
      BY DEF Vaulted, AllErrors, Asked
    <3> QED BY <1>1, <2>1, <3>1 DEF Usual, Context
  <2>3. Done(ctx1, c)
    <3>1. c.asks = {} /\ c.error = None
      BY <1>6 DEF Open
    <3>2. \A w \in c.shows : FALSE
      BY <1>1, <1>4 DEF Sane
    <3> QED BY <1>1, <1>4, <3>1, <3>2 DEF Done, Sane, Owns
  <2>4. Done(ctx1, o)
    <3>1. Ours(ctx1.accounts, r)
      BY <1>1, <1>6 DEF InSearch, c
    <3> QED BY <1>3, <2>2, <2>3, <3>1, LoginsDone DEF c, o
  <2>5. \A q \in o.asks : Plainly(q) /\ q.step \notin Sources /\ (q.step \notin Prelims => q.of = c.account)
    BY <1>1, <2>4 DEF Done, Sane, Proper, Plainly
  <2>6. ~Open(o) => o.account = c.account /\ \A w \in o.shows : w.of = c.account
    BY <1>1, <2>4 DEF Done, Sane, Owns
  <2> QED BY <1>1, <1>6, <2>1, <2>4, <2>5, <2>6 DEF Done, Sane, Searches, c, o
<1> QED BY <1>5, <1>6

\* What asks is there already, or does so in place.
LEMMA AsksOf ==
  /\ \A r, s, of, lanes, says, fails, o :
       \A x \in Step(r, Question(s, of, lanes, says, fails), o).asks :
          \/ s \notin DOMAIN r /\ x = Question(s, of, lanes, says, fails)
          \/ Has(r, s) /\ x \in o.asks
  /\ \A condition, e, o : \A x \in Require(condition, e, o).asks : x \in o.asks
  /\ \A condition, o : \A x \in Valid(condition, o).asks : x \in o.asks
  /\ \A o, p : \A x \in (o ++ p).asks : x \in o.asks \/ x \in p.asks
  /\ \A of, o : "account" \in DOMAIN o /\ "asks" \in DOMAIN o => \A x \in Owned(of, o).asks : x \in o.asks
<1>1. ASSUME NEW r, NEW s, NEW of, NEW lanes, NEW says, NEW fails, NEW o,
             NEW x \in Step(r, Question(s, of, lanes, says, fails), o).asks
      PROVE  \/ s \notin DOMAIN r /\ x = Question(s, of, lanes, says, fails)
             \/ Has(r, s) /\ x \in o.asks
  <2> DEFINE q == Question(s, of, lanes, says, fails)
  <2>1. q.step = s
    BY QuestionFields
  <2>2. Asks(q).asks = {q} /\ \A e : Fails(e).asks = {}
    BY SimpleOutcomes DEF IsOutcome
  <2> HIDE DEF q
  <2> QED BY <1>1, <2>1, <2>2 DEF Step, Has, q
<1>2. \A e : Fails(e).asks = {}
  BY SimpleOutcomes DEF IsOutcome
<1>3. \A condition, e, o : \A x \in Require(condition, e, o).asks : x \in o.asks
  BY <1>2 DEF Require
<1>4. \A condition, o : \A x \in Valid(condition, o).asks : x \in o.asks
  BY <1>3 DEF Valid
<1>5. ASSUME NEW o, NEW p, NEW x \in (o ++ p).asks PROVE x \in o.asks \/ x \in p.asks
  <2>1. [Nothing EXCEPT !.shows = o.shows \cup p.shows, !.told = o.told \cup p.told].asks = {}
    BY DEF Nothing
  <2> QED BY <1>5, <2>1 DEF ++
<1>6. \A of, o : "account" \in DOMAIN o /\ "asks" \in DOMAIN o => \A x \in Owned(of, o).asks : x \in o.asks
  BY DEF Owned
<1> QED BY <1>1, <1>3, <1>4, <1>5, <1>6

\* The accounts that look like one in a world; one of them logged in before an account, and it again
\* after.
Seem(w, a) == {b \in Accounts : a = b \/ (w.oneMail /\ {a, b} \cap w.personal = {})}
Between(past, w, of, a) ==
  \E i, j, k \in DOMAIN past :
    i < j /\ j < k /\ past[i] \in Seem(w, a) /\ past[j] = of /\ past[k] = a

\* Some logins in turn, and more of them.
History(past) == past \in Seq(Accounts) /\ Len(past) > 0
Extends(past, more) == \A i \in DOMAIN past : i \in DOMAIN more /\ more[i] = past[i]

LEMMA BetweenStays ==
  ASSUME NEW past, NEW more, Extends(past, more), NEW w, NEW of, NEW a, Between(past, w, of, a)
  PROVE  Between(more, w, of, a)
BY DEF Extends, Between

\* Replies of whoever is logged in, asked for three times over.
Ordered(past, w, r, s1, s2, s3) ==
  /\ s2 \in DOMAIN r => s1 \in DOMAIN r
  /\ s3 \in DOMAIN r => s2 \in DOMAIN r
  /\ \A s \in {s1, s2, s3} \cap DOMAIN r : r[s].like = Seem(w, r[s].of)
  /\ \E i, j, k \in DOMAIN past :
       /\ i <= j /\ j <= k
       /\ s1 \in DOMAIN r => r[s1].of = past[i]
       /\ s2 \in DOMAIN r => r[s2].of = past[j]
       /\ s3 \in DOMAIN r => r[s3].of = past[k]
InTurn(r, q, s1, s2, s3) ==
  /\ q.step = s1 => s1 \notin DOMAIN r
  /\ q.step = s2 => s1 \in DOMAIN r /\ s2 \notin DOMAIN r
  /\ q.step = s3 => s2 \in DOMAIN r /\ s3 \notin DOMAIN r
  /\ q.step \in {s1, s2, s3} => q.of = Login

\* Who answered the second, when the first and the third were answered by accounts that look
\* alike, or by the same.
LEMMA OrderedAlike ==
  ASSUME NEW past, History(past), NEW w, NEW r, NEW s1, NEW s2, NEW s3,
         Ordered(past, w, r, s1, s2, s3), s3 \in DOMAIN r, NEW a, r[s3].of = a
  PROVE  /\ s1 \in DOMAIN r /\ s2 \in DOMAIN r
         /\ r[s1].like = r[s3].like => r[s2].of \in Seem(w, a) \/ Between(past, w, r[s2].of, a)
         /\ r[s1].of = a => r[s2].of = a \/ Between(past, w, r[s2].of, a)
<1>1. s1 \in DOMAIN r /\ s2 \in DOMAIN r
  BY DEF Ordered
<1>2. r[s1].like = Seem(w, r[s1].of) /\ r[s3].like = Seem(w, a)
  BY <1>1 DEF Ordered
<1>3. PICK i, j, k \in DOMAIN past :
        i <= j /\ j <= k /\ r[s1].of = past[i] /\ r[s2].of = past[j] /\ a = past[k]
  BY <1>1 DEF Ordered
<1>4. i \in Nat /\ j \in Nat /\ k \in Nat /\ past[i] \in Accounts /\ past[k] \in Accounts
  BY DEF History
<1>5. past[i] \in Seem(w, past[i]) /\ a \in Seem(w, a)
  BY <1>3, <1>4 DEF Seem
<1>6. ASSUME past[i] \in Seem(w, a)
      PROVE  r[s2].of \in {past[i], a} \/ Between(past, w, r[s2].of, a)
  <2>1. i = j \/ j = k \/ (i < j /\ j < k)
    BY <1>3, <1>4
  <2>2. i < j /\ j < k => Between(past, w, r[s2].of, a)
    BY <1>3, <1>6 DEF Between
  <2> QED BY <1>3, <2>1, <2>2
<1>7. ASSUME r[s1].like = r[s3].like
      PROVE  r[s2].of \in Seem(w, a) \/ Between(past, w, r[s2].of, a)
  <2>1. past[i] \in Seem(w, a)
    BY <1>2, <1>3, <1>5, <1>7
  <2> QED BY <1>5, <1>6, <2>1
<1>8. ASSUME r[s1].of = a PROVE r[s2].of = a \/ Between(past, w, r[s2].of, a)
  BY <1>3, <1>5, <1>6, <1>8
<1> QED BY <1>1, <1>7, <1>8

\* Whose a window of a local usage may be beside the account of that.
Excused(w, past, a, x) ==
  \/ w.provider = "codex" /\ (x.lane = "extra" \/ x.of \in Seem(w, a))
  \/ /\ w.provider = "codex" \/ (w.provider = "antigravity" /\ ~w.keyed)
     /\ Between(past, w, x.of, a)

\* An outcome whose windows are of the extra usage of Codex.
Extra(o) == \A w \in o.shows : w.lane = "extra"

LEMMA ExtraKept ==
  /\ Extra(Nothing)
  /\ \A e : Extra(Fails(e))
  /\ \A q : Extra(Asks(q))
  /\ \A d, e : Extra(Notes(d, e))
  /\ \A condition, e, o : Extra(o) => Extra(Require(condition, e, o))
  /\ \A condition, o : Extra(o) => Extra(Valid(condition, o)) /\ Extra(When(condition, o))
  /\ \A o, p : Extra(o) /\ Extra(p) => Extra(o ++ p) /\ Extra(Join(o, p))
  /\ \A o, d : Extra(o) => Extra(Optional(o)) /\ Extra(Noted(o, d))
  /\ \A r, s, of, lanes, says, fails, o : Extra(o) => Extra(Step(r, Question(s, of, lanes, says, fails), o))
  /\ \A reply : Extra(May(reply, "extra"))
<1>1. /\ Extra(Nothing) /\ (\A e : Extra(Fails(e))) /\ (\A q : Extra(Asks(q))) /\ \A d, e : Extra(Notes(d, e))
  BY SimpleOutcomes DEF IsOutcome, Extra
<1>2. /\ \A condition, e, o : Extra(o) => Extra(Require(condition, e, o))
      /\ \A condition, o : Extra(o) => Extra(Valid(condition, o)) /\ Extra(When(condition, o))
  BY <1>1 DEF Require, Valid, When
<1>3. ASSUME NEW o, NEW p, Extra(o), Extra(p) PROVE Extra(o ++ p) /\ Extra(Join(o, p))
  <2>1. [Nothing EXCEPT !.shows = o.shows \cup p.shows, !.told = o.told \cup p.told].shows = o.shows \cup p.shows
    BY DEF Nothing
  <2>2. Extra(o ++ p)
    BY <1>3, <2>1 DEF ++, Extra
  <2> QED BY <1>3, <2>2 DEF Join
<1>4. \A o, d : Extra(o) => Extra(Optional(o)) /\ Extra(Noted(o, d))
  BY <1>1 DEF Optional, Noted
<1>5. \A r, s, of, lanes, says, fails, o : Extra(o) => Extra(Step(r, Question(s, of, lanes, says, fails), o))
  BY <1>1 DEF Step
<1>6. ASSUME NEW reply PROVE Extra(May(reply, "extra"))
  <2> DEFINE w == Measured(reply, "extra", Wire(reply, "extra").used, Wire(reply, "extra").limit, Wire(reply, "extra").left)
  <2>1. w.lane = "extra"
    BY DEF Measured
  <2>2. Plain(reply, "extra") = Valid(Sound(Wire(reply, "extra")),
                                  Valid(Coherent(Wire(reply, "extra").limit, Wire(reply, "extra").left), Shows(w)))
    BY DEF Plain, Window
  <2> HIDE DEF w
  <2>3. Extra(Shows(w))
    BY <2>1, SimpleOutcomes DEF IsOutcome, Extra
  <2> QED BY <1>2, <2>2, <2>3 DEF May, MayHave
<1> QED BY <1>1, <1>2, <1>3, <1>4, <1>5, <1>6

\* What a usage is put together from.
LEMMA ClosedOf ==
  /\ \A condition, e, o : e # None /\ ~Open(Require(condition, e, o))
       => condition /\ Require(condition, e, o) = o
  /\ \A condition, o : ~Open(Valid(condition, o)) => condition /\ Valid(condition, o) = o
  /\ \A o, p : ~Open(o ++ p) => ~Open(o) /\ ~Open(p) /\ (o ++ p).shows = o.shows \cup p.shows
  /\ \A of, o : {"asks", "error", "shows", "account"} \subseteq DOMAIN o /\ ~Open(Owned(of, o))
       => ~Open(o) /\ Owned(of, o).account = of /\ Owned(of, o).shows = o.shows
<1>1. \A e : e # None => Open(Fails(e))
  BY SimpleOutcomes DEF IsOutcome, Open
<1>2. \A condition, e, o : e # None /\ ~Open(Require(condition, e, o))
        => condition /\ Require(condition, e, o) = o
  BY <1>1 DEF Require
<1>3. \A condition, o : ~Open(Valid(condition, o)) => condition /\ Valid(condition, o) = o
  BY <1>2, KnownErrors DEF Valid
<1>4. ASSUME NEW o, NEW p, ~Open(o ++ p)
      PROVE  ~Open(o) /\ ~Open(p) /\ (o ++ p).shows = o.shows \cup p.shows
  <2>1. [Nothing EXCEPT !.shows = o.shows \cup p.shows, !.told = o.told \cup p.told].shows = o.shows \cup p.shows
    BY DEF Nothing
  <2> QED BY <1>4, <2>1 DEF ++
<1>5. \A of, o : {"asks", "error", "shows", "account"} \subseteq DOMAIN o /\ ~Open(Owned(of, o))
        => ~Open(o) /\ Owned(of, o).account = of /\ Owned(of, o).shows = o.shows
  BY DEF Owned
<1> QED BY <1>2, <1>3, <1>4, <1>5

\* Codex is asked who is logged in before and after its limits; what is shown is of that, or of one
\* that looks like it or was logged in between, and what the local credential adds is no more than
\* its extra usage.
LEMMA CodexTraced ==
  ASSUME NEW w, w.provider = "codex", NEW past, History(past), NEW r, Reports(r),
         Ordered(past, w, r, "before", "limits", "after")
  PROVE  LET o == CodexLocal(r) IN
         /\ \A q \in o.asks : Plainly(q) /\ InTurn(r, q, "before", "limits", "after")
         /\ o.error # None => o.error \in ProviderErrors
         /\ ~Open(o) => /\ o.account \in Accounts
                        /\ \A x \in o.shows : x.of = o.account \/ Excused(w, past, o.account, x)
<1> DEFINE o == CodexLocal(r)
           supplement == CodexLocalSupplement(r)
           windows == CodexWindows(r.limits)
           shown == Owned(r.after.of, windows ++ supplement)
           agreed == Valid(r.before.like = r.after.like, shown)
           third == CodexAccount(r, "after", agreed)
           second == Step(r, Question("limits", Login, CodexLanes, CodexCases, ProcessErrors), third)
           turns == {"before", "limits", "after"}
           ctx == Ctx(ProviderErrors, Accounts, Asked, Vaulted)
           rest == Ctx(ProviderErrors, Accounts, Asked, Vaulted \cup turns)
           one == Ctx(ProviderErrors, {r.limits.of}, Asked, Vaulted)
<1>0. o = CodexAccount(r, "before", second)
  BY DEF CodexLocal
<1> HIDE DEF o, supplement, windows, shown, agreed, third, second
<1>1. /\ ctx.errors = ProviderErrors /\ ctx.accounts = Accounts /\ ctx.askers = Asked /\ ctx.never = Vaulted
      /\ rest.errors = ProviderErrors /\ rest.accounts = Accounts /\ rest.askers = Asked
      /\ rest.never = Vaulted \cup turns
      /\ one.errors = ProviderErrors /\ one.accounts = {r.limits.of} /\ one.askers = Asked /\ one.never = Vaulted
  BY ContextFields
<1> HIDE DEF ctx, rest, one
<1>2. Refreshing \subseteq Vaulted /\ ProviderErrors \subseteq AllErrors /\ Accounts \subseteq Asked /\ Login \in Asked
  BY DEF Vaulted, AllErrors, Asked
<1>3. /\ Usual(ctx) /\ Context(ctx) /\ Answered(ctx, r) /\ Ours(ctx.accounts, r) /\ Login \in ctx.askers
      /\ Context(rest) /\ Answered(rest, r)
      /\ Has(r, "limits") => Context(one)
  BY <1>1, <1>2 DEF Usual, Context, Answered, Ours, Reports, Has
<1>4. Done(ctx, o)
  BY <1>3, AgentsDone DEF o
<1>5. \A known : Context(known) => \A reply : reply.of \in known.accounts => Sane(known, CodexWindows(reply))
  <2> SUFFICES ASSUME NEW known, Context(known), NEW reply, reply.of \in known.accounts
               PROVE  Sane(known, CodexWindows(reply))
    OBVIOUS
  <2> USE OutcomesSane, WaysSane, LanesSane, UsualErrors
  <2>1. \A l : Sane(known, CodexWindow(reply, l))
    BY DEF CodexWindow
  <2> QED BY <2>1 DEF CodexWindows
<1>6. Has(r, "limits") => Sane(rest, windows) /\ Sane(one, windows)
  BY <1>1, <1>3, <1>5 DEF windows, Reports, Has
<1>7. Sane(rest, supplement)
  <2>1. \A of \in Asked : \A s \in {"credential", "extra_usage", "inventory", "profile"} : MayAsk(rest, s, of)
    BY <1>1 DEF MayAsk, Vaulted, Refreshing
  <2>2. \A s \in {"credential", "extra_usage"} : Has(r, s) => r[s].of \in Accounts /\ r[s].of \in Asked
    BY <1>2 DEF Has, Reports
  <2>a. {"Timeout", "Authentication"} \subseteq rest.errors
    BY <1>3, UsualErrors
  <2> USE <1>3, OutcomesSane, WaysSane, LanesSane, RequestsSane
  <2>3. \A of \in Asked : \A extra : Sane(rest, extra) => Sane(rest, CodexSupplement(r, of, extra))
    BY <2>1 DEF CodexSupplement
  <2>4. Has(r, "credential") =>
          Sane(rest, Request(r, "extra_usage", r["credential"].of, [extra |-> L], {"ok"}, May(r.extra_usage, "extra")))
    BY <1>1, <2>1, <2>2
  <2> QED BY <1>2, <2>1, <2>2, <2>a, <2>3, <2>4 DEF CodexLocalSupplement, supplement
<1>8. Extra(supplement)
  BY ExtraKept DEF supplement, CodexLocalSupplement, CodexSupplement, Request
<1>9. /\ {"asks", "error", "shows", "account"} \subseteq DOMAIN (windows ++ supplement) \/ ~Has(r, "limits")
  <2>1. Has(r, "limits") => Sane(rest, windows ++ supplement)
    BY <1>3, <1>6, <1>7, OutcomesSane
  <2> QED BY <2>1 DEF Sane
<1>10. \A s, x : \A q \in CodexAccount(r, s, x).asks :
          \/ s \notin DOMAIN r /\ q.step = s /\ q.of = Login
          \/ Has(r, s) /\ q \in x.asks
  BY AsksOf, QuestionFields DEF CodexAccount, Run
<1>11. ASSUME NEW q \in o.asks PROVE InTurn(r, q, "before", "limits", "after")
  <2>1. CASE "before" \notin DOMAIN r /\ q.step = "before" /\ q.of = Login
    BY <2>1 DEF InTurn
  <2>2. CASE Has(r, "before") /\ q \in second.asks
    <3>1. CASE "limits" \notin DOMAIN r /\ q.step = "limits" /\ q.of = Login
      BY <2>2, <3>1 DEF InTurn, Has
    <3>2. CASE Has(r, "limits") /\ q \in third.asks
      <4>1. CASE "after" \notin DOMAIN r /\ q.step = "after" /\ q.of = Login
        BY <3>2, <4>1 DEF InTurn, Has
      <4>2. CASE q \in agreed.asks
        <5>1. q \in windows.asks \/ q \in supplement.asks
          BY <1>9, <3>2, <4>2, AsksOf DEF agreed, shown
        <5>2. q.step \notin turns
          BY <1>1, <1>6, <1>7, <3>2, <5>1 DEF Sane, Proper
        <5> QED BY <5>2 DEF InTurn
      <4> QED BY <1>10, <3>2, <4>1, <4>2 DEF third
    <3> QED BY <2>2, <3>1, <3>2, AsksOf, QuestionFields DEF second
  <2> QED BY <1>0, <1>10, <1>11, <2>1, <2>2
<1>12. ASSUME ~Open(o) PROVE \A x \in o.shows : x.of = o.account \/ Excused(w, past, o.account, x)
  <2>1. \A s, x : ~Open(CodexAccount(r, s, x)) => Has(r, s) /\ CodexAccount(r, s, x) = x
    <3> TAKE s, x
    <3> DEFINE named == Valid(r[s].says # "unnamed", x)
               known == Require(r[s].says # "none", "Authentication", named)
    <3>1. CodexAccount(r, s, x) = Step(r, Question(s, Login, NoLanes, {"chatgpt", "none", "unnamed"}, ProcessErrors), known)
      BY DEF CodexAccount, Run
    <3>2. ~Open(known) => known = named
      <4> HIDE DEF named
      <4> QED BY ClosedOf, KnownErrors
    <3>3. ~Open(named) => named = x
      BY ClosedOf
    <3> HIDE DEF named, known
    <3>4. ~Open(CodexAccount(r, s, x)) => Has(r, s) /\ CodexAccount(r, s, x) = known
      BY <3>1, StepsEnd
    <3> QED BY <3>2, <3>3, <3>4
  <2>2. o = second
    BY <1>0, <1>12, <2>1
  <2>3. Has(r, "limits") /\ second = third
    BY <1>12, <2>2, StepsEnd DEF second
  <2>4. third = agreed
    BY <1>12, <2>1, <2>2, <2>3 DEF third
  <2>5. r.before.like = r.after.like /\ agreed = shown /\ Has(r, "after")
    <3>1. ~Open(third) /\ ~Open(agreed)
      BY <1>12, <2>2, <2>3, <2>4
    <3>2. r.before.like = r.after.like /\ agreed = shown
      BY <3>1, ClosedOf DEF agreed
    <3>3. Has(r, "after")
      BY <2>1, <3>1 DEF third
    <3> QED BY <3>2, <3>3
  <2>6. o.account = r.after.of /\ o.shows = (windows ++ supplement).shows /\ ~Open(windows ++ supplement)
    BY <1>9, <1>12, <2>2, <2>3, <2>4, <2>5, ClosedOf DEF shown
  <2>7. o.shows = windows.shows \cup supplement.shows
    BY <2>6, ClosedOf
  <2>8. r.limits.of \in Seem(w, o.account) \/ Between(past, w, r.limits.of, o.account)
    BY <2>5, <2>6, OrderedAlike DEF Has
  <2>9. \A x \in windows.shows : x.of = r.limits.of
    BY <1>1, <1>6, <2>3 DEF Sane
  <2> QED BY <1>8, <2>7, <2>8, <2>9 DEF Extra, Excused
<1>13. \A q \in o.asks : Plainly(q)
  BY <1>1, <1>4 DEF Done, Sane, Proper, Plainly
<1>14. /\ o.error # None => o.error \in ProviderErrors
       /\ ~Open(o) => o.account \in Accounts
  BY <1>1, <1>4 DEF Done, Sane, Owns
<1> QED BY <1>11, <1>12, <1>13, <1>14 DEF o

\* The sessions of Antigravity: what the login of the keychain asks is of that.
Sessions(r) ==
  \A base \in {Daily, Prod} : \A s \in Session(base) \cap DOMAIN r :
    Has(r, base.keychain) /\ r[s].of = r[base.keychain].of
InSession(r, q) ==
  \A base \in {Daily, Prod} :
    /\ q.step = base.keychain => ~Has(r, base.keychain)
    /\ q.step \in Session(base) => Has(r, base.keychain) /\ q.of = r[base.keychain].of

\* An outcome that asks as it should, and is of one account, or of one logged in between.
OfOne(past, w, r, o) ==
  /\ \A q \in o.asks : /\ Plainly(q) /\ InSession(r, q)
                       /\ InTurn(r, q, "service_before", "service_quota", "service_after")
  /\ o.error # None => o.error \in ProviderErrors
  /\ ~Open(o) => /\ o.account \in Accounts
                 /\ \A x \in o.shows : x.of = o.account \/ Between(past, w, x.of, o.account)

LEMMA SessionTraced ==
  ASSUME NEW past, NEW w, NEW r, Reports(r), Sessions(r), NEW base, NEW other,
         \/ base = Daily /\ other = Prod
         \/ base = Prod /\ other = Daily,
         NEW expected
  PROVE  OfOne(past, w, r, AntigravitySession(r, base, expected))
<1> DEFINE o == AntigravitySession(r, base, expected)
           has == Has(r, base.keychain)
           mine == IF has THEN {r[base.keychain].of} ELSE {}
           never == Vaulted \cup Services \cup Session(other) \cup {other.keychain}
                      \cup (IF has THEN {base.keychain} ELSE {})
           ctx == Ctx(ProviderErrors, mine, mine, never)
<1>1. ctx.errors = ProviderErrors /\ ctx.accounts = mine /\ ctx.askers = mine /\ ctx.never = never
  BY ContextFields
<1> HIDE DEF ctx, o
<1>2. mine \subseteq Accounts /\ Accounts \subseteq Asked /\ ProviderErrors \subseteq AllErrors /\ Refreshing \subseteq never
  BY DEF Reports, Has, Asked, AllErrors, Vaulted
<1>3. Context(ctx) /\ Answered(ctx, r)
  BY <1>1, <1>2 DEF Context, Answered, Reports
<1>4. base \in {Daily, Prod} /\ other \in {Daily, Prod}
  OBVIOUS
<1>5. /\ (Session(base) \cup Session(other) \cup Services) \cap Prelims = {}
      /\ Session(base) \cap Services = {} /\ Session(other) \cap Services = {}
      /\ Session(base) \cap Session(other) = {}
      /\ {base.keychain, base.again, other.keychain} \subseteq Settings /\ base.keychain # base.again
      /\ base.keychain # other.keychain /\ base.again # other.keychain
      /\ Settings \subseteq Prelims /\ Settings \cap Vaulted = {} /\ Vaulted \subseteq Prelims
  <2>1. Settings \subseteq Prelims /\ Settings \cap Vaulted = {} /\ Vaulted \subseteq Prelims
    BY DEF Prelims, Settings, Vaulted, Refreshing
  <2> QED BY <1>4, <2>1, BasesApart
<1>6. Done(ctx, o)
  <2>1. Session(base) \cap ctx.never = {} /\ base.again \notin ctx.never
    BY <1>1, <1>5
  <2>2. ~Has(r, base.keychain) => base.keychain \notin ctx.never
    BY <1>1, <1>5
  <2>3. \A s \in Session(base) : Has(r, s) => r[s].of \in ctx.accounts
    BY <1>1, <1>4 DEF Sessions, Has
  <2>4. Has(r, base.keychain) => r[base.keychain].of \in ctx.accounts
    BY <1>1
  <2> QED BY <1>3, <1>4, <2>1, <2>2, <2>3, <2>4, SessionDone DEF o
<1>7. ASSUME NEW q \in o.asks
      PROVE  /\ Plainly(q) /\ InSession(r, q)
             /\ InTurn(r, q, "service_before", "service_quota", "service_after")
  <2>1. Proper(ctx, q)
    BY <1>6, <1>7 DEF Done, Sane
  <2>2. q.step \notin never /\ (q.step \notin Prelims => q.of \in mine)
    BY <1>1, <2>1 DEF Proper
  <2>3. Plainly(q)
    BY <1>1, <1>5, <2>1, <2>2 DEF Proper, Plainly
  <2>4. /\ q.step \in Session(base) => has /\ q.of = r[base.keychain].of
        /\ q.step = base.keychain => ~has
        /\ q.step \notin Session(other) /\ q.step # other.keychain
    BY <1>5, <2>2
  <2>5. InSession(r, q)
    BY <2>4 DEF InSession
  <2>6. InTurn(r, q, "service_before", "service_quota", "service_after")
    BY <2>2 DEF InTurn, Services
  <2> QED BY <2>3, <2>5, <2>6
<1>8. /\ o.error # None => o.error \in ProviderErrors
      /\ ~Open(o) => o.account \in Accounts /\ \A x \in o.shows : x.of = o.account
  BY <1>1, <1>2, <1>6 DEF Done, Sane, Owns
<1> QED BY <1>7, <1>8 DEF OfOne, o

LEMMA ServiceTraced ==
  ASSUME NEW past, History(past), NEW w, NEW r, Reports(r),
         Ordered(past, w, r, "service_before", "service_quota", "service_after"),
         NEW expected, NEW error \in ProviderErrors
  PROVE  OfOne(past, w, r, AntigravityService(r, expected, error))
<1> DEFINE owner(s, x) == Run(r, s, {"ok", "unnamed"}, Require(r[s].says = "ok", "Authentication", x))
           fraction == Fraction(r.service_quota, "model")
           same == Require(r.service_after.of = r.service_before.of, "Authentication", Nothing)
           after == owner("service_after", same)
           both == fraction ++ after
           whole == Require(r.service_quota.says = "ok", "QuotaUnavailable", both)
           quota == Step(r, Question("service_quota", Login, [model |-> {"over"}], {"ok", "empty"},
                                     HttpErrors), whole)
           meant == Require(expected \in {None, r.service_before.of}, "Authentication", quota)
           probe == owner("service_before", meant)
           several == Require(r.services.says = "one" \/ expected # None, "Authentication", probe)
           named == Require(r.services.says # "none", "Unavailable", several)
           found == Run(r, "services", {"none", "one", "several"}, named)
           o == AntigravityService(r, expected, error)
           ctx == Ctx(ProviderErrors, Accounts, Asked, Vaulted)
           two == Ctx(ProviderErrors, {r.service_before.of, r.service_quota.of}, Asked, Vaulted)
           turns == {"service_before", "service_quota", "service_after"}
<1>0. o = Instead(Owned(r.service_before.of, found), {"Unavailable"}, Fails(error))
  BY DEF AntigravityService
<1> HIDE DEF fraction, same, after, both, whole, quota, meant, probe, several, named, found, o
<1>1. /\ ctx.errors = ProviderErrors /\ ctx.accounts = Accounts /\ ctx.askers = Asked /\ ctx.never = Vaulted
      /\ two.errors = ProviderErrors /\ two.accounts = {r.service_before.of, r.service_quota.of}
      /\ two.askers = Asked /\ two.never = Vaulted
  BY ContextFields
<1> HIDE DEF ctx, two
<1>2. Refreshing \subseteq Vaulted /\ ProviderErrors \subseteq AllErrors /\ Accounts \subseteq Asked /\ Login \in Asked
  BY DEF Vaulted, AllErrors, Asked
<1>3. /\ Context(ctx) /\ Answered(ctx, r) /\ Answered(two, r)
      /\ Has(r, "service_before") /\ Has(r, "service_quota") => Context(two)
  BY <1>1, <1>2 DEF Context, Answered, Reports, Has
<1>4. Vaulted \subseteq Prelims /\ Settings \subseteq Prelims /\ Services \cap Prelims = {} /\ turns \subseteq Services
  BY BasesApart DEF Prelims, Services
<1>5. Done(ctx, o)
  BY <1>1, <1>2, <1>3, <1>4, ServiceDone DEF o, Reports, Has
<1>6. Has(r, "service_quota") => Sane(ctx, fraction) /\ fraction.asks = {}
  <2>1. Has(r, "service_quota") => Sane(ctx, fraction)
    BY <1>1, <1>3, LanesSane, WaysSane DEF fraction, Fraction, Reports, Has
  <2>2. \A reply, l : Fraction(reply, l).asks = {}
    <3> TAKE reply, l
    <3>1. \A x, e : Shows(x).asks = {} /\ Fails(e).asks = {}
      BY SimpleOutcomes DEF IsOutcome
    <3> QED BY <3>1 DEF Fraction, Valid, Require, Percent
  <2> QED BY <2>1, <2>2 DEF fraction
<1>7. \A s, x : \A q \in owner(s, x).asks :
        \/ s \notin DOMAIN r /\ q.step = s /\ q.of = Login
        \/ Has(r, s) /\ q \in x.asks
  BY AsksOf, QuestionFields DEF Run
<1>8. {"asks", "error", "shows", "account"} \subseteq DOMAIN found
  <2>1. \A s, of, lanes, says, fails, x : {"asks", "error", "shows", "account"} \subseteq DOMAIN x =>
          {"asks", "error", "shows", "account"} \subseteq DOMAIN Step(r, Question(s, of, lanes, says, fails), x)
    BY SimpleOutcomes DEF IsOutcome, Step
  <2>2. \A condition, e, x : {"asks", "error", "shows", "account"} \subseteq DOMAIN x =>
          {"asks", "error", "shows", "account"} \subseteq DOMAIN Require(condition, e, x)
    BY SimpleOutcomes DEF IsOutcome, Require
  <2>3. {"asks", "error", "shows", "account"} \subseteq DOMAIN whole \/ ~Has(r, "service_quota")
    <3>1. {"asks", "error", "shows", "account"} \subseteq DOMAIN same
      BY <2>2, SimpleOutcomes DEF same, IsOutcome
    <3>2. {"asks", "error", "shows", "account"} \subseteq DOMAIN after
      BY <2>1, <2>2, <3>1 DEF after, Run
    <3>3. Has(r, "service_quota") => {"asks", "error", "shows", "account"} \subseteq DOMAIN fraction
      BY <1>6 DEF Sane
    <3>4. \A shows, told :
            {"asks", "error", "shows", "account"} \subseteq DOMAIN [Nothing EXCEPT !.shows = shows, !.told = told]
      BY SimpleOutcomes DEF IsOutcome
    <3>5. Has(r, "service_quota") => {"asks", "error", "shows", "account"} \subseteq DOMAIN both
      BY <3>2, <3>3, <3>4 DEF both, ++
    <3> QED BY <2>2, <3>5 DEF whole
  <2>4. {"asks", "error", "shows", "account"} \subseteq DOMAIN quota
    BY <2>3, SimpleOutcomes, QuestionFields DEF quota, Step, Has, IsOutcome
  <2>5. {"asks", "error", "shows", "account"} \subseteq DOMAIN meant
    BY <2>2, <2>4 DEF meant
  <2>6. {"asks", "error", "shows", "account"} \subseteq DOMAIN probe
    BY <2>1, <2>2, <2>5 DEF probe, Run
  <2>7. {"asks", "error", "shows", "account"} \subseteq DOMAIN named
    BY <2>2, <2>6 DEF named, several
  <2> QED BY <2>1, <2>7 DEF found, Run
<1>9. ASSUME NEW q \in o.asks
      PROVE  q.step \in Services /\ InTurn(r, q, "service_before", "service_quota", "service_after")
  <2>1. q \in found.asks
    <3>1. Fails(error).asks = {}
      BY SimpleOutcomes DEF IsOutcome
    <3>2. q \in Owned(r.service_before.of, found).asks
      BY <1>0, <1>9, <3>1 DEF Instead
    <3> QED BY <1>8, <3>2, AsksOf
  <2>2. CASE q.step = "services"
    BY <2>2 DEF InTurn, Services
  <2>3. CASE q \in named.asks
    <3>1. q \in probe.asks
      <4>1. q \in several.asks
        BY <2>3, AsksOf DEF named
      <4> QED BY <4>1, AsksOf DEF several
    <3>2. CASE "service_before" \notin DOMAIN r /\ q.step = "service_before" /\ q.of = Login
      BY <3>2 DEF InTurn, Services
    <3>3. CASE Has(r, "service_before") /\ q \in meant.asks
      <4>1. q \in quota.asks
        BY <3>3, AsksOf DEF meant
      <4>2. CASE "service_quota" \notin DOMAIN r /\ q.step = "service_quota" /\ q.of = Login
        BY <3>3, <4>2 DEF InTurn, Services, Has
      <4>3. CASE Has(r, "service_quota") /\ q \in whole.asks
        <5>1. q \in both.asks
          BY <4>3, AsksOf DEF whole
        <5>2. q \in after.asks
          BY <1>6, <4>3, <5>1, AsksOf DEF both
        <5>3. same.asks = {}
          BY SimpleOutcomes DEF same, Require, IsOutcome
        <5>4. "service_after" \notin DOMAIN r /\ q.step = "service_after" /\ q.of = Login
          BY <1>7, <5>2, <5>3 DEF after
        <5> QED BY <4>3, <5>4 DEF InTurn, Services, Has
      <4> QED BY <4>1, <4>2, <4>3, AsksOf, QuestionFields DEF quota
    <3> QED BY <1>7, <3>1, <3>2, <3>3 DEF probe
  <2> QED BY <2>1, <2>2, <2>3, AsksOf, QuestionFields DEF found, Run
<1>10. ASSUME ~Open(o) PROVE \A x \in o.shows : x.of = o.account \/ Between(past, w, x.of, o.account)
  <2>0. /\ error # None /\ "Authentication" # None /\ "QuotaUnavailable" # None /\ "Unavailable" # None
    BY KnownErrors
  <2>1. ~Open(found) /\ o.account = r.service_before.of
    <3>1. Open(Fails(error))
      BY <2>0, SimpleOutcomes DEF IsOutcome, Open
    <3> QED BY <1>0, <1>8, <1>10, <3>1, ClosedOf DEF Instead
  <2>2. \A s, x : ~Open(owner(s, x)) => Has(r, s) /\ ~Open(x)
    <3> TAKE s, x
    <3> DEFINE said == Require(r[s].says = "ok", "Authentication", x)
    <3>1. ~Open(said) => ~Open(x)
      BY <2>0, ClosedOf
    <3> HIDE DEF said
    <3>2. ~Open(owner(s, x)) => Has(r, s) /\ ~Open(said)
      BY StepsEnd DEF Run, said
    <3> QED BY <3>1, <3>2
  <2>3. ~Open(named)
    BY <2>1, StepsEnd DEF found, Run
  <2>4. ~Open(several)
    BY <2>0, <2>3, ClosedOf DEF named
  <2>5. ~Open(probe)
    BY <2>0, <2>4, ClosedOf DEF several
  <2>6. Has(r, "service_before") /\ ~Open(meant)
    BY <2>2, <2>5 DEF probe
  <2>7. ~Open(quota)
    BY <2>0, <2>6, ClosedOf DEF meant
  <2>8. Has(r, "service_quota") /\ ~Open(whole)
    BY <2>7, StepsEnd DEF quota
  <2>9. ~Open(both)
    BY <2>0, <2>8, ClosedOf DEF whole
  <2>10. ~Open(after)
    BY <2>9, ClosedOf DEF both
  <2>11. Has(r, "service_after") /\ ~Open(same)
    BY <2>2, <2>10 DEF after
  <2>12. r.service_after.of = r.service_before.of
    BY <2>0, <2>11, ClosedOf DEF same
  <2>13. \/ r.service_quota.of = o.account
         \/ Between(past, w, r.service_quota.of, o.account)
    BY <2>1, <2>11, <2>12, OrderedAlike DEF Has
  <2>14. Services \cap two.never = {} /\ Login \in two.askers
    BY <1>1, <1>2, <1>4
  <2>15. Done(two, o)
    BY <1>1, <1>3, <2>6, <2>8, <2>14, ServiceDone DEF o
  <2> QED BY <1>1, <2>1, <2>13, <2>15 DEF Done, Sane
<1>11. ASSUME NEW q \in o.asks PROVE Plainly(q) /\ InSession(r, q)
  <2>1. Plainly(q)
    BY <1>1, <1>5, <1>11 DEF Done, Sane, Proper, Plainly
  <2>2. q.step \in Services
    BY <1>9, <1>11
  <2> QED BY <1>4, <2>1, <2>2, BasesApart DEF InSession
<1>12. /\ o.error # None => o.error \in ProviderErrors
       /\ ~Open(o) => o.account \in Accounts
  BY <1>1, <1>5 DEF Done, Sane, Owns
<1> QED BY <1>9, <1>10, <1>11, <1>12 DEF OfOne, o

\* Antigravity without a token of the environment: one of its services is asked with one login
\* of the keychain, or the program's own, whoever was logged in to it.
LEMMA AntigravityTraced ==
  ASSUME NEW past, History(past), NEW w, NEW r, Reports(r), Sessions(r),
         Ordered(past, w, r, "service_before", "service_quota", "service_after"),
         Has(r, "token") => r.token.says # "ok"
  PROVE  OfOne(past, w, r, Antigravity(r))
<1> DEFINE asked == AntigravityAsked(r)
           daily == AntigravitySession(r, Daily, None)
           prod == AntigravitySession(r, Prod, asked)
           native == AntigravityBases(daily, prod)
           token == Explicit(r, Having(None))
           given == AntigravityBases(AntigravityBase(r, Daily, token.account, None),
                                     AntigravityBase(r, Prod, token.account, asked))
<1>1. Antigravity(r) = Using(token, IF token.account # None THEN given ELSE AntigravityNative(r, asked, native))
  BY DEF Antigravity
<1>2. OfOne(past, w, r, daily) /\ OfOne(past, w, r, prod)
  BY SessionTraced
<1>3. native \in {daily, prod}
  BY DEF AntigravityBases, Instead
<1>4. ~Open(token) => token.account = None
  <2>1. Having(None).account = None
    BY SimpleOutcomes DEF IsOutcome
  <2>2. ASSUME ~Open(token) PROVE Has(r, "token") /\ token = Having(None)
    <3> DEFINE said == IF r.token.says = "none" THEN Having(None)
                       ELSE Require(r.token.says = "ok", "Authentication", Having(r.token.of))
    <3>1. token = Setting(r, "token", {"ok", "none", "malformed"}, said)
      BY DEF Explicit
    <3> HIDE DEF token, said
    <3>2. Has(r, "token") /\ token = said
      BY <2>2, <3>1, StepsEnd DEF Setting
    <3>3. Open(Fails("Authentication"))
      BY KnownErrors, SimpleOutcomes DEF Open, IsOutcome
    <3> QED BY <2>2, <3>2, <3>3 DEF said, Require
  <2> QED BY <2>1, <2>2
<1>5. Open(token) => OfOne(past, w, r, token)
  <2> DEFINE ctx == Ctx(ProviderErrors, {}, {Self}, Vaulted)
  <2>1. ctx.errors = ProviderErrors /\ ctx.accounts = {} /\ ctx.askers = {Self} /\ ctx.never = Vaulted
    BY ContextFields
  <2> HIDE DEF ctx
  <2>2. Context(ctx) /\ Answered(ctx, r)
    BY <2>1 DEF Context, Answered, Reports, Asked, AllErrors, Vaulted
  <2>3. MayAsk(ctx, "token", Self)
    BY <2>1 DEF MayAsk, Asked, Vaulted, Refreshing
  <2>4. Sane(ctx, token)
    BY <2>1, <2>2, <2>3, RequestsSane, OutcomesSane, WaysSane, UsualErrors DEF Explicit
  <2>5. \A q \in token.asks : q.step = "token"
    <3>1. \A a : Having(a).asks = {}
      BY SimpleOutcomes DEF IsOutcome
    <3> QED BY <3>1, AsksOf, QuestionFields DEF Explicit, Setting
  <2>6. \A base \in {Daily, Prod} : base.keychain # "token" /\ "token" \notin Session(base)
    BY BasesApart DEF Prelims, Sources, Settings
  <2>7. \A q \in token.asks : Plainly(q) /\ InSession(r, q) /\ InTurn(r, q, "service_before", "service_quota", "service_after")
    BY <2>1, <2>4, <2>5, <2>6 DEF Sane, Proper, Plainly, InSession, InTurn
  <2> QED BY <2>1, <2>4, <2>7 DEF OfOne, Sane
<1>6. OfOne(past, w, r, AntigravityNative(r, asked, native))
  <2>1. CASE native.error \in Final \cup {None}
    BY <1>2, <1>3, <2>1 DEF AntigravityNative
  <2>2. CASE native.error \notin Final \cup {None}
    <3>1. native.error \in ProviderErrors
      BY <1>2, <1>3, <2>2 DEF OfOne
    <3> HIDE DEF native
    <3>2. OfOne(past, w, r, AntigravityService(r, asked, native.error))
      BY <3>1, ServiceTraced
    <3> QED BY <2>2, <3>2 DEF AntigravityNative
  <2> QED BY <2>1, <2>2
<1> HIDE DEF token, given, native
<1> QED BY <1>1, <1>4, <1>5, <1>6 DEF Using


----------------------------------------------------------------------------
(* Saved accounts.                                                          *)

\* What the vault, or whoever resolves a reference, may fail with.
LEMMA VaultSane ==
  ASSUME NEW ctx, Context(ctx), ctx.errors = AllErrors, NEW r, Answered(ctx, r)
  PROVE  /\ VaultErrors \subseteq ctx.errors
         /\ \A e \in {"NotFound", "Busy", "CommitUncertain"} : e \in ctx.errors /\ e # None
         /\ \A s, says, o : MayAsk(ctx, s, Self) /\ (Has(r, s) => Sane(ctx, o)) => Sane(ctx, Vault(r, s, says, o))
         /\ \A s, says, o : MayAsk(ctx, s, Self) /\ (Has(r, s) => Done(ctx, o)) => Done(ctx, Vault(r, s, says, o))
         /\ \A o, p : Done(ctx, o) /\ Sane(ctx, p) => Done(ctx, Then(o, p))
         /\ \A o : Done(ctx, o) => Done(ctx, Complete(o))
<1>1. /\ VaultErrors \subseteq ctx.errors
      /\ \A e \in {"NotFound", "Busy", "CommitUncertain"} : e \in ctx.errors /\ e # None
  <2>1. VaultErrors \subseteq AllErrors /\ {"NotFound", "Busy", "CommitUncertain"} \subseteq AllErrors
    BY DEF VaultErrors, AllErrors, AccountEnds
  <2> QED BY <2>1, UsualErrors
<1>2. /\ \A s, says, o : MayAsk(ctx, s, Self) /\ (Has(r, s) => Sane(ctx, o)) => Sane(ctx, Vault(r, s, says, o))
      /\ \A s, says, o : MayAsk(ctx, s, Self) /\ (Has(r, s) => Done(ctx, o)) => Done(ctx, Vault(r, s, says, o))
  BY <1>1, RequestsSane DEF Vault
<1>3. ASSUME NEW o, NEW p, Done(ctx, o), Sane(ctx, p)
      PROVE  Done(ctx, Then(o, p))
  <2>1. Sane(ctx, o ++ p)
    BY <1>3, OutcomesSane DEF Done
  <2>2. CASE Open(o)
    <3>1. o ++ p = o
      BY <2>2 DEF ++
    <3>2. Then(o, p) = o
      BY <2>2, <3>1 DEF Then, Owned
    <3> QED BY <1>3, <3>2
  <2>3. CASE ~Open(o)
    <3>1. o.account \in ctx.accounts
      BY <1>3, <2>3 DEF Done, Owns
    <3> QED BY <2>1, <3>1, WaysSane DEF Then
  <2> QED BY <2>2, <2>3
<1>4. \A o : Done(ctx, o) => Done(ctx, Complete(o))
  BY WaysSane DEF Complete
<1> QED BY <1>1, <1>2, <1>3, <1>4

\* The questions about what is saved.
LEMMA MayAskVault ==
  ASSUME NEW ctx
  PROVE  \A s \in Vaulted : \A of \in {Self, Login} : s \notin ctx.never => MayAsk(ctx, s, of)
<1>1. "token" \notin Vaulted
  BY DEF Vaulted, Refreshing
<1> QED BY <1>1 DEF MayAsk, Prelims, Asked

LEMMA VerifiedDone ==
  ASSUME NEW ctx, Context(ctx), ctx.errors = AllErrors, "verify" \notin ctx.never,
         NEW r, Answered(ctx, r), NEW o, Done(ctx, o)
  PROVE  Done(ctx, VerifyCurrent(r, o))
<1> DEFINE same == Require(r.verify.says # "missing", "NotFound",
                     Require(r.verify.says = "same", "Busy", Nothing))
<1>1. Sane(ctx, same)
  BY VaultSane, OutcomesSane, WaysSane
<1> HIDE DEF same
<1>2. MayAsk(ctx, "verify", Self)
  BY MayAskVault DEF Vaulted
<1>3. Sane(ctx, Vault(r, "verify", {"same", "changed", "missing"}, same))
  BY <1>1, <1>2, VaultSane
<1> QED BY <1>3, VaultSane DEF VerifyCurrent, same

\* What is read first, whatever is done then.
LEMMA ReadFirst ==
  ASSUME NEW ctx, Context(ctx), ctx.errors = AllErrors, "read" \notin ctx.never,
         NEW r, Answered(ctx, r), NEW o, Done(ctx, o), NEW says
  PROVE  Done(ctx, Vault(r, "read", says,
                     Require(r.read.says # "missing", "NotFound",
                       Require(r.read.says # "disabled", "SourceDisabled",
                         Require(r.read.says # "pending", "CommitUncertain", o)))))
<1> DEFINE checked == Require(r.read.says # "missing", "NotFound",
                        Require(r.read.says # "disabled", "SourceDisabled",
                          Require(r.read.says # "pending", "CommitUncertain", o)))
<1>1. Done(ctx, checked)
  BY VaultSane, WaysSane, UsualErrors
<1> HIDE DEF checked
<1>2. MayAsk(ctx, "read", Self)
  BY MayAskVault DEF Vaulted
<1>3. Done(ctx, Vault(r, "read", says, checked))
  BY <1>1, <1>2, VaultSane
<1> QED BY <1>3 DEF checked

\* A credential that is not refreshed here: a key, and a reference once it was resolved.
LEMMA KeyRead ==
  ASSUME NEW ctx, Context(ctx), ctx.errors = AllErrors, {"read", "verify"} \cap ctx.never = {},
         NEW r, Answered(ctx, r), NEW quota, Done(ctx, quota), NEW p, NEW later
  PROVE  Done(ctx, Managed(p, "key", r, later, quota))
<1> DEFINE says == {"fresh", "disabled", "missing"} \cup {} \cup {}
           read == VerifyCurrent(r, quota)
<1>1. Done(ctx, read)
  BY VerifiedDone
<1> HIDE DEF read, says
<1>2. Done(ctx, Vault(r, "read", says,
                  Require(r.read.says # "missing", "NotFound",
                    Require(r.read.says # "disabled", "SourceDisabled",
                      Require(r.read.says # "pending", "CommitUncertain", read)))))
  BY <1>1, ReadFirst
<1>3. Managed(p, "key", r, later, quota) =
        Vault(r, "read", says,
          Require(r.read.says # "missing", "NotFound",
            Require(r.read.says # "disabled", "SourceDisabled",
              Require(r.read.says # "pending", "CommitUncertain", read))))
  BY DEF Managed, read, says
<1> QED BY <1>2, <1>3

LEMMA BorrowedRead ==
  ASSUME NEW ctx, Context(ctx), ctx.errors = AllErrors, {"read", "verify"} \cap ctx.never = {},
         NEW r, Answered(ctx, r), NEW p, NEW quota, Done(ctx, Borrowed(p, r, quota)), NEW later
  PROVE  Done(ctx, Managed(p, "borrowed", r, later, quota))
<1> DEFINE says == {"fresh", "disabled", "missing"} \cup {} \cup {}
           read == VerifyCurrent(r, Borrowed(p, r, quota))
<1>1. Done(ctx, read)
  BY VerifiedDone
<1> HIDE DEF read, says
<1>2. Done(ctx, Vault(r, "read", says,
                  Require(r.read.says # "missing", "NotFound",
                    Require(r.read.says # "disabled", "SourceDisabled",
                      Require(r.read.says # "pending", "CommitUncertain", read)))))
  BY <1>1, ReadFirst
<1>3. Managed(p, "borrowed", r, later, quota) =
        Vault(r, "read", says,
          Require(r.read.says # "missing", "NotFound",
            Require(r.read.says # "disabled", "SourceDisabled",
              Require(r.read.says # "pending", "CommitUncertain", read))))
  BY DEF Managed, read, says
<1> QED BY <1>2, <1>3

LEMMA ResolvedDone ==
  ASSUME NEW ctx, Context(ctx), ctx.errors = AllErrors, "resolve_again" \notin ctx.never,
         NEW r, Answered(ctx, r), "resolve" \in DOMAIN r, NEW p, NEW quota, Done(ctx, quota)
  PROVE  Done(ctx, Borrowed(p, r, quota))
<1> DEFINE q(s) == Question(s, Login, NoLanes, {"ok", "expiring", "missing"}, VaultErrors \cup {"Authentication"})
           resolve(s, o) == Step(r, q(s), Require(r[s].says # "missing", "NotFound", o))
           expired == IF p = "kiro" THEN Fails("OwnerRefreshRequired") ELSE Fails("Authentication")
           usable == ~(r.resolve.says = "expiring" /\ p \in {"kiro", "antigravity"})
           kept == Require(/\ r["resolve_again"].of = r.resolve.of
                           /\ r["resolve_again"].says = r.resolve.says, "Busy", Nothing)
           again == resolve("resolve_again", kept)
           shown == IF usable THEN quota ELSE expired
           whole == Then(Complete(shown), again)
<1>1. VaultErrors \cup {"Authentication"} \subseteq ctx.errors
  BY VaultSane, UsualErrors
<1>2. Sane(ctx, again)
  <2>1. Sane(ctx, kept)
    BY VaultSane, OutcomesSane, WaysSane
  <2> HIDE DEF kept
  <2>2. Sane(ctx, Require(r["resolve_again"].says # "missing", "NotFound", kept))
    BY <2>1, VaultSane, WaysSane
  <2>3. MayAsk(ctx, "resolve_again", Login)
    BY MayAskVault DEF Vaulted
  <2> QED BY <1>1, <2>2, <2>3, RequestsSane
<1>3. Done(ctx, shown)
  BY OutcomesSane, UsualErrors
<1> HIDE DEF again, shown
<1>4. Done(ctx, whole)
  BY <1>2, <1>3, VaultSane
<1> HIDE DEF whole
<1>5. Done(ctx, Require(r["resolve"].says # "missing", "NotFound", whole))
  BY <1>4, VaultSane, WaysSane
<1>6. Done(ctx, resolve("resolve", whole))
  <2>1. q("resolve").step = "resolve"
    BY QuestionFields
  <2>2. r["resolve"].error # None => Done(ctx, Fails(r["resolve"].error))
    BY OutcomesSane DEF Answered
  <2> HIDE DEF q
  <2> QED BY <1>5, <2>1, <2>2 DEF Step
<1>7. Borrowed(p, r, quota) = resolve("resolve", whole)
  BY DEF Borrowed, whole, again, shown
<1> QED BY <1>6, <1>7

\* A reference that is not resolved yet is, before anything else is asked.
LEMMA Unresolved ==
  ASSUME NEW ctx, Context(ctx), ctx.errors = AllErrors, "resolve" \notin ctx.never,
         NEW r, "resolve" \notin DOMAIN r, NEW p, NEW quota
  PROVE  Done(ctx, Borrowed(p, r, quota)) /\ Open(Borrowed(p, r, quota))
<1> DEFINE q == Question("resolve", Login, NoLanes, {"ok", "expiring", "missing"}, VaultErrors \cup {"Authentication"})
<1>1. q.step = "resolve" /\ q.of = Login /\ q.fails = VaultErrors \cup {"Authentication"}
  BY QuestionFields
<1>2. \E o : Borrowed(p, r, quota) = Step(r, q, o)
  BY DEF Borrowed
<1> HIDE DEF q
<1>3. Borrowed(p, r, quota) = Asks(q)
  BY <1>1, <1>2 DEF Step
<1>4. Proper(ctx, q)
  <2>1. VaultErrors \subseteq AllErrors /\ "Authentication" \in ctx.errors
    BY UsualErrors DEF VaultErrors, AllErrors, AccountEnds
  <2>2. "resolve" \in Prelims
    BY DEF Prelims, Vaulted
  <2> QED BY <1>1, <2>1, <2>2 DEF Proper, Asked
<1>5. Open(Asks(q))
  <2>1. IsOutcome(Asks(q), {q}, None, {}, {}, None)
    BY SimpleOutcomes
  <2> QED BY <2>1 DEF IsOutcome, Open
<1> QED BY <1>3, <1>4, <1>5, AskedSane

\* Nothing is verified of what is no usage.
LEMMA OpenVerified ==
  \A r, o : Open(o) => VerifyCurrent(r, o) = o
<1> SUFFICES ASSUME NEW r, NEW o, Open(o) PROVE VerifyCurrent(r, o) = o
  OBVIOUS
<1>1. Complete(o) = o
  BY DEF Complete
<1>2. \A p : Then(o, p) = o
  BY DEF Then, Owned, ++
<1> QED BY <1>1, <1>2 DEF VerifyCurrent

\* What a refresh asks, given the replies r: the token only once, and before the account has
\* another credential; to install what that brought only after it.
Allowed(r, s) ==
  /\ s = "rotate" => "rotate" \notin DOMAIN r /\ ~Moved(r)
  /\ s = "installed" => "rotate" \in DOMAIN r
InOrder(r) == "installed" \in DOMAIN r => "rotate" \in DOMAIN r

Refreshed(ctx, r, o) ==
  /\ \A q \in o.asks : /\ q.of \in Asked /\ q.fails \subseteq AllErrors
                       /\ q.step \notin {"resolve", "resolve_again"} /\ Allowed(r, q.step)
                       /\ q.step \notin Prelims => q.of \in ctx.askers
                       /\ q.step = "token" => q.of = Self
  /\ o.error # None => o.error \in AllErrors
  /\ ~Open(o) => o.account \in ctx.accounts /\ \A w \in o.shows : w.of \in ctx.accounts

\* A context of a credential that is refreshed here.
Owning(ctx) ==
  /\ Context(ctx) /\ ctx.errors = AllErrors
  /\ ctx.never = Refreshing \cup {"resolve", "resolve_again"}

LEMMA StepsRefreshed ==
  ASSUME NEW ctx, Owning(ctx), NEW r, Answered(ctx, r)
  PROVE  /\ \A o : Done(ctx, o) => Refreshed(ctx, r, o)
         /\ \A s \in Vaulted \ {"resolve", "resolve_again"} : \A lanes, says, fails, o :
              /\ fails \subseteq AllErrors
              /\ s \notin DOMAIN r => Allowed(r, s)
              /\ Has(r, s) => Refreshed(ctx, r, o)
              => Refreshed(ctx, r, Step(r, Question(s, Self, lanes, says, fails), o))
         /\ \A c, o : \A e \in AllErrors : Refreshed(ctx, r, o) => Refreshed(ctx, r, Require(c, e, o))
<1>1. ASSUME NEW o, Done(ctx, o) PROVE Refreshed(ctx, r, o)
  <2>1. \A q \in o.asks : /\ q.of \in Asked /\ q.fails \subseteq AllErrors
                          /\ q.step \notin {"resolve", "resolve_again"} /\ Allowed(r, q.step)
                          /\ q.step \notin Prelims => q.of \in ctx.askers
                          /\ q.step = "token" => q.of = Self
    <3> SUFFICES ASSUME NEW q \in o.asks
                 PROVE  /\ q.of \in Asked /\ q.fails \subseteq AllErrors
                        /\ q.step \notin {"resolve", "resolve_again"} /\ Allowed(r, q.step)
                        /\ q.step \notin Prelims => q.of \in ctx.askers
                        /\ q.step = "token" => q.of = Self
      OBVIOUS
    <3>1. Proper(ctx, q)
      BY <1>1 DEF Done, Sane
    <3> QED BY <3>1 DEF Proper, Owning, Allowed, Refreshing
  <2> QED BY <1>1, <2>1 DEF Done, Sane, Owns, Owning, Refreshed
<1>2. \A e \in AllErrors : Refreshed(ctx, r, Fails(e))
  BY <1>1, OutcomesSane DEF Owning, Done
<1>3. ASSUME NEW s \in Vaulted \ {"resolve", "resolve_again"}, NEW lanes, NEW says, NEW fails, NEW o,
             fails \subseteq AllErrors, s \notin DOMAIN r => Allowed(r, s),
             Has(r, s) => Refreshed(ctx, r, o)
      PROVE  Refreshed(ctx, r, Step(r, Question(s, Self, lanes, says, fails), o))
  <2> DEFINE q == Question(s, Self, lanes, says, fails)
  <2>1. q.step = s /\ q.of = Self /\ q.fails = fails
    BY QuestionFields
  <2> HIDE DEF q
  <2>2. CASE s \notin DOMAIN r
    <3>1. Step(r, q, o) = Asks(q)
      BY <2>1, <2>2 DEF Step
    <3>2. IsOutcome(Asks(q), {q}, None, {}, {}, None)
      BY SimpleOutcomes
    <3>3. Open(Asks(q))
      BY <3>2 DEF Open, IsOutcome
    <3>4. s \in Prelims /\ s # "token" /\ Self \in Asked
      BY DEF Prelims, Vaulted, Refreshing, Asked
    <3> QED BY <1>3, <2>1, <2>2, <3>1, <3>2, <3>3, <3>4 DEF Refreshed, IsOutcome, q
  <2>3. CASE s \in DOMAIN r /\ r[s].error # None
    <3>1. Step(r, q, o) = Fails(r[s].error)
      BY <2>1, <2>3 DEF Step
    <3> QED BY <1>2, <2>3, <3>1 DEF Answered, Owning, q
  <2>4. CASE Has(r, s)
    <3>1. Step(r, q, o) = o
      BY <2>1, <2>4 DEF Step, Has
    <3> QED BY <1>3, <2>4, <3>1 DEF q
  <2> QED BY <2>2, <2>3, <2>4 DEF Has
<1>4. \A c, o : \A e \in AllErrors : Refreshed(ctx, r, o) => Refreshed(ctx, r, Require(c, e, o))
  BY <1>2 DEF Require
<1> QED BY <1>1, <1>3, <1>4

\* One that is refreshed here.
LEMMA RenewedSane ==
  ASSUME NEW ctx, Owning(ctx), NEW r, Answered(ctx, r), InOrder(r),
         NEW quota, Done(ctx, quota), NEW p
  PROVE  Refreshed(ctx, r, Renewed(p, r, quota))
<1> DEFINE still(s, o) ==
             Require(r[s].says # "missing", "NotFound",
               Require(r[s].says # "disabled", "SourceDisabled",
                 Require(r[s].says # "changed", "Busy", o)))
           there(s, says, o) == Vault(r, s, {"disabled", "missing"} \cup says, still(s, o))
           installed == there("installed", {"ok", "changed"}, quota)
           rotate == Step(r, Question("rotate", Self, NoLanes, {"ok"}, HttpErrors), installed)
           fence == Vault(r, "fence", {"ok", "missing", "changed"}, still("fence", rotate))
           going == IF r.latest.says = "renewed" THEN quota ELSE IF p = "codex" THEN rotate ELSE fence
           own == {"latest", "fence", "rotate", "installed"}
<1>0. own \subseteq Vaulted \ {"resolve", "resolve_again"}
  BY DEF Vaulted, Refreshing
<1>1. {"NotFound", "SourceDisabled", "Busy"} \subseteq AllErrors /\ HttpErrors \subseteq AllErrors
      /\ VaultErrors \subseteq AllErrors
  BY VaultSane, UsualErrors DEF Owning
<1>2. \A s, o : Refreshed(ctx, r, o) => Refreshed(ctx, r, still(s, o))
  BY <1>1, StepsRefreshed
<1> HIDE DEF still
<1>3. \A s \in own : \A says, o :
        /\ s \notin DOMAIN r => Allowed(r, s)
        /\ Has(r, s) => Refreshed(ctx, r, o)
        => Refreshed(ctx, r, Vault(r, s, says, still(s, o)))
  BY <1>0, <1>1, <1>2, StepsRefreshed DEF Vault
<1>4. Refreshed(ctx, r, quota)
  BY StepsRefreshed
<1>5. Has(r, "rotate") => Refreshed(ctx, r, installed)
  BY <1>3, <1>4 DEF Has, Allowed
<1> HIDE DEF installed
<1>6. ASSUME Has(r, "latest"), r.latest.says # "renewed"
      PROVE  Refreshed(ctx, r, rotate)
  <2>1. "rotate" \notin DOMAIN r => Allowed(r, "rotate")
    BY <1>6 DEF Moved, InOrder, Allowed
  <2> QED BY <1>0, <1>1, <1>5, <2>1, StepsRefreshed
<1> HIDE DEF rotate
<1>7. ASSUME Has(r, "latest"), r.latest.says # "renewed"
      PROVE  Refreshed(ctx, r, fence)
  BY <1>3, <1>6, <1>7 DEF Allowed
<1> HIDE DEF fence
<1>8. Has(r, "latest") => Refreshed(ctx, r, going)
  BY <1>4, <1>6, <1>7
<1> HIDE DEF going
<1>9. Refreshed(ctx, r, there("latest", {"same", "renewed"}, going))
  BY <1>3, <1>8 DEF Allowed
<1>10. Renewed(p, r, quota) = there("latest", {"same", "renewed"}, going)
  BY DEF Renewed, going, fence, rotate, installed, still
<1> QED BY <1>9, <1>10

LEMMA OwnedRefreshed ==
  ASSUME NEW ctx, Owning(ctx), NEW r, Answered(ctx, r), InOrder(r),
         NEW later, Answered(ctx, later), NEW quota, Done(ctx, quota), NEW p
  PROVE  Refreshed(ctx, r, Managed(p, "owned", r, later, quota))
<1> DEFINE says == {"fresh", "disabled", "missing"} \cup {"expiring"}
                     \cup (IF p # "codex" THEN {"pending"} ELSE {})
           read == IF r.read.says = "expiring" \/ Moved(r) \/ quota.error = "Authentication"
                   THEN Renewed(p, r, VerifyCurrent(later, quota))
                   ELSE VerifyCurrent(r, quota)
           checked == Require(r.read.says # "missing", "NotFound",
                        Require(r.read.says # "disabled", "SourceDisabled",
                          Require(r.read.says # "pending", "CommitUncertain", read)))
<1>0. Context(ctx) /\ ctx.errors = AllErrors /\ {"read", "verify"} \cap ctx.never = {}
  BY DEF Owning, Refreshing
<1>1. Done(ctx, VerifyCurrent(r, quota)) /\ Done(ctx, VerifyCurrent(later, quota))
  BY <1>0, VerifiedDone
<1>2. Refreshed(ctx, r, Renewed(p, r, VerifyCurrent(later, quota)))
  BY <1>1, RenewedSane
<1>3. Refreshed(ctx, r, read)
  BY <1>1, <1>2, StepsRefreshed
<1> HIDE DEF read
<1>4. Refreshed(ctx, r, checked)
  <2>1. {"NotFound", "SourceDisabled", "CommitUncertain"} \subseteq AllErrors
    BY <1>0, VaultSane, UsualErrors
  <2> QED BY <1>3, <2>1, StepsRefreshed
<1> HIDE DEF checked, says
<1>5. Refreshed(ctx, r, Vault(r, "read", says, checked))
  <2>1. VaultErrors \subseteq AllErrors
    BY <1>0, VaultSane
  <2>2. "read" \in Vaulted \ {"resolve", "resolve_again"} /\ Allowed(r, "read")
    BY DEF Vaulted, Allowed
  <2> QED BY <1>4, <2>1, <2>2, StepsRefreshed DEF Vault
<1>6. Managed(p, "owned", r, later, quota) = Vault(r, "read", says, checked)
  BY DEF Managed, says, checked, read
<1> QED BY <1>5, <1>6

----------------------------------------------------------------------------
(* A local fetch: whom it asks, given whose its replies are.                  *)

\* Those that are asked with what the environment has: all that take a key, and Antigravity
\* if there is a token.  Without one it looks at the logins of its programs.
KeyHolders == CatalogKeys \cup KeyApis \cup {"factory"}
Keyish(w) == w.provider \in KeyHolders \/ (w.provider = "antigravity" /\ w.keyed)
ByService(w) == w.provider = "antigravity" /\ ~w.keyed

\* A question that is asked of one account, or of whoever the fetch is for.
Binds(a, q) == q.step \notin Prelims => q.of \in {a, Self}

\* The replies r to the local adapter in a world, when some were logged in, what it may ask
\* next, and what it may come to.
LocalTraced(w, past, r) ==
  /\ Has(r, "token") => /\ r.token.of = Mine
                        /\ IF w.keyed THEN r.token.says # "none" ELSE r.token.says # "ok"
  /\ Keyish(w) => Ours({Mine}, r)
  /\ w.provider \in Logins => InSearch(w.provider, r)
  /\ w.provider = "codex" => Ordered(past, w, r, "before", "limits", "after")
  /\ ByService(w) => Sessions(r) /\ Ordered(past, w, r, "service_before", "service_quota", "service_after")
LocalSuits(w, r, q) ==
  /\ Plainly(q)
  /\ Keyish(w) => Binds(Mine, q)
  /\ w.provider \in Logins => Searches(w.provider, r, q)
  /\ w.provider = "codex" => InTurn(r, q, "before", "limits", "after")
  /\ ByService(w) => InSession(r, q) /\ InTurn(r, q, "service_before", "service_quota", "service_after")
Elsewhere(r) == "url" \in DOMAIN r /\ r.url.says = "other"
LocalRight(w, past, r, o) ==
  /\ o.account \in Accounts
  /\ \A x \in o.shows : x.of = o.account \/ Excused(w, past, o.account, x)
  /\ w.keyed /\ w.provider # "codex" /\ ~Elsewhere(r) => o.account = Mine
LocalFits(w, past, r, o) ==
  /\ \A q \in o.asks : LocalSuits(w, r, q)
  /\ o.error # None => o.error \in ProviderErrors
  /\ ~Open(o) => LocalRight(w, past, r, o)

\* What kinds of provider there are.
LEMMA KindsApart ==
  /\ Logins \cap KeyHolders = {} /\ "codex" \notin Logins \cup KeyHolders
  /\ "antigravity" \notin Logins \cup KeyHolders
  /\ Providers = KeyHolders \cup Logins \cup {"codex", "antigravity"}
<1>1. /\ CatalogLogins \cap (CatalogKeys \cup KeyApis) = {}
      /\ {"amp", "codex", "antigravity", "factory"} \cap (CatalogKeys \cup KeyApis \cup CatalogLogins) = {}
  BY DEF CatalogKeys, KeyApis, CatalogLogins
<1> QED BY <1>1 DEF Logins, KeyHolders, Providers, Agents

LEMMA KeyLocalDone ==
  ASSUME NEW ctx, Usual(ctx), NEW r, Answered(ctx, r), Ours(ctx.accounts, r), Self \in ctx.askers,
         NEW p \in KeyHolders
  PROVE  Done(ctx, Local(p, r))
<1>1. Done(ctx, FactoryLocal(r))
  BY AgentsDone
<1> QED BY <1>1, KeysDone, PlansDone, GatewaysDone, InfrastructureDone
        DEF Local, KeyHolders, CatalogKeys, KeyApis

LEMMA KeyishFits ==
  ASSUME NEW w, Keyish(w), NEW r, Reports(r), NEW past, LocalTraced(w, past, r)
  PROVE  LocalFits(w, past, r, Local(w.provider, r))
<1> DEFINE o == Local(w.provider, r)
           ctx == Ctx(ProviderErrors, {Mine}, {Mine, Self}, Vaulted)
<1>1. /\ ctx.errors = ProviderErrors /\ ctx.accounts = {Mine} /\ ctx.askers = {Mine, Self} /\ ctx.never = Vaulted
  BY ContextFields
<1> HIDE DEF ctx
<1>2. Usual(ctx)
  <2>1. Refreshing \subseteq Vaulted /\ ProviderErrors \subseteq AllErrors /\ Mine \in Accounts
    BY MineAssumption DEF Vaulted, AllErrors
  <2> QED BY <1>1, <2>1 DEF Usual, Context, Asked
<1>3. Answered(ctx, r) /\ Ours(ctx.accounts, r)
  BY <1>1 DEF Answered, Reports, LocalTraced
<1>4. Done(ctx, o)
  <2>1. CASE w.provider \in KeyHolders
    BY <1>1, <1>2, <1>3, <2>1, KeyLocalDone
  <2>2. CASE w.provider = "antigravity" /\ w.keyed
    <3>1. "token" \notin ctx.never
      BY <1>1 DEF Vaulted, Refreshing
    <3>2. Has(r, "token") => r.token.of \in ctx.accounts /\ r.token.says # "none"
      BY <1>1, <2>2 DEF LocalTraced
    <3>3. o = Antigravity(r)
      BY <2>2 DEF Local
    <3> QED BY <1>2, <1>3, <3>1, <3>2, <3>3, GivenDone
  <2> QED BY <2>1, <2>2 DEF Keyish
<1> HIDE DEF o
<1>5. w.provider \notin Logins /\ w.provider # "codex" /\ ~ByService(w)
  BY KindsApart DEF Keyish, ByService
<1>6. \A q \in o.asks : LocalSuits(w, r, q)
  <2> SUFFICES ASSUME NEW q \in o.asks PROVE LocalSuits(w, r, q)
    OBVIOUS
  <2>1. Proper(ctx, q)
    BY <1>4 DEF Done, Sane
  <2> QED BY <1>1, <1>5, <2>1 DEF Proper, LocalSuits, Plainly, Binds
<1>7. ~Open(o) => LocalRight(w, past, r, o)
  <2>1. ~Open(o) => o.account = Mine /\ \A x \in o.shows : x.of = Mine
    BY <1>1, <1>4 DEF Done, Sane, Owns
  <2> QED BY <2>1, MineAssumption DEF LocalRight
<1>8. o.error # None => o.error \in ProviderErrors
  BY <1>1, <1>4 DEF Done, Sane
<1> QED BY <1>6, <1>7, <1>8 DEF LocalFits, o

LEMMA LocallyFits ==
  ASSUME NEW w, w.provider \in Providers, NEW r, Reports(r), NEW past, History(past),
         LocalTraced(w, past, r)
  PROVE  LocalFits(w, past, r, Local(w.provider, r))
<1> DEFINE o == Local(w.provider, r)
<1>1. CASE Keyish(w)
  BY <1>1, KeyishFits
<1>2. CASE w.provider \in Logins
  <2>1. InSearch(w.provider, r)
    BY <1>2 DEF LocalTraced
  <2>2. /\ \A q \in o.asks : Plainly(q) /\ Searches(w.provider, r, q)
        /\ o.error # None => o.error \in ProviderErrors
        /\ ~Open(o) => /\ ~Open(Cred(w.provider, r)) /\ o.account = Cred(w.provider, r).account
                       /\ o.account \in Accounts /\ \A x \in o.shows : x.of = o.account
    BY <1>2, <2>1, LoginTraced
  <2> HIDE DEF o
  <2>3. ASSUME ~Open(o), w.keyed, ~Elsewhere(r)
        PROVE  o.account = Mine
    <3>1. Has(r, "token") => r.token.of = Mine /\ r.token.says # "none"
      BY <2>3 DEF LocalTraced
    <3>2. /\ w.provider = "amp" => Has(r, "url")
          /\ ~(w.provider = "amp" /\ r.url.says = "other") =>
               /\ Has(r, "token")
               /\ r.token.says # "none" => r.token.says = "ok" /\ Cred(w.provider, r).account = r.token.of
      BY <1>2, <2>2, <2>3, <3>1, MineAssumption, CredsExplicit
    <3>3. ~(w.provider = "amp" /\ r.url.says = "other")
      BY <2>3, <3>2 DEF Elsewhere, Has
    <3> QED BY <2>2, <2>3, <3>1, <3>2, <3>3
  <2>4. ~Keyish(w) /\ w.provider # "codex" /\ ~ByService(w)
    BY <1>2, KindsApart DEF Keyish, ByService
  <2> QED BY <1>2, <2>2, <2>3, <2>4 DEF LocalFits, LocalSuits, LocalRight, o
<1>3. CASE w.provider = "codex"
  <2>1. Ordered(past, w, r, "before", "limits", "after") /\ o = CodexLocal(r)
    BY <1>3 DEF LocalTraced, Local
  <2>2. /\ \A q \in o.asks : Plainly(q) /\ InTurn(r, q, "before", "limits", "after")
        /\ o.error # None => o.error \in ProviderErrors
        /\ ~Open(o) => /\ o.account \in Accounts
                       /\ \A x \in o.shows : x.of = o.account \/ Excused(w, past, o.account, x)
    BY <1>3, <2>1, CodexTraced
  <2> HIDE DEF o
  <2>3. ~Keyish(w) /\ w.provider \notin Logins /\ ~ByService(w)
    BY <1>3, KindsApart DEF Keyish, ByService
  <2> QED BY <1>3, <2>2, <2>3 DEF LocalFits, LocalSuits, LocalRight, o
<1>4. CASE ByService(w)
  <2>1. /\ Sessions(r) /\ Ordered(past, w, r, "service_before", "service_quota", "service_after")
        /\ Has(r, "token") => r.token.says # "ok"
        /\ o = Antigravity(r)
    BY <1>4 DEF LocalTraced, Local, ByService
  <2>2. OfOne(past, w, r, o)
    BY <2>1, AntigravityTraced
  <2> HIDE DEF o
  <2>3. ~Keyish(w) /\ w.provider \notin Logins /\ w.provider # "codex" /\ ~w.keyed
    BY <1>4, KindsApart DEF Keyish, ByService
  <2>4. \A x : Between(past, w, x.of, o.account) => Excused(w, past, o.account, x)
    BY <1>4 DEF Excused, ByService
  <2> QED BY <2>2, <2>3, <2>4 DEF OfOne, LocalFits, LocalSuits, LocalRight, o
<1> QED BY <1>1, <1>2, <1>3, <1>4, KindsApart DEF Keyish, ByService

----------------------------------------------------------------------------
(* An answer.                                                               *)

\* A reply is of whom the question was of: of an account, or of whoever is logged in or the
\* fetch is for.
Hears(user, self, q, reply) ==
  /\ q.of = Login => reply.of = user
  /\ q.of = Self => reply.of = self
  /\ q.of \in Accounts => reply.of = q.of

LEMMA WithOurs ==
  ASSUME NEW a, NEW r, Ours({a}, r), NEW s, NEW x, s \notin Prelims => x.of = a
  PROVE  Ours({a}, With(r, s, x))
<1> DEFINE more == With(r, s, x)
<1>1. /\ DOMAIN more = DOMAIN r \cup {s} /\ more[s] = x
      /\ \A y \in DOMAIN r : y # s => more[y] = r[y]
  BY DEF With
<1> HIDE DEF more
<1>2. \A y \in DOMAIN more : y \notin Prelims => more[y].of = a
  BY <1>1 DEF Ours
<1> QED BY <1>2 DEF Ours, more

LEMMA WithOrdered ==
  ASSUME NEW past, History(past), NEW w, NEW r, NEW s1, NEW s2, NEW s3, s1 # s2, s2 # s3, s1 # s3,
         Ordered(past, w, r, s1, s2, s3), NEW q, InTurn(r, q, s1, s2, s3),
         NEW x, q.of = Login => x.of = past[Len(past)], x.like = Seem(w, x.of)
  PROVE  Ordered(past, w, With(r, q.step, x), s1, s2, s3)
<1> DEFINE more == With(r, q.step, x)
           turns == {s1, s2, s3}
           n == Len(past)
<1>1. /\ DOMAIN more = DOMAIN r \cup {q.step} /\ more[q.step] = x
      /\ \A y \in DOMAIN r : y # q.step => more[y] = r[y]
  BY DEF With
<1> HIDE DEF more
<1>2. CASE q.step \notin turns
  <2>1. \A s \in turns : (s \in DOMAIN more <=> s \in DOMAIN r) /\ (s \in DOMAIN r => more[s] = r[s])
    BY <1>1, <1>2
  <2> QED BY <2>1 DEF Ordered, more
<1>3. CASE q.step \in turns
  <2>1. x.of = past[n] /\ q.step \notin DOMAIN r
    BY <1>3 DEF InTurn
  <2>2. \A s \in DOMAIN r : s \in DOMAIN more /\ more[s] = r[s]
    BY <1>1, <2>1
  <2>3. /\ s2 \in DOMAIN more => s1 \in DOMAIN more
        /\ s3 \in DOMAIN more => s2 \in DOMAIN more
    BY <1>1 DEF Ordered, InTurn
  <2>4. \A s \in turns \cap DOMAIN more : more[s].like = Seem(w, more[s].of)
    BY <1>1, <2>1, <2>2 DEF Ordered
  <2>5. n \in DOMAIN past /\ \A i \in DOMAIN past : i \in Nat /\ i <= n
    BY DEF History
  <2>6. PICK i, j, k \in DOMAIN past :
          /\ i <= j /\ j <= k
          /\ s1 \in DOMAIN r => r[s1].of = past[i]
          /\ s2 \in DOMAIN r => r[s2].of = past[j]
          /\ s3 \in DOMAIN r => r[s3].of = past[k]
    BY DEF Ordered
  <2>7. \E i2, j2, k2 \in DOMAIN past :
          /\ i2 <= j2 /\ j2 <= k2
          /\ s1 \in DOMAIN more => more[s1].of = past[i2]
          /\ s2 \in DOMAIN more => more[s2].of = past[j2]
          /\ s3 \in DOMAIN more => more[s3].of = past[k2]
    <3> HIDE DEF n
    <3>1. CASE q.step = s1
      <4>1. s2 \notin DOMAIN more /\ s3 \notin DOMAIN more /\ more[s1].of = past[n]
        BY <1>1, <2>1, <3>1 DEF Ordered
      <4>2. n <= n
        BY <2>5
      <4> QED BY <2>5, <4>1, <4>2
    <3>2. CASE q.step = s2
      <4>1. /\ s3 \notin DOMAIN more /\ more[s2].of = past[n]
            /\ s1 \in DOMAIN more => more[s1].of = past[i]
        BY <1>1, <2>1, <2>2, <2>6, <3>2 DEF Ordered
      <4>2. i <= n /\ n <= n
        BY <2>5
      <4> QED BY <2>5, <4>1, <4>2
    <3>3. CASE q.step = s3
      <4>1. /\ more[s3].of = past[n]
            /\ s1 \in DOMAIN more => more[s1].of = past[i]
            /\ s2 \in DOMAIN more => more[s2].of = past[j]
        BY <1>1, <2>1, <2>2, <2>6, <3>3
      <4>2. j <= n
        BY <2>5
      <4> QED BY <2>5, <2>6, <4>1, <4>2
    <3> QED BY <1>3, <3>1, <3>2, <3>3
  <2> QED BY <2>3, <2>4, <2>7 DEF Ordered, more
<1> QED BY <1>2, <1>3

\* Whoever has found a credential goes on with it.
LEMMA WithSearch ==
  ASSUME NEW p \in Logins, NEW r, Reports(r), InSearch(p, r), NEW q, Searches(p, r, q),
         NEW x, q.of \in Accounts => x.of = q.of
  PROVE  InSearch(p, With(r, q.step, x))
<1> DEFINE more == With(r, q.step, x)
<1>1. /\ DOMAIN more = DOMAIN r \cup {q.step}
      /\ \A y \in DOMAIN r : y # q.step => more[y] = r[y]
  BY DEF With
<1>2. CASE Open(Cred(p, r))
  <2> HIDE DEF more
  <2>1. DOMAIN more \subseteq Prelims
    BY <1>1, <1>2 DEF InSearch, Searches
  <2> QED BY <2>1 DEF InSearch, Ours, more
<1>3. CASE ~Open(Cred(p, r))
  <2>1. Cred(p, r).account \in Accounts
    <3> DEFINE ctx == Ctx(ProviderErrors, {}, {}, Vaulted)
    <3>1. ctx.errors = ProviderErrors /\ ctx.accounts = {} /\ ctx.askers = {} /\ ctx.never = Vaulted
      BY ContextFields
    <3> HIDE DEF ctx
    <3>2. Searching(ctx)
      <4>1. Vaulted \cap Sources = {} /\ Refreshing \subseteq Vaulted /\ ProviderErrors \subseteq AllErrors
        BY DEF Vaulted, Sources, Refreshing, AllErrors
      <4> QED BY <3>1, <4>1 DEF Searching, Context
    <3>3. Answered(ctx, r) /\ \A s \in DOMAIN r : r[s].of \in Accounts
      BY <3>1 DEF Answered, Reports
    <3> QED BY <1>3, <3>2, <3>3, CredsVouched DEF Vouched, Owns
  <2>2. Cred(p, more) = Cred(p, r)
    <3> HIDE DEF more
    <3>1. Agree(r, more)
      BY <1>1, <1>3 DEF Searches, Agree
    <3> QED BY <3>1, CredsSame
  <2>3. Ours({Cred(p, r).account}, more)
    <3>1. q.step \notin Prelims => x.of = Cred(p, r).account
      BY <1>3, <2>1 DEF Searches
    <3> QED BY <1>3, <3>1, WithOurs DEF InSearch
  <2> QED BY <1>3, <2>2, <2>3 DEF InSearch
<1> QED BY <1>2, <1>3

LEMMA WithSessions ==
  ASSUME NEW r, Reports(r), Sessions(r), NEW q, InSession(r, q), NEW x, q.of \in Accounts => x.of = q.of
  PROVE  Sessions(With(r, q.step, x))
<1> DEFINE more == With(r, q.step, x)
<1>1. /\ DOMAIN more = DOMAIN r \cup {q.step} /\ more[q.step] = x
      /\ \A y \in DOMAIN r : y # q.step => more[y] = r[y]
  BY DEF With
<1> HIDE DEF more
<1>2. ASSUME NEW base \in {Daily, Prod}, NEW s \in Session(base) \cap DOMAIN more
      PROVE  Has(more, base.keychain) /\ more[s].of = more[base.keychain].of
  <2>1. s # base.keychain
    <3>1. base.keychain \in Prelims /\ Session(base) \cap Prelims = {}
      BY BasesApart DEF Prelims
    <3> QED BY <3>1
  <2>2. CASE q.step = base.keychain
    <3>1. s \in DOMAIN r /\ ~Has(r, base.keychain)
      BY <1>1, <2>1, <2>2 DEF InSession
    <3> QED BY <3>1 DEF Sessions
  <2>3. CASE q.step # base.keychain
    <3>1. Has(r, base.keychain) => Has(more, base.keychain) /\ more[base.keychain] = r[base.keychain]
      BY <1>1, <2>3 DEF Has
    <3>2. CASE q.step = s
      <4>1. Has(r, base.keychain) /\ q.of = r[base.keychain].of
        BY <3>2 DEF InSession
      <4>2. q.of \in Accounts
        BY <4>1 DEF Reports, Has
      <4> QED BY <1>1, <3>1, <3>2, <4>1, <4>2
    <3>3. CASE q.step # s
      <4>1. s \in DOMAIN r /\ more[s] = r[s]
        BY <1>1, <3>3
      <4> QED BY <3>1, <4>1 DEF Sessions
    <3> QED BY <3>2, <3>3
  <2> QED BY <2>2, <2>3
<1> QED BY <1>2 DEF Sessions, more

\* What the environment says of its token.
SaysWell(w, reply) ==
  reply.error = None => IF w.keyed THEN reply.says # "none" ELSE reply.says # "ok"

LEMMA LocalTold ==
  ASSUME NEW w, NEW past, History(past), NEW r, Reports(r), LocalTraced(w, past, r), NEW q, LocalSuits(w, r, q),
         NEW x, Hears(past[Len(past)], Mine, q, x), x.like = Seem(w, x.of),
         q.step = "token" => SaysWell(w, x)
  PROVE  LocalTraced(w, past, With(r, q.step, x))
<1> DEFINE more == With(r, q.step, x)
<1>1. /\ DOMAIN more = DOMAIN r \cup {q.step} /\ more[q.step] = x
      /\ \A y \in DOMAIN r : y # q.step => more[y] = r[y]
  BY DEF With
<1>2. /\ q.of = Login => x.of = past[Len(past)]
      /\ q.of = Self => x.of = Mine
      /\ q.of \in Accounts => x.of = q.of
  BY DEF Hears
<1>3. Has(more, "token") => /\ more.token.of = Mine
                            /\ IF w.keyed THEN more.token.says # "none" ELSE more.token.says # "ok"
  <2> HIDE DEF more
  <2>1. CASE q.step = "token"
    BY <1>1, <1>2, <2>1 DEF LocalSuits, Plainly, SaysWell, Has
  <2>2. CASE q.step # "token"
    <3>1. Has(more, "token") => Has(r, "token") /\ more.token = r.token
      BY <1>1, <2>2 DEF Has
    <3> QED BY <3>1 DEF LocalTraced
  <2> QED BY <2>1, <2>2
<1>4. Keyish(w) => Ours({Mine}, more)
  <2> SUFFICES ASSUME Keyish(w) PROVE Ours({Mine}, more)
    OBVIOUS
  <2>1. q.step \notin Prelims => x.of = Mine
    BY <1>2, MineAssumption DEF LocalSuits, Binds
  <2> QED BY <2>1, WithOurs DEF LocalTraced
<1>5. w.provider \in Logins => InSearch(w.provider, more)
  BY <1>2, WithSearch DEF LocalTraced, LocalSuits
<1>6. w.provider = "codex" => Ordered(past, w, more, "before", "limits", "after")
  <2> SUFFICES ASSUME w.provider = "codex" PROVE Ordered(past, w, more, "before", "limits", "after")
    OBVIOUS
  <2>1. Ordered(past, w, r, "before", "limits", "after") /\ InTurn(r, q, "before", "limits", "after")
    BY DEF LocalTraced, LocalSuits
  <2> QED BY <1>2, <2>1, WithOrdered
<1>7. ByService(w) => Sessions(more) /\ Ordered(past, w, more, "service_before", "service_quota", "service_after")
  <2> SUFFICES ASSUME ByService(w)
               PROVE  Sessions(more) /\ Ordered(past, w, more, "service_before", "service_quota", "service_after")
    OBVIOUS
  <2>1. /\ Ordered(past, w, r, "service_before", "service_quota", "service_after")
        /\ InTurn(r, q, "service_before", "service_quota", "service_after")
        /\ Sessions(r) /\ InSession(r, q)
    BY DEF LocalTraced, LocalSuits
  <2>2. Sessions(more)
    BY <1>2, <2>1, WithSessions
  <2>3. Ordered(past, w, more, "service_before", "service_quota", "service_after")
    BY <1>2, <2>1, WithOrdered
  <2> QED BY <2>2, <2>3
<1> HIDE DEF more
<1> QED BY <1>3, <1>4, <1>5, <1>6, <1>7 DEF LocalTraced, more

\* Before anything is asked, and when somebody else logs in.
LEMMA LocalStart ==
  ASSUME NEW w, NEW past, History(past), NEW r, DOMAIN r = {}
  PROVE  LocalTraced(w, past, r)
<1>1. 1 \in DOMAIN past /\ 1 <= 1
  BY DEF History
<1>2. /\ ~Has(r, "token") /\ (\A a : Ours({a}, r)) /\ (\A p : InSearch(p, r)) /\ Sessions(r)
      /\ \A s1, s2, s3 : Ordered(past, w, r, s1, s2, s3)
  BY <1>1 DEF Has, Ours, InSearch, Sessions, Ordered
<1> QED BY <1>2 DEF LocalTraced

LEMMA LocalSwitched ==
  ASSUME NEW w, NEW past, NEW more, Extends(past, more), NEW r, LocalTraced(w, past, r)
  PROVE  LocalTraced(w, more, r)
<1>1. ASSUME NEW s1, NEW s2, NEW s3, Ordered(past, w, r, s1, s2, s3) PROVE Ordered(more, w, r, s1, s2, s3)
  BY <1>1 DEF Ordered, Extends
<1> QED BY <1>1 DEF LocalTraced

----------------------------------------------------------------------------
(* What a fetch comes to.                                                   *)

Kinds == {"local", "failed", "key", "owned", "borrowed"}
ErrorsOf(kind) == IF kind = "local" THEN ProviderErrors ELSE AllErrors

Replied(errors, r) == \A s \in DOMAIN r : r[s].of \in Accounts /\ (r[s].error = None \/ r[s].error \in errors)

\* Replies of one account: of a saved one the key or token is there.
OfAccount(a, r) == Ours({a}, r) /\ (Has(r, "token") => r.token.of = a /\ r.token.says # "none")

\* The replies of a task for an entry e of a world, while somebody is logged in.
Traced(w, past, e, task) ==
  /\ e.kind # "owned" => DOMAIN task.first \cap Refreshing = {}
  /\ e.kind # "borrowed" => "resolve" \notin DOMAIN task.first
  /\ e.kind \in {"key", "owned"} => OfAccount(e.account, task.first) /\ OfAccount(e.account, task.later)
  /\ e.kind = "borrowed" => IF "resolve" \in DOMAIN task.first
                            THEN OfAccount(task.first.resolve.of, task.first)
                            ELSE DOMAIN task.first \subseteq {"read"}
  /\ e.kind = "local" => LocalTraced(w, past, task.first)

\* What it may ask next.
Suits(w, e, task, q) ==
  /\ q.of \in Asked /\ q.fails \subseteq ErrorsOf(e.kind) /\ Allowed(task.first, q.step)
  /\ q.step = "token" => q.of = Self
  /\ e.kind # "failed"
  /\ e.kind # "owned" => q.step \notin Refreshing
  /\ e.kind # "borrowed" => q.step # "resolve"
  /\ e.kind \in {"key", "owned"} => Binds(e.account, q)
  /\ e.kind = "borrowed" => IF "resolve" \in DOMAIN task.first
                            THEN q.step # "resolve" /\ Binds(task.first.resolve.of, q)
                            ELSE q.step \in {"read", "resolve"}
  /\ e.kind = "local" => LocalSuits(w, task.first, q)

\* Whose the usage is that it comes to.
Rightly(w, past, e, task, o) ==
  /\ o.account \in Accounts
  /\ \A x \in o.shows : x.of = o.account \/ (e.kind = "local" /\ Excused(w, past, o.account, x))
  /\ e.kind \in {"key", "owned"} => o.account = e.account
  /\ e.kind = "borrowed" => o.account = task.first.resolve.of
  /\ (e.kind = "local" /\ w.keyed /\ w.provider # "codex" /\ ~Elsewhere(task.first)) => o.account = Mine

Fits(w, past, e, task, o) ==
  /\ \A q \in o.asks : Suits(w, e, task, q)
  /\ o.error # None => o.error \in ProviderErrors
  /\ ~Open(o) => Rightly(w, past, e, task, o)

LEMMA ReportedErrors ==
  \A kind : \A error \in AllErrors : Reported(kind, error) \in ProviderErrors
<1>1. /\ DOMAIN AccountEnds = {"Busy", "Storage", "CommitUncertain", "NotFound", "OAuth", "QuotaForbidden"}
      /\ \A e \in DOMAIN AccountEnds : AccountEnds[e] \in {"Transient", "CredentialStorage", "Authentication"}
  BY DEF AccountEnds
<1>2. {"Transient", "CredentialStorage", "Authentication", "OwnerRefreshRequired"} \subseteq ProviderErrors
  BY KnownErrors
<1> QED BY <1>1, <1>2 DEF Reported, AllErrors

\* What a saved account may come to before its errors are made into those of the report.
Managing(w, past, e, task, o) ==
  /\ \A q \in o.asks : Suits(w, e, task, q)
  /\ o.error # None => o.error \in AllErrors
  /\ ~Open(o) => Rightly(w, past, e, task, o)

\* A context of one account, with what is not asked.
Alone(a, never) == Ctx(AllErrors, {a}, {a, Self}, never)

LEMMA AloneIs ==
  ASSUME NEW a \in Accounts, NEW never, Refreshing \subseteq never, never \subseteq Vaulted
  PROVE  /\ Alone(a, never).errors = AllErrors /\ Alone(a, never).accounts = {a}
         /\ Alone(a, never).askers = {a, Self} /\ Alone(a, never).never = never
         /\ Usual(Alone(a, never)) /\ Context(Alone(a, never)) /\ "token" \notin Alone(a, never).never
         /\ \A r : Replied(AllErrors, r) => Answered(Alone(a, never), r)
<1> DEFINE ctx == Alone(a, never)
<1>1. ctx.errors = AllErrors /\ ctx.accounts = {a} /\ ctx.askers = {a, Self} /\ ctx.never = never
  BY ContextFields DEF Alone
<1> HIDE DEF ctx
<1>2. ProviderErrors \subseteq AllErrors /\ "token" \notin Vaulted
  BY DEF AllErrors, Vaulted, Refreshing
<1>3. Context(ctx) /\ Usual(ctx)
  BY <1>1, <1>2 DEF Usual, Context, Asked
<1> QED BY <1>1, <1>2, <1>3 DEF Replied, Answered, ctx

\* The quota of a saved account.
LEMMA AloneDone ==
  ASSUME NEW a \in Accounts, NEW never, Refreshing \subseteq never, never \subseteq Vaulted,
         NEW r, Replied(AllErrors, r), OfAccount(a, r), NEW p \in Providers, NEW kind, kind # "local"
  PROVE  Done(Alone(a, never), Quota(p, kind, r))
<1> DEFINE ctx == Alone(a, never)
<1>1. /\ ctx.errors = AllErrors /\ ctx.accounts = {a} /\ ctx.askers = {a, Self}
      /\ Usual(ctx) /\ "token" \notin ctx.never /\ Answered(ctx, r)
  BY AloneIs
<1> HIDE DEF ctx
<1>2. Ours(ctx.accounts, r) /\ Self \in ctx.askers
  BY <1>1 DEF OfAccount
<1>3. Has(r, "token") => r.token.of \in ctx.accounts /\ r.token.says # "none"
  BY <1>1 DEF OfAccount
<1>4. Done(ctx, Quota(p, kind, r))
  BY <1>1, <1>2, <1>3, QuotaDone
<1> QED BY <1>4 DEF ctx

LEMMA KeyFits ==
  ASSUME NEW w, w.provider \in Providers, NEW past, NEW e, e.kind = "key", e.account \in Accounts, NEW task,
         Replied(AllErrors, task.first), Traced(w, past, e, task)
  PROVE  Managing(w, past, e, task, Managed(w.provider, "key", task.first, task.later,
                                      Quota(w.provider, "key", task.first)))
<1> DEFINE r == task.first
           never == Refreshing \cup {"resolve", "resolve_again"}
           ctx == Alone(e.account, never)
           quota == Quota(w.provider, "key", r)
           o == Managed(w.provider, "key", r, task.later, quota)
<1>0. Refreshing \subseteq never /\ never \subseteq Vaulted /\ {"read", "verify"} \cap never = {}
  BY DEF Vaulted, Refreshing
<1> HIDE DEF never
<1>1. /\ ctx.errors = AllErrors /\ ctx.accounts = {e.account} /\ ctx.askers = {e.account, Self}
      /\ ctx.never = never /\ Context(ctx) /\ Answered(ctx, r)
  BY <1>0, AloneIs
<1>2. Done(ctx, quota)
  <2>1. OfAccount(e.account, r)
    BY DEF Traced
  <2> HIDE DEF r
  <2>2. Replied(AllErrors, r)
    BY DEF r
  <2> QED BY <1>0, <2>1, <2>2, AloneDone
<1> HIDE DEF ctx, quota
<1>3. Done(ctx, o)
  BY <1>0, <1>1, <1>2, KeyRead
<1> HIDE DEF o
<1>4. \A q \in o.asks : Suits(w, e, task, q)
  <2> SUFFICES ASSUME NEW q \in o.asks PROVE Suits(w, e, task, q)
    OBVIOUS
  <2>1. Proper(ctx, q)
    BY <1>3 DEF Done, Sane
  <2> QED BY <1>1, <2>1 DEF Proper, Suits, Binds, ErrorsOf, Allowed, Refreshing, never
<1>5. ~Open(o) => Rightly(w, past, e, task, o)
  BY <1>1, <1>3 DEF Done, Sane, Owns, Rightly
<1> QED BY <1>1, <1>3, <1>4, <1>5 DEF Managing, Done, Sane, o, quota

LEMMA BorrowedFits ==
  ASSUME NEW w, w.provider \in Providers, NEW past, NEW e, e.kind = "borrowed", NEW task,
         Replied(AllErrors, task.first), Traced(w, past, e, task)
  PROVE  Managing(w, past, e, task, Managed(w.provider, "borrowed", task.first, task.later,
                                      Quota(w.provider, "borrowed", task.first)))
<1> DEFINE r == task.first
           quota == Quota(w.provider, "borrowed", r)
           usage == Borrowed(w.provider, r, quota)
           o == Managed(w.provider, "borrowed", r, task.later, quota)
<1>1. CASE "resolve" \in DOMAIN r
  <2> DEFINE never == Refreshing \cup {"resolve"}
             a == r.resolve.of
             ctx == Alone(a, never)
  <2>0. /\ Refreshing \subseteq never /\ never \subseteq Vaulted
        /\ {"read", "verify"} \cap never = {} /\ "resolve_again" \notin never
    BY DEF Vaulted, Refreshing
  <2>a. a \in Accounts
    BY <1>1 DEF Replied
  <2> HIDE DEF never, a
  <2>1. /\ ctx.errors = AllErrors /\ ctx.accounts = {a} /\ ctx.askers = {a, Self}
        /\ ctx.never = never /\ Context(ctx) /\ Answered(ctx, r)
    BY <2>0, <2>a, AloneIs
  <2>2. Done(ctx, quota)
    <3>1. OfAccount(a, r)
      BY <1>1 DEF Traced, a
    <3> HIDE DEF r
    <3>2. Replied(AllErrors, r)
      BY DEF r
    <3> QED BY <2>0, <2>a, <3>1, <3>2, AloneDone
  <2> HIDE DEF ctx, quota
  <2>3. Done(ctx, usage)
    BY <1>1, <2>0, <2>1, <2>2, ResolvedDone
  <2>4. Done(ctx, o)
    BY <2>0, <2>1, <2>3, BorrowedRead
  <2> HIDE DEF o
  <2>5. \A q \in o.asks : Suits(w, e, task, q)
    <3> SUFFICES ASSUME NEW q \in o.asks PROVE Suits(w, e, task, q)
      OBVIOUS
    <3>1. Proper(ctx, q)
      BY <2>4 DEF Done, Sane
    <3> QED BY <1>1, <2>1, <3>1 DEF Proper, Suits, Binds, ErrorsOf, Allowed, Refreshing, never, a
  <2>6. ~Open(o) => Rightly(w, past, e, task, o)
    BY <2>1, <2>4, <2>a DEF Done, Sane, Owns, Rightly, a
  <2> QED BY <2>1, <2>4, <2>5, <2>6 DEF Managing, Done, Sane, o, quota
<1>2. CASE "resolve" \notin DOMAIN r
  <2> DEFINE ctx == Ctx(AllErrors, {}, {}, Prelims \ {"read", "resolve"})
  <2>1. /\ ctx.errors = AllErrors /\ ctx.accounts = {} /\ ctx.askers = {}
        /\ ctx.never = Prelims \ {"read", "resolve"}
    BY ContextFields
  <2> HIDE DEF ctx
  <2>2. Context(ctx) /\ "resolve" \notin ctx.never /\ "read" \notin ctx.never /\ Answered(ctx, r)
    <3>1. Refreshing \subseteq Prelims \ {"read", "resolve"} /\ ProviderErrors \subseteq AllErrors
      BY DEF Prelims, Vaulted, Refreshing, AllErrors
    <3> QED BY <2>1, <3>1 DEF Context, Answered, Replied
  <2> HIDE DEF quota
  <2>3. Done(ctx, usage) /\ Open(usage)
    BY <1>2, <2>1, <2>2, Unresolved
  <2>4. Done(ctx, o)
    <3> DEFINE says == {"fresh", "disabled", "missing"} \cup {} \cup {}
               read == VerifyCurrent(r, usage)
    <3>1. read = usage
      BY <2>3, OpenVerified
    <3> HIDE DEF read, says, usage
    <3>2. Done(ctx, Vault(r, "read", says,
                      Require(r.read.says # "missing", "NotFound",
                        Require(r.read.says # "disabled", "SourceDisabled",
                          Require(r.read.says # "pending", "CommitUncertain", read)))))
      BY <2>1, <2>2, <2>3, <3>1, ReadFirst
    <3>3. o = Vault(r, "read", says,
                Require(r.read.says # "missing", "NotFound",
                  Require(r.read.says # "disabled", "SourceDisabled",
                    Require(r.read.says # "pending", "CommitUncertain", read))))
      BY DEF Managed, read, says, usage
    <3> QED BY <3>2, <3>3
  <2> HIDE DEF o, usage
  <2>5. \A q \in o.asks : Suits(w, e, task, q)
    <3> SUFFICES ASSUME NEW q \in o.asks PROVE Suits(w, e, task, q)
      OBVIOUS
    <3>1. Proper(ctx, q)
      BY <2>4 DEF Done, Sane
    <3>2. q.step \in {"read", "resolve"}
      BY <2>1, <3>1 DEF Proper
    <3> QED BY <1>2, <2>1, <3>1, <3>2 DEF Proper, Suits, ErrorsOf, Allowed, Refreshing
  <2> QED BY <2>1, <2>4, <2>5 DEF Managing, Done, Sane, Owns, o, quota
<1> QED BY <1>1, <1>2

LEMMA OwnedFits ==
  ASSUME NEW w, w.provider \in Providers, NEW past, NEW e, e.kind = "owned", e.account \in Accounts, NEW task,
         Replied(AllErrors, task.first), Replied(AllErrors, task.later), InOrder(task.first),
         Traced(w, past, e, task)
  PROVE  Managing(w, past, e, task, Managed(w.provider, "owned", task.first, task.later,
                                      Quota(w.provider, "owned", Answers(task))))
<1> DEFINE r == task.first
           later == task.later
           answers == Answers(task)
           never == Refreshing \cup {"resolve", "resolve_again"}
           ctx == Alone(e.account, never)
           quota == Quota(w.provider, "owned", answers)
           o == Managed(w.provider, "owned", r, later, quota)
<1>0. Refreshing \subseteq never /\ never \subseteq Vaulted
  BY DEF Vaulted, Refreshing
<1>a. answers \in {r, later} /\ Replied(AllErrors, answers) /\ OfAccount(e.account, answers)
  BY DEF Answers, Traced
<1>b. Replied(AllErrors, r) /\ Replied(AllErrors, later) /\ InOrder(r)
  OBVIOUS
<1> HIDE DEF r, later, answers, never
<1>1. /\ ctx.errors = AllErrors /\ ctx.accounts = {e.account} /\ ctx.askers = {e.account, Self}
      /\ ctx.never = never /\ Context(ctx) /\ Answered(ctx, r) /\ Answered(ctx, later)
  BY <1>0, <1>b, AloneIs
<1>2. Done(ctx, quota)
  BY <1>0, <1>a, AloneDone
<1> HIDE DEF ctx, quota
<1>3. Refreshed(ctx, r, o)
  <2>1. Owning(ctx)
    BY <1>1 DEF Owning, never
  <2> QED BY <1>1, <1>2, <1>b, <2>1, OwnedRefreshed
<1> HIDE DEF o
<1>4. \A q \in o.asks : Suits(w, e, task, q)
  BY <1>1, <1>3 DEF Refreshed, Suits, Binds, ErrorsOf, r
<1>5. ~Open(o) => Rightly(w, past, e, task, o)
  BY <1>1, <1>3 DEF Refreshed, Rightly
<1> QED BY <1>3, <1>4, <1>5 DEF Managing, Refreshed, o, quota, r, later, answers

\* What any fetch comes to, given whose its replies are.
LEMMA OutcomeFits ==
  ASSUME world.provider \in Providers, NEW past, History(past), NEW e, e.kind \in Kinds,
         e.kind \in {"key", "owned", "borrowed"} => e.account \in Accounts, NEW task,
         Replied(ErrorsOf(e.kind), task.first), Replied(ErrorsOf(e.kind), task.later),
         InOrder(task.first), Traced(world, past, e, task)
  PROVE  Fits(world, past, e, task, Outcome(e.kind, task))
<1> DEFINE p == world.provider
           kind == e.kind
           r == task.first
           quota == Quota(p, kind, Answers(task))
           managed == Managed(p, kind, r, task.later, quota)
           o == Outcome(kind, task)
<1>1. o = OfKind(kind, quota, managed)
  BY DEF Outcome, Fetched
<1>2. None \notin AllErrors /\ None \notin ProviderErrors
  BY KnownErrors
<1>3. kind # "owned" => Answers(task) = r
  <2>1. kind # "owned" => DOMAIN r \cap Refreshing = {}
    BY DEF Traced
  <2> QED BY <2>1 DEF Refreshing, Moved, Answers
<1>4. CASE kind = "local"
  <2>1. LocalTraced(world, past, r) /\ Reports(r)
    BY <1>4 DEF Traced, Replied, Reports, ErrorsOf
  <2>2. LocalFits(world, past, r, Local(p, r))
    BY <2>1, LocallyFits
  <2>3. o = Local(p, r)
    BY <1>1, <1>3, <1>4 DEF OfKind, Quota
  <2> HIDE DEF o
  <2>4. \A q \in o.asks : Suits(world, e, task, q)
    <3> SUFFICES ASSUME NEW q \in o.asks PROVE Suits(world, e, task, q)
      OBVIOUS
    <3>1. LocalSuits(world, r, q)
      BY <2>2, <2>3 DEF LocalFits
    <3>2. Plainly(q)
      BY <3>1 DEF LocalSuits
    <3> QED BY <1>4, <3>1, <3>2 DEF Suits, Plainly, ErrorsOf, Allowed, Vaulted, Refreshing
  <2>5. ~Open(o) => Rightly(world, past, e, task, o)
    BY <1>4, <2>2, <2>3 DEF LocalFits, LocalRight, Rightly
  <2> QED BY <2>2, <2>3, <2>4, <2>5 DEF LocalFits, Fits, o
<1>5. CASE kind = "failed"
  <2>1. o = Fails("CredentialStorage")
    BY <1>1, <1>5 DEF OfKind
  <2>2. IsOutcome(Fails("CredentialStorage"), {}, "CredentialStorage", {}, {}, None)
    BY SimpleOutcomes
  <2>3. "CredentialStorage" \in ProviderErrors /\ "CredentialStorage" # None
    BY KnownErrors
  <2> QED BY <2>1, <2>2, <2>3 DEF Fits, IsOutcome, Open
<1>6. CASE kind \in {"key", "owned", "borrowed"}
  <2>1. Managing(world, past, e, task, managed)
    <3>1. Replied(AllErrors, task.first) /\ Replied(AllErrors, task.later)
      BY <1>6 DEF ErrorsOf
    <3>2. CASE kind = "key"
      BY <1>3, <1>6, <3>1, <3>2, KeyFits
    <3>3. CASE kind = "owned"
      BY <1>6, <3>1, <3>3, OwnedFits
    <3>4. CASE kind = "borrowed"
      BY <1>3, <3>1, <3>4, BorrowedFits
    <3> QED BY <1>6, <3>2, <3>3, <3>4
  <2> HIDE DEF managed, quota
  <2>2. CASE managed.error = None
    <3>1. o = managed
      BY <1>1, <1>6, <2>2 DEF OfKind
    <3> QED BY <2>1, <2>2, <3>1 DEF Fits, Managing
  <2>3. CASE managed.error # None
    <3> DEFINE error == Reported(kind, managed.error)
    <3>1. o = Fails(error)
      BY <1>1, <1>6, <2>3 DEF OfKind
    <3>2. error \in ProviderErrors
      BY <2>1, <2>3, ReportedErrors DEF Managing
    <3>3. IsOutcome(Fails(error), {}, error, {}, {}, None)
      BY SimpleOutcomes
    <3> HIDE DEF error, o
    <3> QED BY <1>2, <3>1, <3>2, <3>3 DEF Fits, IsOutcome, Open, o
  <2> QED BY <2>2, <2>3
<1> QED BY <1>4, <1>5, <1>6 DEF Kinds

----------------------------------------------------------------------------
(* The invariant.                                                           *)

\* What a task that goes on knows, and how often its token was sent.
Known(kind, task) ==
  /\ DOMAIN task = {"attempt", "first", "later", "sent", "result"}
  /\ task.attempt \in 0..2 /\ task.sent \in 0..1
  /\ kind # "owned" => task.sent = 0
  /\ Replied(ErrorsOf(kind), task.first) /\ Replied(ErrorsOf(kind), task.later)
  /\ InOrder(task.first)
  /\ task.sent = 1 => "rotate" \in DOMAIN task.first

\* What a task that has ended comes to.
Reportable(o) ==
  /\ o.error = None => o.account \in Accounts /\ o.shows # {}
  /\ o.error # None => o.error \in ProviderErrors

TaskOK(w, past, e, task) ==
  /\ DOMAIN task = {"attempt", "first", "later", "sent", "result"}
  /\ task.attempt \in 0..2 /\ task.sent \in 0..1
  /\ task.result.asks # {} => /\ Known(e.kind, task) /\ Traced(w, past, e, task)
                              /\ \A q \in task.result.asks : Suits(w, e, task, q)
  /\ task.result.asks = {} => /\ Reportable(task.result)
                              /\ task.result.error = None => Rightly(w, past, e, task, task.result)

\* What is suited, or right, is so given the first replies.
LEMMA FirstMatters ==
  ASSUME NEW w, NEW past, NEW e, NEW t1, NEW t2, t1.first = t2.first
  PROVE  /\ \A q : Suits(w, e, t1, q) <=> Suits(w, e, t2, q)
         /\ \A o : Rightly(w, past, e, t1, o) <=> Rightly(w, past, e, t2, o)
         /\ t1.later = t2.later => (Traced(w, past, e, t1) <=> Traced(w, past, e, t2))
BY DEF Suits, Rightly, Traced

LEMMA EndedOK ==
  ASSUME NEW w, NEW past, NEW e, NEW task, NEW o, o.asks = {}, Reportable(o),
         o.error = None => Rightly(w, past, e, task, o),
         DOMAIN task = {"attempt", "first", "later", "sent", "result"},
         task.attempt \in 0..2, task.sent \in 0..1
  PROVE  TaskOK(w, past, e, Ended(task, o))
<1> DEFINE ended == Ended(task, o)
<1>1. /\ DOMAIN ended = DOMAIN task
      /\ ended.attempt = task.attempt /\ ended.sent = task.sent /\ ended.result = o
      /\ o.error = None => ended.first = task.first
  BY DEF Ended
<1> HIDE DEF ended
<1>2. o.error = None => Rightly(w, past, e, ended, o)
  BY <1>1, FirstMatters
<1> QED BY <1>1, <1>2 DEF TaskOK, ended

\* A task that was not answered yet.
LEMMA FreshOK ==
  ASSUME NEW w, NEW past, History(past), NEW e, NEW task, task.first = <<>>, task.later = <<>>
  PROVE  /\ \A errors : Replied(errors, task.first) /\ Replied(errors, task.later)
         /\ InOrder(task.first)
         /\ Traced(w, past, e, task)
<1>1. DOMAIN task.first = {} /\ DOMAIN task.later = {}
  OBVIOUS
<1>2. \A a : OfAccount(a, task.first) /\ OfAccount(a, task.later)
  BY <1>1 DEF OfAccount, Ours, Has
<1>3. LocalTraced(w, past, task.first)
  BY <1>1, LocalStart
<1> QED BY <1>1, <1>2, <1>3 DEF Replied, InOrder, Traced

\* It is no usage, where a fetch may be tried again.
LEMMA FreshOpen ==
  ASSUME world.provider \in Providers, NEW kind \in Kinds, Idempotent(world.provider, kind)
  PROVE  Open(Outcome(kind, NewTask))
<1> DEFINE p == world.provider
           r == NewTask.first
           quota == Quota(p, kind, Answers(NewTask))
           managed == Managed(p, kind, r, NewTask.later, quota)
           o == Outcome(kind, NewTask)
<1>1. DOMAIN r = {} /\ Answers(NewTask) = r
  BY DEF NewTask, Answers, Moved
<1>2. o = OfKind(kind, quota, managed)
  BY DEF Outcome, Fetched
<1>3. CASE kind = "local"
  <2> DEFINE ctx == Ctx(ProviderErrors, {}, {Self}, Vaulted)
  <2>1. ctx.errors = ProviderErrors /\ ctx.accounts = {} /\ ctx.askers = {Self} /\ ctx.never = Vaulted
    BY ContextFields
  <2> HIDE DEF ctx, r
  <2>2. Usual(ctx) /\ "token" \notin ctx.never
    <3>1. Refreshing \subseteq Vaulted /\ ProviderErrors \subseteq AllErrors /\ "token" \notin Vaulted
      BY DEF Vaulted, Refreshing, AllErrors
    <3> QED BY <2>1, <3>1 DEF Usual, Context, Asked
  <2>3. Answered(ctx, r) /\ Ours(ctx.accounts, r) /\ ~Has(r, "token")
    BY <1>1 DEF Answered, Ours, Has
  <2>4. p \in KeyHolders \cup {"antigravity"}
    BY <1>3 DEF Idempotent, LocalIdempotent, KeyHolders
  <2>5. o = Local(p, r)
    BY <1>1, <1>2, <1>3 DEF OfKind, Quota
  <2>6. Done(ctx, Local(p, r))
    <3>1. CASE p \in KeyHolders
      BY <2>1, <2>2, <2>3, <3>1, KeyLocalDone
    <3>2. CASE p = "antigravity"
      <4>1. Local(p, r) = Antigravity(r)
        BY <3>2 DEF Local
      <4> QED BY <2>2, <2>3, <4>1, GivenDone
    <3> QED BY <2>4, <3>1, <3>2
  <2> QED BY <2>1, <2>5, <2>6 DEF Done, Owns
<1>4. CASE kind \in {"key", "borrowed"}
  <2>1. \E says, o2 : managed = Vault(r, "read", says, o2)
    BY DEF Managed
  <2> HIDE DEF managed, quota
  <2>2. Open(managed)
    BY <1>1, <2>1, StepsEnd DEF Vault, Has
  <2>3. managed.error # None => Open(Fails(Reported(kind, managed.error)))
    <3>1. \A says, o2 : Vault(r, "read", says, o2) = Asks(Question("read", Self, NoLanes, says, VaultErrors))
      BY <1>1, QuestionFields DEF Vault, Step
    <3>2. managed.error = None
      BY <2>1, <3>1, SimpleOutcomes DEF IsOutcome
    <3> QED BY <3>2
  <2> QED BY <1>2, <1>4, <2>2, <2>3 DEF OfKind
<1> QED BY <1>3, <1>4 DEF Kinds, Idempotent

LEMMA SettledOK ==
  ASSUME world.provider \in Providers, NEW past, History(past), NEW e, e.kind \in Kinds,
         e.kind \in {"key", "owned", "borrowed"} => e.account \in Accounts,
         NEW task, Known(e.kind, task), Traced(world, past, e, task)
  PROVE  TaskOK(world, past, e, Settled(e.kind, task))
<1> DEFINE kind == e.kind
           o == Outcome(kind, task)
<1>1. Fits(world, past, e, task, o)
  BY OutcomeFits DEF Known
<1> HIDE DEF o
<1>2. CASE o.asks # {}
  <2> DEFINE asking == Settled(kind, task)
  <2>1. asking = Settle(kind, task, o)
    BY DEF Settled, o
  <2>2. /\ DOMAIN asking = DOMAIN task /\ asking.result = o
        /\ asking.attempt = task.attempt /\ asking.sent = task.sent
        /\ asking.first = task.first /\ asking.later = task.later
    BY <1>2, <2>1 DEF Settle, Known
  <2> HIDE DEF asking
  <2>3. /\ Traced(world, past, e, asking)
        /\ \A q \in asking.result.asks : Suits(world, e, asking, q)
    BY <1>1, <2>2, FirstMatters DEF Fits
  <2>4. Known(kind, asking)
    BY <2>2 DEF Known
  <2> QED BY <1>2, <2>2, <2>3, <2>4 DEF TaskOK, Known, asking
<1>3. CASE o.asks = {} /\ Retriable(kind, task, o.error)
  <2> DEFINE fresh == Outcome(kind, NewTask)
             again == [NewTask EXCEPT !.attempt = task.attempt + 1, !.sent = task.sent, !.result = fresh]
  <2>1. Settled(kind, task) = again
    BY <1>3 DEF Settled, Settle, o
  <2>a. NewTask.first = <<>> /\ NewTask.later = <<>>
    BY DEF NewTask
  <2>2. /\ DOMAIN again = {"attempt", "first", "later", "sent", "result"}
        /\ again.attempt = task.attempt + 1 /\ again.sent = task.sent
        /\ again.first = <<>> /\ again.later = <<>> /\ again.result = fresh
    BY DEF NewTask
  <2>5. Fits(world, past, e, NewTask, fresh)
    BY <2>a, FreshOK, OutcomeFits
  <2>b. Open(fresh)
    BY <1>3, FreshOpen DEF Retriable
  <2> HIDE DEF again, fresh
  <2>3. again.attempt \in 0..2 /\ again.sent = 0
    BY <1>3, <2>2 DEF Retriable, Idempotent, Known
  <2>c. /\ \A errors : Replied(errors, again.first) /\ Replied(errors, again.later)
        /\ InOrder(again.first) /\ Traced(world, past, e, again)
    BY <2>2, FreshOK
  <2>4. Known(kind, again) /\ Traced(world, past, e, again)
    BY <2>2, <2>3, <2>c DEF Known
  <2>6. \A q \in again.result.asks : Suits(world, e, again, q)
    BY <2>2, <2>5, <2>a, FirstMatters DEF Fits
  <2>7. again.result.asks = {} => again.result.error # None /\ Reportable(again.result)
    BY <2>2, <2>5, <2>b DEF Fits, Open, Reportable
  <2> QED BY <2>1, <2>4, <2>6, <2>7 DEF TaskOK, Known
<1>4. CASE o.asks = {} /\ ~Retriable(kind, task, o.error)
  <2>1. Settled(kind, task) = Ended(task, Accepted(o))
    BY <1>4 DEF Settled, Settle, o
  <2>2. /\ Accepted(o).asks = {} /\ Reportable(Accepted(o))
        /\ Accepted(o).error = None => Rightly(world, past, e, task, Accepted(o))
    <3> DEFINE refused == o.error = None /\ (o.shows = {} \/ \E x \in o.shows : Given(x.used) /\ x.used < 0)
    <3>1. CASE ~refused
      <4>1. Accepted(o) = o
        BY <3>1 DEF Accepted
      <4>2. o.error = None => Rightly(world, past, e, task, o) /\ o.shows # {}
        BY <1>1, <1>4, <3>1 DEF Fits, Open
      <4>3. Reportable(o)
        BY <1>1, <4>2 DEF Fits, Rightly, Reportable
      <4> QED BY <1>4, <4>1, <4>2, <4>3
    <3>2. CASE refused
      <4>1. Accepted(o) = Fails("InvalidData")
        BY <3>2 DEF Accepted
      <4>2. IsOutcome(Fails("InvalidData"), {}, "InvalidData", {}, {}, None)
        BY SimpleOutcomes
      <4>3. "InvalidData" \in ProviderErrors /\ "InvalidData" # None
        BY KnownErrors
      <4> QED BY <4>1, <4>2, <4>3 DEF IsOutcome, Reportable
    <3> QED BY <3>1, <3>2
  <2> QED BY <2>1, <2>2, EndedOK DEF Known
<1> QED BY <1>2, <1>3, <1>4

\* The places of the selection have the entries of saved accounts, or a local or failed one.
LEMMA SelectedKinds ==
  ASSUME NEW w \in Worlds, NEW t \in DOMAIN Selected(w)
  PROVE  /\ Selected(w)[t].kind \in Kinds
         /\ Selected(w)[t].kind \in {"key", "owned", "borrowed"} => Selected(w)[t].account \in Accounts
<1> DEFINE Good(e) == /\ e.kind \in Kinds
                      /\ e.kind \in {"key", "owned", "borrowed"} => e.account \in Accounts
           GoodAll(f) == \A i \in DOMAIN f : Good(f[i])
<1>1. \A i \in DOMAIN w.saved : w.saved[i].kind \in {"key", "owned", "borrowed"} /\ w.saved[i].account \in Accounts
  <2>1. w.saved \in Seq(SavedAccount(w.provider))
    BY WorldsAreWorlds
  <2>2. \A i \in DOMAIN w.saved : w.saved[i] \in SavedAccount(w.provider)
    BY <2>1
  <2> QED BY <2>2 DEF SavedAccount, SavedKinds
<1>2. Good(LocalEntry) /\ Good(Entry("failed", None))
  BY DEF LocalEntry, Entry, Kinds
<1>3. \A local, f : GoodAll(f) => GoodAll(After(local, f))
  <2> SUFFICES ASSUME NEW local, NEW f, GoodAll(f), NEW i \in DOMAIN After(local, f)
               PROVE  Good(After(local, f)[i])
    OBVIOUS
  <2>1. /\ i \in (IF local THEN {0} ELSE {}) \cup DOMAIN f
        /\ After(local, f)[i] = IF i = 0 THEN LocalEntry ELSE f[i]
    BY DEF After
  <2>2. CASE i = 0
    BY <1>2, <2>1, <2>2
  <2>3. CASE i # 0
    <3>1. i \in DOMAIN f
      BY <2>1, <2>3
    <3> QED BY <2>1, <2>3, <3>1
  <2> QED BY <2>2, <2>3
<1>4. GoodAll(<<>>) /\ GoodAll(<<Entry("failed", None)>>)
  BY <1>2
<1>5. ASSUME NEW saved,
             \A i \in DOMAIN saved : saved[i].kind \in {"key", "owned", "borrowed"} /\ saved[i].account \in Accounts
      PROVE  GoodAll(Chosen(w, saved))
  <2>1. GoodAll(ManagedEntries(saved))
    BY <1>5 DEF ManagedEntries, Entry, Kinds
  <2> HIDE DEF GoodAll
  <2> QED BY <1>3, <1>4, <2>1 DEF Chosen
<1>6. GoodAll(Detected(w))
  <2> DEFINE saved == [i \in {j \in DOMAIN w.saved : w.saved[j].enabled} |-> w.saved[i]]
  <2>1. \A i \in DOMAIN saved : saved[i].kind \in {"key", "owned", "borrowed"} /\ saved[i].account \in Accounts
    BY <1>1
  <2> HIDE DEF saved
  <2>2. GoodAll(Chosen(w, saved))
    BY <1>5, <2>1
  <2> HIDE DEF GoodAll
  <2> QED BY <1>4, <2>2 DEF Detected, saved
<1>7. GoodAll([list \in LocalSources(w) |-> LocalEntry])
  BY <1>2
<1>8. GoodAll(Chosen(w, w.saved))
  BY <1>1, <1>5
<1>9. GoodAll(Selected(w))
  <2>1. w.mode \in {"named", "detected", "named_unsaved", "detected_unsaved"}
    BY WorldsAreWorlds
  <2>2. GoodAll(After(TRUE, <<>>))
    BY <1>3, <1>4
  <2> HIDE DEF GoodAll
  <2> QED BY <1>6, <1>7, <1>8, <2>1, <2>2 DEF Selected
<1> QED BY <1>9

\* The inductive invariant.
Bounded ==
  /\ odd \in Nat /\ faults \in Nat
  /\ odd <= MaxOdd(world) /\ odd + faults <= MaxTrouble(world)

IInv ==
  /\ world \in Worlds /\ plan = Selected(world)
  /\ logins \in Seq(Accounts) /\ Len(logins) \in 1..MaxLogins(world)
  /\ Bounded
  /\ DOMAIN tasks = DOMAIN plan
  /\ \A t \in DOMAIN plan : TaskOK(world, logins, plan[t], tasks[t])

LEMMA EntriesKnown ==
  ASSUME IInv, NEW t \in DOMAIN plan
  PROVE  /\ world.provider \in Providers /\ plan[t].kind \in Kinds
         /\ plan[t].kind \in {"key", "owned", "borrowed"} => plan[t].account \in Accounts
BY SelectedKinds, WorldsAreWorlds DEF IInv

\* Somebody is logged in.
LEMMA LoggedIn ==
  ASSUME IInv
  PROVE  History(logins) /\ login \in Accounts
<1>1. MaxLogins(world) \in Nat
  BY WorldsAreWorlds DEF IInv
<1> QED BY <1>1 DEF IInv, History, login

LEMMA LooksSeem ==
  \A a : Looks(a) = Seem(world, a)
BY DEF Looks, Alike, Seem

\* Whom a task is for: whoever the environment has the key of, the account of the entry, or
\* the login its reference is to.
Owner(e, task) ==
  IF e.kind = "local" THEN Mine
  ELSE IF "resolve" \in DOMAIN task.first THEN task.first.resolve.of ELSE e.account

\* What a task that goes on asks, and what it may be answered.
LEMMA RepliesFit ==
  ASSUME IInv, NEW t \in DOMAIN plan, Working(t), NEW q \in tasks[t].result.asks,
         NEW reply \in Replies(t, q)
  PROVE  /\ reply.of \in Accounts
         /\ reply.error = None \/ reply.error \in ErrorsOf(plan[t].kind)
         /\ reply.wire = Ordinary(q.lanes) \/ odd < MaxOdd(world)
         /\ Hears(login, Owner(plan[t], tasks[t]), q, reply) /\ reply.like = Seem(world, reply.of)
         /\ q.step = "token" /\ plan[t].kind = "local" => SaysWell(world, reply)
         /\ q.step = "token" /\ plan[t].kind # "local" => reply.says # "none" \/ reply.error # None
<1> DEFINE kind == plan[t].kind
<1>1. Known(kind, tasks[t]) /\ Suits(world, plan[t], tasks[t], q)
  BY DEF IInv, TaskOK, Working
<1>2. q.of \in Asked /\ q.fails \subseteq ErrorsOf(kind) /\ kind # "failed"
  BY <1>1 DEF Suits
<1>a. Self \notin Accounts /\ Login \notin Accounts /\ Self # Login
  BY AskersApart DEF Self, Login
<1>3. /\ Asker(t, q.of) \in Accounts
      /\ q.of = Login => Asker(t, q.of) = login
      /\ q.of = Self => Asker(t, q.of) = Owner(plan[t], tasks[t])
      /\ q.of \in Accounts => Asker(t, q.of) = q.of
  <2>1. login \in Accounts /\ Mine \in Accounts
    BY MineAssumption, LoggedIn
  <2>2. "resolve" \in DOMAIN tasks[t].first => tasks[t].first.resolve.of \in Accounts
    BY <1>1 DEF Known, Replied
  <2>3. kind # "local" => plan[t].account \in Accounts
    BY <1>2, EntriesKnown DEF Kinds
  <2>4. q.of # Login /\ q.of # Self => q.of \in Accounts
    BY <1>2 DEF Asked
  <2>5. /\ q.of = Login => Asker(t, q.of) = login
        /\ q.of = Self => Asker(t, q.of) = Owner(plan[t], tasks[t])
        /\ q.of # Login /\ q.of # Self => Asker(t, q.of) = q.of
    BY <1>a DEF Asker, Owner
  <2>6. Owner(plan[t], tasks[t]) \in Accounts
    BY <2>1, <2>2, <2>3 DEF Owner
  <2> QED BY <1>a, <2>1, <2>4, <2>5, <2>6
<1> DEFINE answer(error, says, wire) ==
             [error |-> error, says |-> says, wire |-> wire, of |-> Asker(t, q.of),
              like |-> Looks(Asker(t, q.of))]
           more == odd + faults < MaxTrouble(world)
           wires == IF more /\ odd < MaxOdd(world) THEN OutOfOrdinary(q.lanes) ELSE {}
           errors == IF more THEN q.fails ELSE {}
<1>4. \/ \E says \in Says(t, q), wire \in {Ordinary(q.lanes)} \cup wires : reply = answer(None, says, wire)
      \/ \E error \in errors : reply = answer(error, None, Ordinary(q.lanes))
  BY DEF Replies
<1>5. CASE \E says \in Says(t, q), wire \in {Ordinary(q.lanes)} \cup wires : reply = answer(None, says, wire)
  <2>1. PICK says \in Says(t, q), wire \in {Ordinary(q.lanes)} \cup wires : reply = answer(None, says, wire)
    BY <1>5
  <2>2. /\ reply.of = Asker(t, q.of) /\ reply.error = None /\ reply.wire = wire /\ reply.says = says
        /\ reply.like = Seem(world, reply.of)
    BY <2>1, LooksSeem
  <2>3. /\ q.step = "token" /\ kind = "local" => SaysWell(world, reply)
        /\ q.step = "token" /\ kind # "local" => reply.says # "none"
    BY <2>1, <2>2 DEF Says, SaysWell
  <2> QED BY <1>3, <2>1, <2>2, <2>3 DEF Hears
<1>6. CASE \E error \in errors : reply = answer(error, None, Ordinary(q.lanes))
  <2>1. PICK error \in errors : reply = answer(error, None, Ordinary(q.lanes))
    BY <1>6
  <2>2. /\ reply.of = Asker(t, q.of) /\ reply.error = error /\ reply.wire = Ordinary(q.lanes)
        /\ reply.like = Seem(world, reply.of)
    BY <2>1, LooksSeem
  <2>3. reply.error # None /\ reply.error \in ErrorsOf(kind)
    BY <1>2, <2>1, <2>2, KnownErrors DEF ErrorsOf
  <2> QED BY <1>3, <2>2, <2>3 DEF Hears, SaysWell
<1> QED BY <1>4, <1>5, <1>6


LEMMA WithReplied ==
  ASSUME NEW errors, NEW r, Replied(errors, r), NEW s, NEW reply,
         reply.of \in Accounts, reply.error = None \/ reply.error \in errors
  PROVE  Replied(errors, With(r, s, reply))
<1> DEFINE more == With(r, s, reply)
<1>1. /\ DOMAIN more = DOMAIN r \cup {s} /\ more[s] = reply
      /\ \A x \in DOMAIN r : x # s => more[x] = r[x]
  BY DEF With
<1> HIDE DEF more
<1>2. \A x \in DOMAIN more : more[x].of \in Accounts /\ (more[x].error = None \/ more[x].error \in errors)
  BY <1>1 DEF Replied
<1> QED BY <1>2 DEF Replied, more

\* Who is asked for an account answers for it.
LEMMA WithAccount ==
  ASSUME NEW a \in Accounts, NEW r, OfAccount(a, r), NEW user, NEW q, NEW reply,
         Binds(a, q), q.step = "token" => q.of = Self, Hears(user, a, q, reply),
         q.step = "token" => reply.says # "none" \/ reply.error # None
  PROVE  OfAccount(a, With(r, q.step, reply))
<1> DEFINE more == With(r, q.step, reply)
<1>1. /\ DOMAIN more = DOMAIN r \cup {q.step} /\ more[q.step] = reply
      /\ \A x \in DOMAIN r : x # q.step => more[x] = r[x]
  BY DEF With
<1>2. Ours({a}, more)
  <2>1. q.step \notin Prelims => reply.of = a
    BY DEF Binds, Hears
  <2> QED BY <2>1, WithOurs DEF OfAccount
<1> HIDE DEF more
<1>3. Has(more, "token") => more.token.of = a /\ more.token.says # "none"
  <2>1. CASE q.step = "token"
    BY <1>1, <2>1 DEF Has, Hears
  <2>2. CASE q.step # "token"
    <3>1. Has(more, "token") => Has(r, "token") /\ more.token = r.token
      BY <1>1, <2>2 DEF Has
    <3> QED BY <3>1 DEF OfAccount
  <2> QED BY <2>1, <2>2
<1> QED BY <1>2, <1>3 DEF OfAccount, more

\* Whose the replies are stays known when one more comes.
LEMMA TracedTold ==
  ASSUME NEW w, NEW past, History(past), NEW e, e.kind \in Kinds,
         e.kind \in {"key", "owned", "borrowed"} => e.account \in Accounts,
         NEW task, Known(e.kind, task), Traced(w, past, e, task), NEW q, Suits(w, e, task, q),
         NEW reply, reply.of \in Accounts, reply.like = Seem(w, reply.of),
         Hears(past[Len(past)], Owner(e, task), q, reply),
         q.step = "token" /\ e.kind = "local" => SaysWell(w, reply),
         q.step = "token" /\ e.kind # "local" => reply.says # "none" \/ reply.error # None,
         NEW heard,
         heard.first = IF Moved(task.first) THEN task.first ELSE With(task.first, q.step, reply),
         heard.later = IF Moved(task.first) THEN With(task.later, q.step, reply) ELSE task.later
  PROVE  Traced(w, past, e, heard)
<1> DEFINE r == task.first
           more == With(r, q.step, reply)
<1>1. /\ DOMAIN more = DOMAIN r \cup {q.step} /\ more[q.step] = reply
      /\ \A x \in DOMAIN r : x # q.step => more[x] = r[x]
  BY DEF With
<1> HIDE DEF more
<1>2. e.kind # "owned" => ~Moved(r)
  BY DEF Traced, Moved, Refreshing
<1>3. e.kind # "owned" => heard.first = more
  BY <1>2 DEF more
<1>4. e.kind # "owned" => DOMAIN heard.first \cap Refreshing = {}
  BY <1>1, <1>3 DEF Traced, Suits
<1>5. e.kind # "borrowed" => "resolve" \notin DOMAIN heard.first
  <2>1. DOMAIN heard.first \subseteq DOMAIN r \cup {q.step}
    BY <1>1 DEF more
  <2> QED BY <2>1 DEF Traced, Suits
<1>6. e.kind \in {"key", "owned"} =>
        OfAccount(e.account, heard.first) /\ OfAccount(e.account, heard.later)
  <2> SUFFICES ASSUME e.kind \in {"key", "owned"}
               PROVE  OfAccount(e.account, heard.first) /\ OfAccount(e.account, heard.later)
    OBVIOUS
  <2>1. OfAccount(e.account, task.first) /\ OfAccount(e.account, task.later)
    BY DEF Traced
  <2>2. Owner(e, task) = e.account
    BY DEF Owner, Traced
  <2>3. Binds(e.account, q) /\ (q.step = "token" => q.of = Self)
    BY DEF Suits
  <2>4. /\ OfAccount(e.account, With(task.first, q.step, reply))
        /\ OfAccount(e.account, With(task.later, q.step, reply))
    BY <2>1, <2>2, <2>3, WithAccount
  <2> QED BY <2>1, <2>4
<1>7. e.kind = "borrowed" => IF "resolve" \in DOMAIN heard.first
                             THEN OfAccount(heard.first.resolve.of, heard.first)
                             ELSE DOMAIN heard.first \subseteq {"read"}
  <2> SUFFICES ASSUME e.kind = "borrowed"
               PROVE  IF "resolve" \in DOMAIN more
                      THEN OfAccount(more.resolve.of, more)
                      ELSE DOMAIN more \subseteq {"read"}
    BY <1>3
  <2>1. CASE "resolve" \in DOMAIN r
    <3> DEFINE a == r.resolve.of
    <3>1. a \in Accounts
      BY <2>1 DEF Known, Replied
    <3>2. Owner(e, task) = a /\ OfAccount(a, r)
      BY <2>1 DEF Owner, Traced
    <3>3. q.step # "resolve" /\ Binds(a, q) /\ (q.step = "token" => q.of = Self)
      BY <2>1 DEF Suits
    <3>4. "resolve" \in DOMAIN more /\ more.resolve = r.resolve
      BY <1>1, <2>1, <3>3
    <3> HIDE DEF a, r
    <3>5. OfAccount(a, more)
      BY <3>1, <3>2, <3>3, WithAccount DEF more
    <3> QED BY <3>4, <3>5 DEF a
  <2>2. CASE "resolve" \notin DOMAIN r
    <3>1. DOMAIN r \subseteq {"read"} /\ q.step \in {"read", "resolve"}
      BY <2>2 DEF Traced, Suits
    <3>2. DOMAIN more \subseteq {"read", "resolve"}
      BY <1>1, <3>1
    <3>3. \A a : OfAccount(a, more)
      BY <3>2 DEF OfAccount, Ours, Has, Prelims, Vaulted
    <3> QED BY <3>2, <3>3
  <2> QED BY <2>1, <2>2
<1>8. e.kind = "local" => LocalTraced(w, past, heard.first)
  <2> SUFFICES ASSUME e.kind = "local" PROVE LocalTraced(w, past, more)
    BY <1>3
  <2>1. Reports(r)
    BY DEF Known, Replied, ErrorsOf, Reports
  <2>2. LocalTraced(w, past, r) /\ LocalSuits(w, r, q)
    BY DEF Traced, Suits
  <2>3. Owner(e, task) = Mine
    BY DEF Owner
  <2> HIDE DEF r
  <2> QED BY <2>1, <2>2, <2>3, LocalTold DEF more
<1> QED BY <1>4, <1>5, <1>6, <1>7, <1>8 DEF Traced

\* And so do they, and what was made of them, when somebody else logs in.
LEMMA TaskSwitched ==
  ASSUME NEW w, NEW past, NEW more, Extends(past, more), NEW e, NEW task, TaskOK(w, past, e, task)
  PROVE  TaskOK(w, more, e, task)
<1>1. Traced(w, past, e, task) => Traced(w, more, e, task)
  BY LocalSwitched DEF Traced
<1>2. \A a, x : Excused(w, past, a, x) => Excused(w, more, a, x)
  BY BetweenStays DEF Excused
<1>3. Rightly(w, past, e, task, task.result) => Rightly(w, more, e, task, task.result)
  BY <1>2 DEF Rightly
<1> QED BY <1>1, <1>3 DEF TaskOK

LEMMA InitIInv == Init => IInv
<1> SUFFICES ASSUME Init PROVE IInv
  OBVIOUS
<1>1. /\ world \in Worlds /\ plan = Selected(world)
      /\ DOMAIN tasks = DOMAIN plan
  BY DEF Init
<1>4. /\ logins \in Seq(Accounts) /\ Len(logins) \in 1..MaxLogins(world)
      /\ History(logins)
  <2>1. PICK account \in Accounts : logins = <<account>>
    BY DEF Init
  <2>2. MaxLogins(world) \in Nat \ {0}
    BY <1>1, WorldsAreWorlds
  <2> QED BY <2>1, <2>2 DEF History
<1>2. Bounded
  BY WorldsAreWorlds DEF Init, Bounded
<1>3. ASSUME NEW t \in DOMAIN plan PROVE TaskOK(world, logins, plan[t], tasks[t])
  <2>1. /\ world.provider \in Providers /\ plan[t].kind \in Kinds
        /\ plan[t].kind \in {"key", "owned", "borrowed"} => plan[t].account \in Accounts
    BY <1>1, SelectedKinds, WorldsAreWorlds
  <2>2. /\ DOMAIN NewTask = {"attempt", "first", "later", "sent", "result"}
        /\ NewTask.attempt = 0 /\ NewTask.sent = 0 /\ NewTask.first = <<>> /\ NewTask.later = <<>>
    BY DEF NewTask
  <2>5. /\ \A errors : Replied(errors, NewTask.first) /\ Replied(errors, NewTask.later)
        /\ InOrder(NewTask.first) /\ Traced(world, logins, plan[t], NewTask)
    BY <1>4, <2>2, FreshOK
  <2>3. Known(plan[t].kind, NewTask) /\ Traced(world, logins, plan[t], NewTask)
    BY <2>2, <2>5 DEF Known
  <2>4. tasks[t] = Settled(plan[t].kind, NewTask)
    BY DEF Init
  <2> QED BY <1>4, <2>1, <2>3, <2>4, SettledOK
<1> QED BY <1>1, <1>2, <1>3, <1>4 DEF IInv

\* An answer: the replies of the task, and its count of sent tokens, stay in order.
LEMMA ProceedKeeps ==
  ASSUME IInv, NEW t \in DOMAIN plan, Proceed(t)
  PROVE  IInv'
<1> DEFINE e == plan[t]
           kind == e.kind
           task == tasks[t]
<1> DEFINE Happens(q, reply) ==
             LET strange == IF reply.wire # Ordinary(q.lanes) THEN 1 ELSE 0
                 trouble == IF Undisturbed(q, reply) THEN 0 ELSE 1
             IN  /\ odd + faults + strange + trouble <= MaxTrouble(world)
                 /\ odd' = odd + strange
                 /\ faults' = faults + trouble
                 /\ Told(t, q, reply)
<1>a. PICK q \in task.result.asks : \E reply \in Replies(t, q) : Happens(q, reply)
  BY DEF Proceed
<1>1. PICK reply \in Replies(t, q) : Happens(q, reply)
  BY <1>a
<1>2. Working(t) /\ UNCHANGED <<world, plan, logins>>
  BY DEF Proceed
<1>3. Known(kind, task) /\ Traced(world, logins, e, task) /\ Suits(world, e, task, q)
  BY <1>2, <1>a DEF IInv, TaskOK, Working
<1>4. /\ reply.of \in Accounts
      /\ reply.error = None \/ reply.error \in ErrorsOf(kind)
      /\ reply.wire = Ordinary(q.lanes) \/ odd < MaxOdd(world)
      /\ Hears(login, Owner(e, task), q, reply) /\ reply.like = Seem(world, reply.of)
      /\ q.step = "token" /\ kind = "local" => SaysWell(world, reply)
      /\ q.step = "token" /\ kind # "local" => reply.says # "none" \/ reply.error # None
  BY <1>1, <1>2, <1>a, RepliesFit
<1>5. Allowed(task.first, q.step) /\ (q.step = "rotate" => kind = "owned")
  BY <1>3 DEF Suits, Refreshing
<1> DEFINE moved == Moved(task.first)
           sent == IF q.step = "rotate" THEN 1 ELSE 0
           heard == [task EXCEPT !.first = IF moved THEN @ ELSE With(@, q.step, reply),
                                 !.later = IF moved THEN With(@, q.step, reply) ELSE @,
                                 !.sent = @ + sent]
<1>6. tasks' = [tasks EXCEPT ![t] = Settled(kind, heard)]
  BY <1>1 DEF Told
<1>7. /\ DOMAIN heard = {"attempt", "first", "later", "sent", "result"}
      /\ heard.attempt = task.attempt /\ heard.sent = task.sent + sent
      /\ heard.first = IF moved THEN task.first ELSE With(task.first, q.step, reply)
      /\ heard.later = IF moved THEN With(task.later, q.step, reply) ELSE task.later
  BY <1>3 DEF Known
<1> HIDE DEF heard
<1>c. /\ world.provider \in Providers /\ kind \in Kinds
      /\ kind \in {"key", "owned", "borrowed"} => e.account \in Accounts
  BY EntriesKnown
<1>8. Replied(ErrorsOf(kind), heard.first) /\ Replied(ErrorsOf(kind), heard.later)
  BY <1>3, <1>4, <1>7, WithReplied DEF Known
<1>b. /\ DOMAIN heard.first \subseteq DOMAIN task.first \cup {q.step}
      /\ DOMAIN task.first \subseteq DOMAIN heard.first
      /\ ~moved => q.step \in DOMAIN heard.first
  BY <1>7 DEF With
<1>9. InOrder(heard.first)
  BY <1>3, <1>5, <1>b DEF Known, InOrder, Allowed
<1>10. /\ heard.sent \in 0..1 /\ (kind # "owned" => heard.sent = 0)
       /\ heard.sent = 1 => "rotate" \in DOMAIN heard.first
  <2>1. CASE q.step = "rotate"
    <3>1. ~moved /\ "rotate" \notin DOMAIN task.first
      BY <1>5, <2>1 DEF Allowed
    <3>2. task.sent = 0
      BY <1>3, <3>1 DEF Known
    <3>3. "rotate" \in DOMAIN heard.first
      BY <1>b, <2>1, <3>1
    <3> QED BY <1>5, <1>7, <2>1, <3>2, <3>3
  <2>2. CASE q.step # "rotate"
    <3>1. heard.sent = task.sent
      BY <1>3, <1>7, <2>2 DEF Known
    <3>2. "rotate" \in DOMAIN task.first => "rotate" \in DOMAIN heard.first
      BY <1>b
    <3> QED BY <1>3, <3>1, <3>2 DEF Known
  <2> QED BY <2>1, <2>2
<1>11. Known(kind, heard)
  BY <1>3, <1>7, <1>8, <1>9, <1>10 DEF Known
<1>d. Traced(world, logins, e, heard)
  <2> HIDE DEF e, task
  <2>1. kind \in Kinds /\ (kind \in {"key", "owned", "borrowed"} => e.account \in Accounts)
    BY <1>c
  <2>2. History(logins) /\ login = logins[Len(logins)]
    BY LoggedIn DEF login
  <2> QED BY <1>3, <1>4, <1>7, <2>1, <2>2, TracedTold
<1>12. TaskOK(world, logins, e, Settled(kind, heard))
  BY <1>11, <1>c, <1>d, LoggedIn, SettledOK
<1>13. Bounded'
  BY <1>1, <1>2, <1>4, WorldsAreWorlds, SMTT(30) DEF IInv, Bounded
<1> QED BY <1>2, <1>6, <1>12, <1>13 DEF IInv

\* A task that is ended from without.
LEMMA StoppedOK ==
  ASSUME IInv, NEW t \in DOMAIN plan, NEW error \in {"Timeout", "Internal", "Cancelled"}
  PROVE  TaskOK(world, logins, plan[t], Ended(tasks[t], Fails(error)))
<1>1. IsOutcome(Fails(error), {}, error, {}, {}, None)
  BY SimpleOutcomes
<1>2. error \in ProviderErrors /\ error # None
  BY KnownErrors
<1>3. Fails(error).asks = {} /\ Reportable(Fails(error)) /\ Fails(error).error # None
  BY <1>1, <1>2 DEF Reportable, IsOutcome
<1> QED BY <1>3, EndedOK DEF IInv, TaskOK

LEMMA NextKeeps ==
  ASSUME IInv, [Next]_vars
  PROVE  IInv'
<1>1. ASSUME NEW t \in DOMAIN plan, Proceed(t) PROVE IInv'
  BY <1>1, ProceedKeeps
<1>2. ASSUME NEW t \in DOMAIN plan, Expire(t) \/ Panic(t) PROVE IInv'
  <2>1. PICK error \in {"Timeout", "Internal", "Cancelled"} :
          tasks' = [tasks EXCEPT ![t] = Ended(tasks[t], Fails(error))]
    BY <1>2 DEF Expire, Panic
  <2>2. UNCHANGED <<world, plan, logins, odd, faults>>
    BY <1>2 DEF Expire, Panic
  <2>3. TaskOK(world, logins, plan[t], Ended(tasks[t], Fails(error)))
    BY StoppedOK
  <2> QED BY <2>1, <2>2, <2>3 DEF IInv, Bounded
<1>3. CASE Cancel
  <2>1. \A t \in DOMAIN plan : TaskOK(world, logins, plan[t], Ended(tasks[t], Fails("Cancelled")))
    BY StoppedOK
  <2>2. \A t \in DOMAIN plan : TaskOK(world, logins, plan[t], tasks'[t])
    BY <1>3, <2>1 DEF Cancel, IInv
  <2>3. UNCHANGED <<world, plan, logins, odd, faults>> /\ DOMAIN tasks' = DOMAIN plan
    BY <1>3 DEF Cancel
  <2> QED BY <2>2, <2>3 DEF IInv, Bounded
<1>4. CASE Switch
  <2>1. /\ UNCHANGED <<world, plan, odd, faults, tasks>> /\ Len(logins) < MaxLogins(world)
        /\ \E account \in Accounts : logins' = Append(logins, account)
    BY <1>4 DEF Switch
  <2>2. /\ logins' \in Seq(Accounts) /\ Len(logins') \in 1..MaxLogins(world)
        /\ Extends(logins, logins')
    <3>1. MaxLogins(world) \in Nat /\ logins \in Seq(Accounts) /\ Len(logins) \in 1..MaxLogins(world)
      BY WorldsAreWorlds DEF IInv
    <3> QED BY <2>1, <3>1 DEF Extends
  <2>3. \A t \in DOMAIN plan : TaskOK(world, logins', plan[t], tasks[t])
    BY <2>2, TaskSwitched DEF IInv
  <2> QED BY <2>1, <2>2, <2>3 DEF IInv, Bounded
<1>5. CASE UNCHANGED vars
  BY <1>5 DEF vars, IInv, Bounded
<1> QED BY <1>1, <1>2, <1>3, <1>4, <1>5 DEF Next

\* The invariant holds throughout: the replies of a task that goes on are of those whom its adapter
\* asks, in the order it asks them, and a task that ended has what the report can take, of the
\* right account (Collector::collect).
THEOREM Inductive == Spec => []IInv
BY InitIInv, NextKeeps, PTL DEF Spec

----------------------------------------------------------------------------
(* The theorems.                                                            *)

\* Whatever the providers, the vault and the programs of this machine answer,
\* an ended task has an error that the report knows or the usage of an account
\* (Collector::collect, ManagedProvider and every adapter's fetch).
THEOREM Typed == Spec => []TypeOK
<1>1. IInv => TypeOK
  <2> SUFFICES ASSUME IInv PROVE TypeOK
    OBVIOUS
  <2>1. odd \in 0..MaxOdd(world) /\ faults \in 0..MaxTrouble(world)
    <3>1. MaxOdd(world) \in Nat /\ MaxTrouble(world) \in Nat
      BY WorldsAreWorlds DEF IInv
    <3> QED BY <3>1 DEF IInv, Bounded
  <2>2. ASSUME NEW t \in DOMAIN plan, ~Working(t)
        PROVE  Reportable(tasks[t].result)
    BY <2>2 DEF IInv, TaskOK, Working
  <2>3. \A t \in DOMAIN plan : tasks[t].attempt \in 0..2
    BY DEF IInv, TaskOK
  <2> QED BY <2>1, <2>2, <2>3 DEF IInv, TypeOK, Reportable
<1> QED BY <1>1, Inductive, PTL

\* Whatever is answered, and whoever logs in meanwhile, the windows of a usage are of one account:
\* that of the entry, that of the login its reference was first resolved to, or that of the key of
\* the environment where there is one and it is used (ManagedProvider::read, verify_current, and
\* the fetch of every adapter).  Of the login of this machine a window may be of another only where
\* Codex is told of both in the same way, or the login was back when it was looked at again.
THEOREM UsagesAttributed == Spec => []Attributed
<1>1. IInv => Attributed
  <2> SUFFICES ASSUME IInv, NEW t \in DOMAIN plan, ~Working(t), Succeeded(t)
               PROVE  LET kind == plan[t].kind
                          codex == kind = "local" /\ world.provider = "codex"
                          compared == codex \/ (kind = "local" /\ world.provider = "antigravity" /\ ~world.keyed)
                          other == "url" \in DOMAIN tasks[t].first /\ tasks[t].first.url.says = "other"
                      IN  /\ \A w \in tasks[t].result.shows :
                               \/ w.of = Account(t)
                               \/ codex /\ (w.lane = "extra" \/ w.of \in Looks(Account(t)))
                               \/ compared /\ CameBetween(w.of, Account(t))
                          /\ kind \in {"key", "owned"} => Account(t) = plan[t].account
                          /\ kind = "borrowed" => Account(t) = tasks[t].first.resolve.of
                          /\ (kind = "local" /\ world.keyed /\ world.provider # "codex" /\ ~other) =>
                               Account(t) = Mine
    BY DEF Attributed
  <2>1. Rightly(world, logins, plan[t], tasks[t], tasks[t].result)
    BY DEF IInv, TaskOK, Working, Succeeded
  <2>2. /\ Looks(Account(t)) = Seem(world, Account(t))
        /\ \A of : Between(logins, world, of, Account(t)) <=> CameBetween(of, Account(t))
    BY LooksSeem DEF Between, CameBetween
  <2> QED BY <2>1, <2>2 DEF Rightly, Excused, Elsewhere, Account
<1> QED BY <1>1, Inductive, PTL

\* However a collection is answered, retried, cancelled or timed out, no task of it
\* sends the refresh token of its account twice (Collector::collect, idempotent).
THEOREM TokensSpentOnce == Spec => []SpentOnce
<1>1. IInv => SpentOnce
  BY DEF IInv, TaskOK, SpentOnce
<1> QED BY <1>1, Inductive, PTL

\* No usage of a saved account is dropped.
LEMMA SavedUsagesKept ==
  \A s \in SavedUsages : s \in DOMAIN plan /\ Succeeded(s) /\ s \in Kept
BY DEF SavedUsages, OfVault, Kept

\* Reconciling drops a local usage only for one that is kept: of the same account,
\* and of Amp with the same figures (reconcile_accounts).
THEOREM AccountsKept == Spec => []NothingLost
<1>1. IInv => NothingLost
  <2> SUFFICES ASSUME IInv, NEW t \in DOMAIN plan, Succeeded(t)
               PROVE  \E s \in Kept : /\ Account(s) = Account(t)
                                      /\ world.provider = "amp" => Shown(s) = Shown(t)
    BY DEF NothingLost
  <2>1. CASE t \in Kept
    BY <2>1
  <2>2. CASE t \notin Kept
    <3>1. plan[t].kind = "local" /\ Duplicate(t)
      BY <2>2 DEF Kept
    <3>2. world.provider # "amp" \/ world.provider \notin CatalogKeys \cup KeyApis \cup {"codex"}
      BY DEF CatalogKeys, KeyApis
    <3>3. world.provider # "codex" \/ world.provider \notin CatalogKeys \cup KeyApis \cup {"amp"}
      BY DEF CatalogKeys, KeyApis
    <3>4. CASE world.provider \in CatalogKeys \cup KeyApis
      <4>1. PICK s \in SavedUsages : Account(s) = Account(t)
        BY <3>1, <3>2, <3>3, <3>4 DEF Duplicate
      <4>2. world.provider # "amp"
        BY <3>2, <3>4
      <4> QED BY <4>1, <4>2, SavedUsagesKept
    <3>5. CASE world.provider = "amp"
      BY <3>1, <3>2, <3>5, SavedUsagesKept DEF Duplicate
    <3>6. CASE world.provider = "codex"
      <4> DEFINE mail == {s \in SavedUsages : SameMail(t, s)}
      <4>1. Personal(t) /\ Cardinality(mail) = 1 /\ \A s \in mail : Personal(s)
        BY <3>1, <3>3, <3>6 DEF Duplicate
      <4>2. PICK s \in mail : TRUE
        BY <4>1, FS_EmptySet
      <4>3. Account(s) = Account(t)
        <5>1. world.oneMail => \A a, b \in world.personal : a = b
          BY WorldsAreWorlds DEF IInv
        <5> QED BY <4>1, <4>2, <5>1 DEF SameMail, Personal
      <4> QED BY <3>6, <4>2, <4>3, SavedUsagesKept
    <3> QED BY <3>1, <3>4, <3>5, <3>6 DEF Duplicate
  <2> QED BY <2>1, <2>2
<1> QED BY <1>1, Inductive, PTL

----------------------------------------------------------------------------
(* What a window says: whatever is shown of a quota has been told.           *)

\* Wires that carry numbers, or what stands for none, and those of the replies so far.
Numbered(wire) == \A l \in DOMAIN wire : wire[l] \in [Fields -> Nat \cup {Absent, Bad}]
Recalled(W, reply) == reply.wire \in W /\ Numbered(reply.wire)
Hearing(W, r) == \A s \in DOMAIN r : r[s].error = None => Recalled(W, r[s])

\* What some wires bear out: of a quota that it is so, of a rest that there is one or none.
Borne(W, l, quota) ==
  /\ quota = Whole => NothingLeft(W, l)
  /\ quota \in 0..Whole - 1 => SomethingLeft(W, l)
Bears(W, l, rest) ==
  rest = Absent \/ /\ rest \in Nat
                   /\ rest = 0 => NothingLeft(W, l)
                   /\ rest > 0 => SomethingLeft(W, l)

\* What is left of a limit is borne out, when the limit is one.
Leaves(W, l, limit, rest) == limit \in Nat \cup {Absent} /\ (limit # 0 => Bears(W, l, rest))

LEMMA MarksApart ==
  /\ Absent \notin Int /\ Bad \notin Int /\ Absent # Bad
  /\ \A mark \in {Unknown, Unlimited, Capped, Off} : mark \notin Int
BY MarksAssumption

\* The fields of a lane are heard, of the lane and of what is put together from it.
LEMMA WiresTell ==
  ASSUME NEW W, NEW reply, Recalled(W, reply), NEW shown, NEW l \in Behind(shown), NEW f \in Fields
  PROVE  /\ Wire(reply, l)[f] \in Nat \cup {Absent, Bad}
         /\ Wire(reply, l)[f] \in Nat /\ ~Placeholder(Wire(reply, l), shown, f)
              => Wire(reply, l)[f] \in Heard(W, shown, f)
         /\ Wire(reply, l)[f] \in Nat /\ f \in {"used", "limit", "spent"}
              => Wire(reply, l)[f] \in Heard(W, shown, f)
<1>a. f \in {"used", "limit", "spent"} => ~Placeholder(Wire(reply, l), shown, f)
  BY DEF Placeholder
<1>1. CASE l \in DOMAIN reply.wire
  <2>1. Wire(reply, l) = reply.wire[l]
    BY <1>1 DEF Wire
  <2>2. Wire(reply, l)[f] \in Nat \cup {Absent, Bad}
    BY <1>1, <2>1 DEF Recalled, Numbered
  <2>3. ASSUME Wire(reply, l)[f] \in Nat, ~Placeholder(Wire(reply, l), shown, f)
        PROVE  Wire(reply, l)[f] \in Heard(W, shown, f)
    <3> DEFINE of(wire) == {wire[k] : k \in Behind(shown) \cap DOMAIN wire}
    <3>1. reply.wire[l] \in of(reply.wire)
      BY <1>1
    <3>2. reply.wire \in W
      BY DEF Recalled
    <3>a. Rows(W, shown) = UNION {of(wire) : wire \in W}
      BY DEF Rows
    <3> HIDE DEF of
    <3>3. reply.wire[l] \in Rows(W, shown)
      BY <3>1, <3>2, <3>a
    <3>4. reply.wire[l][f] \notin {Absent, Bad}
      BY <2>1, <2>3, MarksApart
    <3> QED BY <2>1, <2>3, <3>3, <3>4 DEF Heard
  <2> QED BY <1>a, <2>2, <2>3
<1>2. CASE l \notin DOMAIN reply.wire
  <2>1. Wire(reply, l)[f] = Absent
    BY <1>2 DEF Wire
  <2> QED BY <2>1, MarksApart
<1> QED BY <1>1, <1>2

LEMMA HeardBears ==
  ASSUME NEW W, NEW l
  PROVE  /\ Bears(W, l, Absent)
         /\ \A n \in Nat : n \in Heard(W, l, "left") \cup Heard(W, l, "over") => Bears(W, l, n)
         /\ \A n \in Nat : n \in Heard(W, l, "spent") => Bears(W, l, Less(Whole, n))
         /\ \A n, m \in Nat : n \in Heard(W, l, "used") /\ m \in Heard(W, l, "limit") /\ m > 0
                             => Bears(W, l, Less(m, n))
<1>1. Bears(W, l, Absent)
  BY DEF Bears
<1>2. \A n \in Nat : n \in Heard(W, l, "left") \cup Heard(W, l, "over") => Bears(W, l, n)
  BY DEF Bears, NothingLeft, SomethingLeft
<1>3. \A n, m \in Nat : /\ Less(m, n) \in Nat
                        /\ Less(m, n) = 0 <=> n >= m
                        /\ Less(m, n) > 0 <=> n < m
  BY MarksApart DEF Less, Atleast0
<1>4. \A n \in Nat : n \in Heard(W, l, "spent") => Bears(W, l, Less(Whole, n))
  <2>1. Whole \in Nat
    BY DEF Whole
  <2> QED BY <1>3, <2>1 DEF Bears, NothingLeft, SomethingLeft
<1>5. \A n, m \in Nat : n \in Heard(W, l, "used") /\ m \in Heard(W, l, "limit") /\ m > 0
                             => Bears(W, l, Less(m, n))
  BY <1>3 DEF Bears, NothingLeft, SomethingLeft
<1> QED BY <1>1, <1>2, <1>4, <1>5

\* Of a lane what is left, what is left over, what is spent of the whole and what is used of
\* the limit bear out a rest, when they are sound.
LEMMA LaneBears ==
  ASSUME NEW W, NEW reply, Recalled(W, reply), NEW shown, NEW l \in Behind(shown)
  PROVE  LET w == Wire(reply, l)
         IN  /\ \A f \in Fields : w[f] \in Nat \cup {Absent, Bad}
             /\ w.left # Bad /\ w.limit # 0 => Bears(W, shown, w.left)
             /\ w.over # Bad /\ (w.limit # 0 \/ shown \notin Entitled) => Bears(W, shown, w.over)
             /\ w.spent # Bad => Bears(W, shown, Less(Whole, w.spent))
             /\ w.used # Bad /\ w.limit \notin {Bad, 0} => Bears(W, shown, Less(w.limit, w.used))
<1> DEFINE w == Wire(reply, l)
<1>1. \A f \in Fields : /\ w[f] \in Nat \cup {Absent, Bad}
                        /\ w[f] \in Nat /\ ~Placeholder(w, shown, f) => w[f] \in Heard(W, shown, f)
                        /\ w[f] \in Nat /\ f \in {"used", "limit", "spent"} => w[f] \in Heard(W, shown, f)
  BY WiresTell
<1>2. {"left", "over", "spent", "used", "limit"} \subseteq Fields
  BY DEF Fields
<1> HIDE DEF w
<1>3. w.left # Bad /\ w.limit # 0 => Bears(W, shown, w.left)
  BY <1>1, <1>2, HeardBears DEF Placeholder
<1>4. w.over # Bad /\ (w.limit # 0 \/ shown \notin Entitled) => Bears(W, shown, w.over)
  BY <1>1, <1>2, HeardBears DEF Placeholder
<1>5. w.spent # Bad => Bears(W, shown, Less(Whole, w.spent))
  <2>1. Less(Whole, Absent) = Absent
    BY DEF Less
  <2> QED BY <1>1, <1>2, <2>1, HeardBears
<1>6. w.used # Bad /\ w.limit \notin {Bad, 0} => Bears(W, shown, Less(w.limit, w.used))
  <2>1. \A n : Less(n, Absent) = Absent /\ Less(Absent, n) = Absent
    BY DEF Less
  <2> QED BY <1>1, <1>2, <2>1, HeardBears
<1> QED BY <1>1, <1>3, <1>4, <1>5, <1>6 DEF w

LEMMA BehindItself == \A l : l \in Behind(l)
<1>1. DOMAIN MadeOf = {"limit", "unnamed", "team1", "team2"}
  BY DEF MadeOf
<1>2. \A l \in DOMAIN MadeOf : l \in MadeOf[l]
  BY DEF MadeOf
<1> QED BY <1>1, <1>2 DEF Behind

\* What there is to say of a lane of a reply, shown as it is.
LaneTells(W, reply, l) ==
  LET w == Wire(reply, l)
  IN  /\ {w.used, w.limit, w.left, w.spent, w.over} \subseteq Nat \cup {Absent, Bad}
      /\ Sound(w) => Bad \notin {w.used, w.limit, w.left, w.spent, w.over}
      /\ w.left # Bad /\ w.limit # 0 => Bears(W, l, w.left)
      /\ w.over # Bad /\ (w.limit # 0 \/ l \notin Entitled) => Bears(W, l, w.over)
      /\ w.spent # Bad => Bears(W, l, Less(Whole, w.spent))
      /\ w.used # Bad /\ w.limit \notin {Bad, 0} => Bears(W, l, Less(w.limit, w.used))
      /\ Bears(W, l, Absent)

LEMMA LanesTell ==
  ASSUME NEW W, NEW reply, Recalled(W, reply)
  PROVE  \A l : LaneTells(W, reply, l)
<1> SUFFICES ASSUME NEW l PROVE LaneTells(W, reply, l)
  OBVIOUS
<1> DEFINE w == Wire(reply, l)
<1>1. {"left", "over", "spent", "used", "limit"} \subseteq Fields
  BY DEF Fields
<1>2. /\ \A f \in Fields : w[f] \in Nat \cup {Absent, Bad}
      /\ w.left # Bad /\ w.limit # 0 => Bears(W, l, w.left)
      /\ w.over # Bad /\ (w.limit # 0 \/ l \notin Entitled) => Bears(W, l, w.over)
      /\ w.spent # Bad => Bears(W, l, Less(Whole, w.spent))
      /\ w.used # Bad /\ w.limit \notin {Bad, 0} => Bears(W, l, Less(w.limit, w.used))
  BY LaneBears, BehindItself
<1>3. Bears(W, l, Absent)
  BY HeardBears
<1> HIDE DEF w
<1>4. /\ {w.used, w.limit, w.left, w.spent, w.over} \subseteq Nat \cup {Absent, Bad}
      /\ Sound(w) => Bad \notin {w.used, w.limit, w.left, w.spent, w.over}
  BY <1>1, <1>2 DEF Sound
<1> QED BY <1>2, <1>3, <1>4 DEF LaneTells, w

\* A share of a positive limit is nothing when there is nothing.
LEMMA SharesLeft ==
  ASSUME NEW left \in Nat, NEW limit \in Nat, limit > 0
  PROVE  /\ ShareLeft(left, limit) \in Int
         /\ left = 0 => ShareLeft(left, limit) = 0
         /\ left > 0 => ShareLeft(left, limit) > 0
<1>1. ShareLeft(left, limit) \in Int
  BY DEF ShareLeft, Whole
<1>2. left = 0 => ShareLeft(left, limit) = 0
  BY DEF ShareLeft, Whole
<1>3. left > 0 => ShareLeft(left, limit) > 0
  BY DEF ShareLeft, Whole
<1> QED BY <1>1, <1>2, <1>3

\* What a quota is made of bears it out.
LEMMA QuotasBorne ==
  ASSUME NEW W, NEW l
  PROVE  /\ \A mark \in {Unknown, Unlimited, Capped, Off} : Borne(W, l, mark)
         /\ \A spent : Bears(W, l, Less(Whole, spent)) /\ spent \in Nat \cup {Absent} => Borne(W, l, FromUsed(spent))
         /\ \A over : Bears(W, l, over) => Borne(W, l, FromLeft(over))
         /\ \A limit, rest : Leaves(W, l, limit, rest) => Borne(W, l, QuotaOf(limit, rest))
         /\ \A rest : Borne(W, l, QuotaOf(Absent, rest))
<1>1. \A mark \in {Unknown, Unlimited, Capped, Off} : Borne(W, l, mark)
  BY MarksApart DEF Borne, Whole
<1>2. \A share \in Int : FromLeft(share) = IF share <= 0 THEN Whole ELSE IF share > Whole THEN 0 ELSE Whole - share
  BY MarksApart DEF FromLeft, FromUsed, Atleast0, Whole
<1>3. FromUsed(Absent) = Unknown /\ FromLeft(Absent) = Unknown
  BY DEF FromLeft, FromUsed
<1>4. ASSUME NEW spent \in Nat, Bears(W, l, Less(Whole, spent))
      PROVE  Borne(W, l, FromUsed(spent))
  <2>1. Less(Whole, spent) = (IF spent > Whole THEN 0 ELSE Whole - spent) /\ Less(Whole, spent) # Absent
    BY MarksApart DEF Less, Atleast0, Whole
  <2>2. FromUsed(spent) = IF spent > Whole THEN Whole ELSE spent
    BY MarksApart DEF FromUsed, Atleast0, Whole
  <2> QED BY <1>4, <2>1, <2>2 DEF Borne, Bears, Whole
<1>5. ASSUME NEW over \in Nat, Bears(W, l, over)
      PROVE  Borne(W, l, FromLeft(over))
  <2>1. over # Absent
    BY MarksApart
  <2> QED BY <1>2, <1>5, <2>1 DEF Borne, Bears, Whole
<1>6. ASSUME NEW limit \in Nat, NEW rest \in Nat, Bears(W, l, rest), limit > 0
      PROVE  Borne(W, l, QuotaOf(limit, rest))
  <2>1. rest # Absent /\ limit # Absent
    BY MarksApart
  <2>2. QuotaOf(limit, rest) = FromLeft(ShareLeft(rest, limit))
    BY <1>6, <2>1 DEF QuotaOf
  <2>3. /\ ShareLeft(rest, limit) \in Int
        /\ rest = 0 => ShareLeft(rest, limit) = 0
        /\ rest > 0 => ShareLeft(rest, limit) > 0
    BY <1>6, SharesLeft
  <2> QED BY <1>2, <1>6, <2>1, <2>2, <2>3 DEF Borne, Bears, Whole
<1>7. \A limit, rest : limit = Absent \/ rest = Absent \/ ~(limit > 0) => QuotaOf(limit, rest) = Unknown
  BY DEF QuotaOf
<1>8. \A rest : Borne(W, l, QuotaOf(Absent, rest))
  BY <1>1, <1>7
<1>9. \A limit, rest : Leaves(W, l, limit, rest) => Borne(W, l, QuotaOf(limit, rest))
  BY <1>1, <1>6, <1>7 DEF Leaves, Bears
<1>10. \A spent : Bears(W, l, Less(Whole, spent)) /\ spent \in Nat \cup {Absent} => Borne(W, l, FromUsed(spent))
  BY <1>1, <1>3, <1>4
<1>11. \A over : Bears(W, l, over) => Borne(W, l, FromLeft(over))
  BY <1>1, <1>3, <1>5 DEF Bears
<1> QED BY <1>1, <1>8, <1>9, <1>10, <1>11

\* A window says nothing of its quota but what some wires bear out.
Backed(W, w) == Borne(W, w.lane, w.quota)

Backs(W, o) ==
  /\ {"asks", "error", "shows", "account", "told"} \subseteq DOMAIN o
  /\ o.error # None => o.shows = {}
  /\ \A w \in o.shows : Backed(W, w)

LEMMA OutcomesBack ==
  ASSUME NEW W
  PROVE  /\ Backs(W, Nothing)
         /\ \A e : Backs(W, Fails(e))
         /\ \A q : Backs(W, Asks(q))
         /\ \A w : Backed(W, w) => Backs(W, Shows(w))
         /\ \A a : Backs(W, Having(a))
         /\ \A d, e : Backs(W, Notes(d, e))
<1>1. Backs(W, Nothing)
  BY SimpleOutcomes DEF Backs, IsOutcome
<1>2. \A e : Backs(W, Fails(e))
  BY SimpleOutcomes DEF Backs, IsOutcome
<1>3. \A q : Backs(W, Asks(q))
  BY SimpleOutcomes DEF Backs, IsOutcome
<1>4. \A w : Backed(W, w) => Backs(W, Shows(w))
  BY SimpleOutcomes DEF Backs, IsOutcome
<1>5. \A a : Backs(W, Having(a))
  BY SimpleOutcomes DEF Backs, IsOutcome
<1>6. \A d, e : Backs(W, Notes(d, e))
  BY SimpleOutcomes DEF Backs, IsOutcome
<1> QED BY <1>1, <1>2, <1>3, <1>4, <1>5, <1>6

LEMMA WaysBack ==
  ASSUME NEW W
  PROVE  /\ \A o, p : Backs(W, o) /\ Backs(W, p) => Backs(W, o ++ p) /\ Backs(W, Join(o, p))
         /\ \A o : Backs(W, o) => Backs(W, Optional(o))
         /\ \A o, d : Backs(W, o) => Backs(W, Noted(o, d))
         /\ \A o, errors, p : Backs(W, o) /\ Backs(W, p) => Backs(W, Instead(o, errors, p))
         /\ \A o, e : Backs(W, o) => Backs(W, OrElse(o, e))
         /\ \A condition, e, o : (condition => Backs(W, o)) => Backs(W, Require(condition, e, o))
         /\ \A condition, o : (condition => Backs(W, o)) => Backs(W, Valid(condition, o))
         /\ \A condition, o : (condition => Backs(W, o)) => Backs(W, When(condition, o))
         /\ \A of, o : Backs(W, o) => Backs(W, Owned(of, o))
         /\ \A of, o : Backs(W, o) => Backs(W, Usage(of, o))
         /\ \A o, p : Backs(W, o) /\ Backs(W, p) => Backs(W, Using(o, p))
<1>1. \A o, p : Backs(W, o) /\ Backs(W, p) => Backs(W, o ++ p) /\ Backs(W, Join(o, p))
  <2> SUFFICES ASSUME NEW o, NEW p, Backs(W, o), Backs(W, p)
               PROVE  Backs(W, o ++ p) /\ Backs(W, Join(o, p))
    OBVIOUS
  <2> DEFINE both == [Nothing EXCEPT !.shows = o.shows \cup p.shows, !.told = o.told \cup p.told]
  <2>1. IsOutcome(both, {}, None, o.shows \cup p.shows, o.told \cup p.told, None)
    BY SimpleOutcomes
  <2> HIDE DEF both
  <2>2. Backs(W, both)
    BY <2>1 DEF IsOutcome, Backs
  <2>3. Backs(W, o ++ p)
    BY <2>2 DEF ++, both
  <2> QED BY <2>3 DEF Join
<1>2. /\ \A condition, e, o : (condition => Backs(W, o)) => Backs(W, Require(condition, e, o))
      /\ \A condition, o : (condition => Backs(W, o)) => Backs(W, Valid(condition, o))
      /\ \A condition, o : (condition => Backs(W, o)) => Backs(W, When(condition, o))
  BY OutcomesBack DEF Require, Valid, When
<1>3. /\ \A o : Backs(W, o) => Backs(W, Optional(o))
      /\ \A o, d : Backs(W, o) => Backs(W, Noted(o, d))
  BY OutcomesBack DEF Optional, Noted
<1>4. /\ \A o, errors, p : Backs(W, o) /\ Backs(W, p) => Backs(W, Instead(o, errors, p))
      /\ \A o, e : Backs(W, o) => Backs(W, OrElse(o, e))
      /\ \A o, p : Backs(W, o) /\ Backs(W, p) => Backs(W, Using(o, p))
  BY OutcomesBack DEF Instead, OrElse, Using
<1>5. \A of, o : Backs(W, o) => Backs(W, Owned(of, o))
  <2> SUFFICES ASSUME NEW of, NEW o, Backs(W, o) PROVE Backs(W, Owned(of, o))
    OBVIOUS
  <2> DEFINE owned == [o EXCEPT !.account = of]
  <2>1. DOMAIN owned = DOMAIN o /\ owned.shows = o.shows /\ owned.error = o.error
    BY DEF Backs
  <2> HIDE DEF owned
  <2>2. Backs(W, owned)
    BY <2>1 DEF Backs
  <2> QED BY <2>2 DEF Owned, owned
<1>6. \A of, o : Backs(W, o) => Backs(W, Usage(of, o))
  BY <1>2, <1>5 DEF Usage
<1> QED BY <1>1, <1>2, <1>3, <1>4, <1>5, <1>6

\* What is shown of an answer is shown once it is there.
LEMMA StepsBack ==
  ASSUME NEW W, NEW r
  PROVE  /\ \A q, o : (Has(r, q.step) => Backs(W, o)) => Backs(W, Step(r, q, o))
         /\ \A s, of, lanes, says, o : (Has(r, s) => Backs(W, o)) => Backs(W, Request(r, s, of, lanes, says, o))
         /\ \A s, of, lanes, says, fails, o :
              (Has(r, s) => Backs(W, o)) => Backs(W, Step(r, Question(s, of, lanes, says, fails), o))
         /\ \A s, o : Backs(W, o) => Backs(W, Key(r, s, o))
         /\ \A s, says, o : Backs(W, o) => Backs(W, Setting(r, s, says, o))
         /\ \A s, says, o : (Has(r, s) => Backs(W, o)) => Backs(W, Run(r, s, says, o))
         /\ \A s, fails, o : Backs(W, o) => Backs(W, Native(r, s, fails, o))
         /\ \A s, lanes, o : (Has(r, s) => Backs(W, o)) => Backs(W, Get(r, s, lanes, o))
         /\ \A s, lanes, says, o : (Has(r, s) => Backs(W, o)) => Backs(W, GetCase(r, s, lanes, says, o))
         /\ \A o : Backs(W, o) => Backs(W, Keyed(r, o))
         /\ \A of, o : Backs(W, o) => Backs(W, KeyUsage(of, o))
         /\ \A regions, o : Backs(W, o) => Backs(W, KeyApi(r, regions, o))
<1>1. \A q, o : (Has(r, q.step) => Backs(W, o)) => Backs(W, Step(r, q, o))
  BY OutcomesBack DEF Step, Has
<1>2. \A s, of, lanes, says, fails, o :
        (Has(r, s) => Backs(W, o)) => Backs(W, Step(r, Question(s, of, lanes, says, fails), o))
  BY <1>1, QuestionFields
<1>3. \A s, of, lanes, says, o : (Has(r, s) => Backs(W, o)) => Backs(W, Request(r, s, of, lanes, says, o))
  BY <1>2 DEF Request
<1>4. \A s, o : Backs(W, o) => Backs(W, Key(r, s, o))
  <2> SUFFICES ASSUME NEW s, NEW o, Backs(W, o) PROVE Backs(W, Key(r, s, o))
    OBVIOUS
  <2>1. Backs(W, Require(r[s].says = "ok", "Authentication", o))
    BY WaysBack
  <2> QED BY <1>2, <2>1 DEF Key
<1>5. \A s, says, o : Backs(W, o) => Backs(W, Setting(r, s, says, o))
  BY <1>2 DEF Setting
<1>6. \A s, says, o : (Has(r, s) => Backs(W, o)) => Backs(W, Run(r, s, says, o))
  BY <1>2 DEF Run
<1>7. \A s, fails, o : Backs(W, o) => Backs(W, Native(r, s, fails, o))
  <2> SUFFICES ASSUME NEW s, NEW fails, NEW o, Backs(W, o) PROVE Backs(W, Native(r, s, fails, o))
    OBVIOUS
  <2>1. Backs(W, Require(r[s].says = "ok", "Authentication", o))
    BY WaysBack
  <2> QED BY <1>2, <2>1 DEF Native
<1>8. /\ \A s, lanes, o : (Has(r, s) => Backs(W, o)) => Backs(W, Get(r, s, lanes, o))
      /\ \A s, lanes, says, o : (Has(r, s) => Backs(W, o)) => Backs(W, GetCase(r, s, lanes, says, o))
  BY <1>3 DEF Get, GetCase
<1>9. \A o : Backs(W, o) => Backs(W, Keyed(r, o))
  BY <1>4, WaysBack DEF Keyed
<1>10. \A of, o : Backs(W, o) => Backs(W, KeyUsage(of, o))
  BY WaysBack DEF KeyUsage
<1>11. \A regions, o : Backs(W, o) => Backs(W, KeyApi(r, regions, o))
  <2> SUFFICES ASSUME NEW regions, NEW o, Backs(W, o) PROVE Backs(W, KeyApi(r, regions, o))
    OBVIOUS
  <2>1. Backs(W, Valid(r.region.says = "ok", Key(r, "key", o)))
    BY <1>4, WaysBack
  <2> QED BY <1>5, <2>1 DEF KeyApi
<1>a. /\ \A s, of, lanes, says, o : (Has(r, s) => Backs(W, o)) => Backs(W, Request(r, s, of, lanes, says, o))
      /\ \A s, o : Backs(W, o) => Backs(W, Key(r, s, o))
      /\ \A s, says, o : Backs(W, o) => Backs(W, Setting(r, s, says, o))
  BY <1>3, <1>4, <1>5
<1>b. /\ \A s, says, o : (Has(r, s) => Backs(W, o)) => Backs(W, Run(r, s, says, o))
      /\ \A s, fails, o : Backs(W, o) => Backs(W, Native(r, s, fails, o))
  BY <1>6, <1>7
<1> QED BY <1>1, <1>2, <1>8, <1>9, <1>10, <1>11, <1>a, <1>b


\* A window over numbers is borne out when what is left by them is, or when it has no limit;
\* one of a given quota when that is.
LEMMA WindowsBack ==
  ASSUME NEW W, NEW reply, NEW l
  PROVE  /\ \A used, left : /\ Backed(W, Measured(reply, l, used, Absent, left))
                            /\ Backs(W, Window(reply, l, used, Absent, left))
         /\ \A used, limit, left :
              Leaves(W, l, limit, left) /\ (left = Absent => Leaves(W, l, limit, Less(limit, used)))
              => /\ Backed(W, Measured(reply, l, used, limit, left))
                 /\ Backs(W, Window(reply, l, used, limit, left))
         /\ \A used, limit, left, quota :
              Borne(W, l, quota) => Backed(W, [Measured(reply, l, used, limit, left) EXCEPT !.quota = quota])
         /\ \A limit, quota : Borne(W, l, quota) => Backs(W, Percent(reply, l, quota, limit))
<1>1. \A used, limit, left :
        LET w == Measured(reply, l, used, limit, left)
        IN  /\ w.lane = l /\ w.quota = QuotaOf(limit, Or(left, Less(limit, used)))
            /\ \A quota : [w EXCEPT !.quota = quota].lane = l /\ [w EXCEPT !.quota = quota].quota = quota
  BY DEF Measured
<1>a. \A rest : Borne(W, l, QuotaOf(Absent, rest))
  BY QuotasBorne
<1>2. \A used, left : Backed(W, Measured(reply, l, used, Absent, left))
  BY <1>1, <1>a DEF Backed
<1>3. \A used, limit, left :
        Leaves(W, l, limit, left) /\ (left = Absent => Leaves(W, l, limit, Less(limit, used)))
        => Backed(W, Measured(reply, l, used, limit, left))
  <2> SUFFICES ASSUME NEW used, NEW limit, NEW left, Leaves(W, l, limit, left),
                      left = Absent => Leaves(W, l, limit, Less(limit, used))
               PROVE  Backed(W, Measured(reply, l, used, limit, left))
    OBVIOUS
  <2> DEFINE rest == Or(left, Less(limit, used))
             w == Measured(reply, l, used, limit, left)
  <2>1. w.lane = l /\ w.quota = QuotaOf(limit, rest)
    BY <1>1
  <2>2. Leaves(W, l, limit, rest)
    BY DEF Or
  <2> HIDE DEF w, rest
  <2>3. Borne(W, l, QuotaOf(limit, rest))
    BY <2>2, QuotasBorne
  <2>4. Backed(W, w)
    BY <2>1, <2>3 DEF Backed
  <2> QED BY <2>4 DEF w
<1>4. \A used, limit, left, quota :
        Borne(W, l, quota) => Backed(W, [Measured(reply, l, used, limit, left) EXCEPT !.quota = quota])
  <2> SUFFICES ASSUME NEW used, NEW limit, NEW left, NEW quota, Borne(W, l, quota)
               PROVE  Backed(W, [Measured(reply, l, used, limit, left) EXCEPT !.quota = quota])
    OBVIOUS
  <2> DEFINE v == [Measured(reply, l, used, limit, left) EXCEPT !.quota = quota]
  <2>1. v.lane = l /\ v.quota = quota
    BY <1>1
  <2> HIDE DEF v
  <2>2. Backed(W, v)
    BY <2>1 DEF Backed
  <2> QED BY <2>2 DEF v
<1>5. \A used, limit, left : Backed(W, Measured(reply, l, used, limit, left)) => Backs(W, Window(reply, l, used, limit, left))
  BY OutcomesBack, WaysBack DEF Window
<1>6. \A limit, quota : Borne(W, l, quota) => Backs(W, Percent(reply, l, quota, limit))
  BY <1>4, OutcomesBack DEF Percent
<1> QED BY <1>2, <1>3, <1>4, <1>5, <1>6

LEMMA GuardsBack ==
  ASSUME NEW W, NEW reply, NEW l, NEW o
  PROVE  /\ (~Empty(Wire(reply, l)) => Backs(W, o)) => Backs(W, MayHave(reply, l, o))
         /\ \A fields : ((\A f \in fields : Given(Wire(reply, l)[f])) => Backs(W, o)) => Backs(W, Needs(reply, l, fields, o))
BY WaysBack DEF MayHave, Needs

\* The lanes that are shown as they are.
LEMMA LanesBack ==
  ASSUME NEW W, NEW reply, Recalled(W, reply)
  PROVE  /\ \A l : /\ Backs(W, Plain(reply, l)) /\ Backs(W, May(reply, l)) /\ Backs(W, Amounts(reply, l))
                   /\ Backs(W, OfHundred(reply, l)) /\ Backs(W, Spent(reply, l))
         /\ \A l, fields : Backs(W, Must(reply, l, fields))
         /\ \A l, m : {l, m} \cap Entitled = {}
                        => Backs(W, LowestGroup(reply, {l, m})) /\ Backs(W, LowestGroup(reply, {l}))
<1>3. \A l : Backs(W, Plain(reply, l))
  <2> SUFFICES ASSUME NEW l PROVE Backs(W, Plain(reply, l))
    OBVIOUS
  <2> DEFINE w == Wire(reply, l)
             shown == Window(reply, l, w.used, w.limit, w.left)
  <2>1. Sound(w) => Leaves(W, l, w.limit, w.left) /\ Leaves(W, l, w.limit, Less(w.limit, w.used))
    BY LanesTell DEF LaneTells, Leaves
  <2>2. Plain(reply, l) = Valid(Sound(w), shown)
    BY DEF Plain
  <2> HIDE DEF w
  <2>3. Sound(w) => Backs(W, shown)
    BY <2>1, WindowsBack
  <2> HIDE DEF shown
  <2> QED BY <2>2, <2>3, WaysBack
<1>4. \A l : Backs(W, May(reply, l)) /\ Backs(W, Amounts(reply, l))
  BY <1>3, WaysBack DEF May, MayHave, Amounts
<1>5. \A l, fields : Backs(W, Must(reply, l, fields))
  BY <1>3, WaysBack DEF Must, Needs
<1>6. \A l : Backs(W, OfHundred(reply, l))
  <2> SUFFICES ASSUME NEW l PROVE Backs(W, OfHundred(reply, l))
    OBVIOUS
  <2> DEFINE w == Wire(reply, l)
             shown == Window(reply, l, w.spent, Whole, Absent)
  <2>1. w.spent # Bad => Bears(W, l, Less(Whole, w.spent))
    BY LanesTell DEF LaneTells
  <2>2. OfHundred(reply, l) = Needs(reply, l, {"spent"}, Valid(w.spent <= Whole, shown))
    BY DEF OfHundred
  <2>3. w.spent # Bad => Backs(W, shown)
    <3>1. Whole \in Nat /\ Bears(W, l, Absent)
      BY HeardBears DEF Whole
    <3> HIDE DEF w
    <3> QED BY <2>1, <3>1, WindowsBack DEF Leaves
  <2> HIDE DEF shown
  <2>4. Given(w.spent) => Backs(W, Valid(w.spent <= Whole, shown))
    BY <2>3, WaysBack DEF Given
  <2> QED BY <2>2, <2>4, GuardsBack
<1>7. \A l : Backs(W, Spent(reply, l))
  <2> SUFFICES ASSUME NEW l PROVE Backs(W, Spent(reply, l))
    OBVIOUS
  <2> DEFINE w == Wire(reply, l)
             shown == Percent(reply, l, FromUsed(w.spent), Absent)
             few == Sound(w) /\ (w.spent # Absent => w.spent <= Whole)
  <2>1. w.spent # Bad => Bears(W, l, Less(Whole, w.spent)) /\ w.spent \in Nat \cup {Absent}
    BY LanesTell DEF LaneTells
  <2>2. Spent(reply, l) = Valid(few, shown)
    BY DEF Spent
  <2>3. few => w.spent # Bad
    BY LanesTell DEF LaneTells
  <2>4. w.spent # Bad => Backs(W, shown)
    <3> HIDE DEF w
    <3> QED BY <2>1, WindowsBack, QuotasBorne
  <2> HIDE DEF shown, few
  <2> QED BY <2>2, <2>3, <2>4, WaysBack
<1>8. \A groups, l, m : groups \subseteq {l, m} /\ {l, m} \cap Entitled = {}
                         => Backs(W, LowestGroup(reply, groups))
  <2> SUFFICES ASSUME NEW groups, NEW a, NEW b, groups \subseteq {a, b}, {a, b} \cap Entitled = {}
               PROVE  Backs(W, LowestGroup(reply, groups))
    OBVIOUS
  <2> DEFINE over(g) == Wire(reply, g).over
             known == {g \in groups : over(g) # Absent}
             lowest == CHOOSE g \in known : \A h \in known : over(g) <= over(h)
             window == Window(reply, lowest, Whole - over(lowest), Whole, over(lowest))
             shown == IF known = {} THEN Nothing ELSE window
             few == \A g \in known : over(g) <= Whole
             sound == \A g \in known : over(g) # Bad
  <2>1. LowestGroup(reply, groups) = Valid(sound, Valid(few, shown))
    BY DEF LowestGroup
  <2>2. \A g \in known : over(g) # Absent
    OBVIOUS
  <2>3. \A g : /\ over(g) \in Nat \cup {Absent, Bad}
               /\ over(g) # Bad /\ g \notin Entitled => Bears(W, g, over(g))
    BY LanesTell DEF LaneTells
  <2>4. Whole \in Nat
    BY DEF Whole
  <2>a. \A o : Nothing = o => Backs(W, o)
    BY OutcomesBack
  <2>b. known \subseteq {a, b}
    BY DEF known
  <2>c. \A g : over(g) \in Nat \cup {Absent, Bad}
    BY LanesTell DEF LaneTells
  <2>d. \A g \in known : g \notin Entitled
    BY <2>b
  <2> HIDE DEF over, known
  <2>5. ASSUME sound PROVE Backs(W, Valid(few, shown))
    <3>1. CASE few /\ known # {}
      <4>1. \A g \in known : over(g) \in Nat
        BY <2>2, <2>5, <2>c
      <4>2. lowest \in known
        <5>1. known # {} /\ \A g \in known : over(g) \in Nat
          BY <3>1, <4>1
        <5> HIDE DEF few, sound
        <5>2. \E g \in known : \A h \in known : over(g) <= over(h)
          BY <2>b, <5>1
        <5> QED BY <5>2
      <4>a. lowest \notin Entitled
        <5> HIDE DEF lowest, few, sound
        <5> QED BY <2>d, <4>2
      <4>3. Bears(W, lowest, over(lowest)) /\ over(lowest) # Absent
        BY <2>2, <2>3, <2>5, <4>2, <4>a
      <4> HIDE DEF lowest
      <4>4. Backs(W, window)
        BY <2>4, <4>3, WindowsBack DEF Leaves
      <4> HIDE DEF window, few
      <4> QED BY <3>1, <4>4, WaysBack
    <3>2. CASE ~(few /\ known # {})
      <4> HIDE DEF window, few
      <4> QED BY <3>2, <2>a, WaysBack, OutcomesBack
    <3> QED BY <3>1, <3>2
  <2> HIDE DEF shown, few, sound
  <2> QED BY <2>1, <2>5, WaysBack
<1>9. \A l : /\ Backs(W, Plain(reply, l)) /\ Backs(W, May(reply, l)) /\ Backs(W, Amounts(reply, l))
             /\ Backs(W, OfHundred(reply, l)) /\ Backs(W, Spent(reply, l))
  BY <1>3, <1>4, <1>6, <1>7
<1>10. \A l, m : {l, m} \cap Entitled = {}
                  => Backs(W, LowestGroup(reply, {l, m})) /\ Backs(W, LowestGroup(reply, {l}))
  <2>1. \A l, m : {l} \subseteq {l, m} /\ {l, m} \subseteq {l, m}
    OBVIOUS
  <2> QED BY <1>8, <2>1
<1> QED BY <1>5, <1>9, <1>10

\* A fetch shows what its replies bear out: balances.rs, key_api.rs and openrouter.rs.
LEMMA Recollection ==
  ASSUME NEW W, NEW r, Hearing(W, r)
  PROVE  \A s : Has(r, s) => Recalled(W, r[s])
BY DEF Hearing, Has

LEMMA KeysBack ==
  ASSUME NEW W, NEW r, Hearing(W, r)
  PROVE  /\ Backs(W, DeepSeek(r))
         /\ Backs(W, Moonshot(r))
         /\ Backs(W, Venice(r))
         /\ Backs(W, Xai(r))
         /\ Backs(W, Poe(r))
         /\ Backs(W, ZenMux(r))
         /\ Backs(W, Crof(r))
         /\ Backs(W, Synthetic(r))
         /\ Backs(W, Zai(r))
         /\ Backs(W, MiniMax(r))
         /\ Backs(W, OpenRouter(r))
<1>0. \A s : Has(r, s) => Recalled(W, r[s])
  BY Recollection
<1> USE <1>0, OutcomesBack, WaysBack, StepsBack, LanesBack, GuardsBack
<1>1. Backs(W, DeepSeek(r))
  BY DEF DeepSeek
<1>2. Backs(W, Moonshot(r))
  BY DEF Moonshot
<1>3. Backs(W, Venice(r))
  <2>1. ASSUME NEW reply, Recalled(W, reply)
        PROVE  Backs(W, VeniceDiem(reply))
    <3> DEFINE w == Wire(reply, "diem")
               free == Window(reply, "diem", Absent, Absent, w.left)
               of == Window(reply, "diem", Less(w.limit, w.left), w.limit, w.left)
               there == w.left # Absent
               shown == IF w.limit \in {Absent, 0} THEN free ELSE of
    <3>1. Sound(w) => Leaves(W, "diem", w.limit, w.left)
      BY LanesTell, <2>1 DEF LaneTells, Leaves
    <3>2. VeniceDiem(reply) = Valid(Sound(w), When(there, shown))
      BY DEF VeniceDiem
    <3> HIDE DEF w
    <3>3. Sound(w) /\ there => Backs(W, shown)
      BY <3>1, WindowsBack
    <3> HIDE DEF shown, there
    <3> QED BY <3>2, <3>3
  <2> QED BY <2>1 DEF Venice
<1>4. Backs(W, Xai(r))
  BY DEF Xai
<1>5. Backs(W, Poe(r))
  BY DEF Poe
<1>6. Backs(W, ZenMux(r))
  BY DEF ZenMux, ZenMuxQuota
<1>7. Backs(W, Crof(r))
  <2>1. ASSUME NEW reply, Recalled(W, reply)
        PROVE  Backs(W, CrofRequests(reply))
    <3> DEFINE w == Wire(reply, "requests")
               there == w.limit # Absent /\ w.left # Absent
               shown == Window(reply, "requests", Less(w.limit, w.left), w.limit, w.left)
    <3>1. Sound(w) => Leaves(W, "requests", w.limit, w.left)
      BY LanesTell, <2>1 DEF LaneTells, Leaves
    <3>2. CrofRequests(reply) = Valid(Sound(w), When(there, shown))
      BY DEF CrofRequests
    <3> HIDE DEF w
    <3>3. Sound(w) /\ there => Backs(W, shown)
      BY <3>1, WindowsBack
    <3> HIDE DEF shown, there
    <3> QED BY <3>2, <3>3
  <2> QED BY <2>1 DEF Crof
<1>8. Backs(W, Synthetic(r))
  <2>1. ASSUME NEW reply, Recalled(W, reply), NEW l, l \notin Entitled
        PROVE  Backs(W, SyntheticSlot(reply, l))
    <3> DEFINE w == Wire(reply, l)
               used == IF w.left # Absent THEN Absent ELSE w.used
               plain == Measured(reply, l, used, w.limit, w.left)
               v == [plain EXCEPT !.quota = FromLeft(w.over)]
               shown == Shows(IF w.over = Absent THEN plain ELSE v)
               sound == Sound([w EXCEPT !.used = used]) /\ (w.over # Absent => w.over <= Whole)
    <3>1. sound => w.limit # Bad /\ w.left # Bad /\ w.over # Bad /\ used # Bad
      <4>1. DOMAIN w = Fields
        BY <2>1 DEF Recalled, Numbered, Wire
      <4> QED BY LanesTell, <4>1 DEF LaneTells, Sound, Fields
    <3>2. SyntheticSlot(reply, l) = Valid(sound, shown)
      BY DEF SyntheticSlot
    <3>3. sound => /\ Leaves(W, l, w.limit, w.left) /\ Bears(W, l, w.over)
                   /\ w.left = Absent => Leaves(W, l, w.limit, Less(w.limit, used))
      BY LanesTell, <2>1, <3>1 DEF LaneTells, Leaves
    <3> HIDE DEF sound, w, used
    <3>4. sound => Backed(W, plain) /\ Backed(W, v)
      BY <3>3, WindowsBack, QuotasBorne
    <3> HIDE DEF plain, v
    <3>5. sound => Backs(W, shown)
      BY <3>4
    <3> HIDE DEF shown
    <3> QED BY <3>2, <3>5
  <2> QED BY <2>1 DEF Synthetic, Entitled
<1>9. Backs(W, Zai(r))
  <2>1. ASSUME NEW reply, Recalled(W, reply)
        PROVE  Backs(W, ZaiSearches(reply))
    <3> DEFINE w == Wire(reply, "searches")
               plain == Measured(reply, "searches", w.used, w.limit, Absent)
    <3>1. Sound(w) => Leaves(W, "searches", w.limit, Absent) /\ Leaves(W, "searches", w.limit, Less(w.limit, w.used))
      BY LanesTell, <2>1 DEF LaneTells, Leaves
    <3>2. ZaiSearches(reply) = Valid(Sound(w), Shows(plain))
      BY DEF ZaiSearches
    <3> HIDE DEF w
    <3>3. Sound(w) => Backed(W, plain)
      BY <3>1, WindowsBack
    <3> HIDE DEF plain
    <3> QED BY <3>2, <3>3
  <2> QED BY <2>1 DEF Zai
<1>10. Backs(W, MiniMax(r))
  <2>1. ASSUME NEW reply, Recalled(W, reply), NEW l, l \notin Entitled
        PROVE  Backs(W, MiniMaxLane(reply, l))
    <3> DEFINE w == Wire(reply, l)
               limit == IF w.over # Absent /\ w.limit = 0 THEN Absent ELSE w.limit
               left == IF w.over = Absent THEN w.left
                       ELSE IF limit = Absent THEN Absent ELSE (limit * w.over + Whole - 1) \div Whole
               plain == Measured(reply, l, Absent, limit, left)
               v == [plain EXCEPT !.quota = FromLeft(w.over)]
               shown == Shows(IF w.over = Absent THEN plain ELSE v)
               sound == /\ w.limit # Bad /\ w.over # Bad /\ (w.over = Absent => w.left # Bad)
                        /\ w.over # Absent => w.over <= Whole
    <3>2. MiniMaxLane(reply, l) = Valid(sound, shown)
      BY DEF MiniMaxLane
    <3>3. sound => /\ Bears(W, l, w.over)
                   /\ w.over = Absent => /\ Leaves(W, l, limit, left)
                                         /\ Leaves(W, l, limit, Less(limit, Absent))
      <4>1. \A n : Less(n, Absent) = Absent
        BY DEF Less
      <4> QED BY LanesTell, <2>1, <4>1 DEF LaneTells, Leaves
    <3> HIDE DEF sound, w, limit, left
    <3>4. sound => Backed(W, v) /\ (w.over = Absent => Backed(W, plain))
      BY <3>3, WindowsBack, QuotasBorne
    <3> HIDE DEF plain, v
    <3>5. sound => Backs(W, shown)
      BY <3>4
    <3> HIDE DEF shown
    <3> QED BY <3>2, <3>5
  <2> QED BY <2>1 DEF MiniMax, Entitled
<1>11. Backs(W, OpenRouter(r))
  <2>1. ASSUME NEW reply, Recalled(W, reply)
        PROVE  Backs(W, OpenRouterKey(reply))
    <3> DEFINE w == Wire(reply, "limit")
               plain == Measured(reply, "limit", Less(w.limit, w.left), w.limit, w.left)
               sound == Sound(w) /\ Coherent(w.limit, w.left)
               there == w.limit # Absent
    <3>1. sound => /\ Leaves(W, "limit", w.limit, w.left)
                   /\ w.left = Absent => Leaves(W, "limit", w.limit, Less(w.limit, Less(w.limit, w.left)))
      <4>1. \A n, m : m = Absent => Less(n, Less(n, m)) = Absent
        BY DEF Less
      <4> QED BY LanesTell, <2>1, <4>1 DEF LaneTells, Leaves
    <3>2. OpenRouterKey(reply) = Valid(sound, When(there, Shows(plain))) ++ May(reply, "spend")
      BY DEF OpenRouterKey
    <3> HIDE DEF w, sound, there
    <3>3. sound => Backed(W, plain)
      BY <3>1, WindowsBack
    <3> HIDE DEF plain
    <3> QED BY <2>1, <3>2, <3>3
  <2>2. ASSUME NEW reply, Recalled(W, reply)
        PROVE  Backs(W, OpenRouterCredits(reply))
    <3> DEFINE w == Wire(reply, "credits")
               balance == Or(w.left, Less(w.limit, w.used))
               credits == Window(reply, "credits", w.used, w.limit, Absent)
               rest == Window(reply, "balance", Absent, Absent, balance)
               both == When(w.limit # Absent /\ w.used # Absent, When(w.limit > 0, credits))
                       ++ When(balance # Absent, rest)
    <3>1. Sound(w) => Leaves(W, "credits", w.limit, Absent) /\ Leaves(W, "credits", w.limit, Less(w.limit, w.used))
      BY LanesTell, <2>2 DEF LaneTells, Leaves
    <3>2. OpenRouterCredits(reply) = Valid(Sound(w), OrElse(both, "InvalidData"))
      BY DEF OpenRouterCredits
    <3> HIDE DEF w, balance
    <3>3. Sound(w) => Backs(W, credits) /\ Backs(W, rest)
      BY <3>1, WindowsBack
    <3> HIDE DEF credits, rest
    <3>4. Sound(w) => Backs(W, both)
      BY <3>3
    <3> HIDE DEF both
    <3> QED BY <3>2, <3>4
  <2> DEFINE
        credits == Noted(Get(r, "credits", [credits |-> ULL], OpenRouterCredits(r.credits)),
                         "openrouter_credits_api")
        limits == Noted(Get(r, "limits", [limit |-> LL, spend |-> U], OpenRouterKey(r.limits)),
                        "openrouter_key_api")
        both == Join(credits, limits)
        failed == IF \E d \in both.told : d.code = "Authentication" THEN "Authentication"
                  ELSE IF credits.told # {} THEN (CHOOSE d \in credits.told : TRUE).code
                  ELSE IF limits.told # {} THEN (CHOOSE d \in limits.told : TRUE).code
                  ELSE "InvalidData"
  <2>3. Backs(W, credits) /\ Backs(W, limits)
    BY <2>1, <2>2
  <2>4. OpenRouter(r) = KeyApi(r, {"ok"}, Usage(r.key.of, OrElse(both, failed)))
    BY DEF OpenRouter, credits, limits, both, failed
  <2> HIDE DEF credits, limits, failed
  <2>5. Backs(W, both)
    BY <2>3
  <2> HIDE DEF both
  <2> QED BY <2>4, <2>5
<1> QED BY <1>1, <1>2, <1>3, <1>4, <1>5, <1>6, <1>7, <1>8, <1>9, <1>10, <1>11

\* coding.rs.
LEMMA PlansBack ==
  ASSUME NEW W, NEW r, Hearing(W, r)
  PROVE  /\ Backs(W, AiAnd(r))
         /\ Backs(W, Alibaba(r))
         /\ Backs(W, ClinePass(r))
         /\ Backs(W, CodeBuff(r))
         /\ Backs(W, IbmBob(r))
         /\ Backs(W, Kilo(r))
         /\ Backs(W, Warp(r))
<1>0. \A s : Has(r, s) => Recalled(W, r[s])
  BY Recollection
<1> USE <1>0, OutcomesBack, WaysBack, StepsBack, LanesBack, GuardsBack
<1>1. Backs(W, AiAnd(r))
  <2>1. \A reply, amount : Backs(W, Spend(reply, amount))
    BY WindowsBack DEF Spend
  <2> QED BY <2>1 DEF AiAnd
<1>2. Backs(W, Alibaba(r))
  <2>1. \A reply, l : Recalled(W, reply) => Backs(W, AlibabaLane(reply, l))
    BY DEF AlibabaLane
  <2> QED BY <2>1 DEF Alibaba
<1>3. Backs(W, ClinePass(r))
  <2>1. ASSUME NEW reply, Recalled(W, reply), NEW l
        PROVE  Backs(W, ClinePassLane(reply, l))
    <3> DEFINE w == Wire(reply, l)
               unread == Window(reply, l, Absent, Whole, Absent)
               most == IF w.spent > Whole THEN Whole ELSE w.spent
               shown == Window(reply, l, most, Whole, Absent)
    <3>1. /\ Bears(W, l, Less(Whole, Absent)) /\ Bears(W, l, Absent) /\ Whole \in Nat
          /\ w.spent \notin {Absent, Bad} => Bears(W, l, Less(Whole, most))
      <4>1. Less(Whole, Absent) = Absent /\ Whole \in Nat
        BY DEF Less, Whole
      <4>2. w.spent \in Nat \cup {Absent, Bad} /\ (w.spent # Bad => Bears(W, l, Less(Whole, w.spent)))
        BY LanesTell, <2>1 DEF LaneTells
      <4>3. \A n \in Nat : n > Whole => Less(Whole, Whole) = Less(Whole, n)
        BY MarksApart DEF Less, Atleast0, Whole
      <4> QED BY HeardBears, <4>1, <4>2, <4>3
    <3>2. ClinePassLane(reply, l) =
            IF w.spent = Absent THEN Nothing
            ELSE IF w.spent = Bad THEN unread ++ Notes(l, "InvalidData") ELSE shown
      BY DEF ClinePassLane
    <3> HIDE DEF w, most
    <3>3. Backs(W, unread) /\ (w.spent \notin {Absent, Bad} => Backs(W, shown))
      BY <3>1, WindowsBack DEF Leaves
    <3> HIDE DEF unread, shown
    <3> QED BY <3>2, <3>3
  <2> QED BY <2>1 DEF ClinePass
<1>4. Backs(W, CodeBuff(r))
  BY DEF CodeBuff
<1>5. Backs(W, IbmBob(r))
  <2>1. ASSUME NEW request, NEW team \in {"team1", "team2"}, Has(r, "profile")
        PROVE  Backs(W, IbmTeam(r, request, team))
    <3> DEFINE known == Wire(r.profile, team)
               budget == Wire(r[request], "budget")
               used == Or(budget.used, known.used)
               limit == Or(budget.limit, known.limit)
               sound == Sound(known) /\ Sound(budget) /\ used # Absent
               shown == Window(r[request], team, used, limit, Absent)
    <3>1. IbmTeam(r, request, team) = Get(r, request, [budget |-> UL], Valid(sound, shown))
      BY DEF IbmTeam
    <3>2. ASSUME Has(r, request), sound
          PROVE  Leaves(W, team, limit, Absent) /\ Leaves(W, team, limit, Less(limit, used))
      <4>1. team \in Behind(team) /\ "budget" \in Behind(team)
        BY DEF Behind, MadeOf
      <4>2. "used" \in Fields /\ "limit" \in Fields
        BY DEF Fields
      <4>3. \A f \in {"used", "limit"} :
              /\ known[f] \in Nat \cup {Absent, Bad} /\ (known[f] \in Nat => known[f] \in Heard(W, team, f))
              /\ budget[f] \in Nat \cup {Absent, Bad} /\ (budget[f] \in Nat => budget[f] \in Heard(W, team, f))
        BY <2>1, <3>2, <4>1, <4>2, WiresTell
      <4>4. Bad \notin {known.used, known.limit, budget.used, budget.limit}
        BY <3>2, <4>2 DEF Sound
      <4> HIDE DEF known, budget
      <4>5. /\ used \in Nat \cup {Absent} /\ (used \in Nat => used \in Heard(W, team, "used"))
            /\ limit \in Nat \cup {Absent} /\ (limit \in Nat => limit \in Heard(W, team, "limit"))
        BY <4>3, <4>4 DEF Or
      <4> HIDE DEF used, limit
      <4>6. \A n : Less(n, Absent) = Absent /\ Less(Absent, n) = Absent
        BY DEF Less
      <4> QED BY <4>5, <4>6, HeardBears DEF Leaves
    <3> HIDE DEF used, limit
    <3>3. Has(r, request) /\ sound => Backs(W, shown)
      BY <3>2, WindowsBack
    <3> HIDE DEF sound, shown
    <3>4. Has(r, request) => Backs(W, Valid(sound, shown))
      BY <3>3
    <3> QED BY <3>1, <3>4
  <2> QED BY <2>1 DEF IbmBob
<1>6. Backs(W, Kilo(r))
  <2>1. ASSUME NEW reply, Recalled(W, reply)
        PROVE  Backs(W, KiloCredits(reply))
    <3> DEFINE blocks == Wire(reply, "blocks")
               totals == Wire(reply, "totals")
               limit == Or(totals.limit, Sum(totals.used, totals.left))
               block == Window(reply, "blocks", Less(blocks.limit, blocks.left), blocks.limit, blocks.left)
               total == Window(reply, "totals", totals.used, limit, totals.left)
    <3>1. Given(blocks.left) /\ Given(blocks.limit) => Leaves(W, "blocks", blocks.limit, blocks.left)
      BY LanesTell, <2>1 DEF LaneTells, Leaves, Given
    <3>2. Sound(totals) => /\ Leaves(W, "totals", limit, totals.left)
                           /\ totals.left = Absent => Leaves(W, "totals", limit, Less(limit, totals.used))
      <4>1. Sound(totals) => /\ {totals.used, totals.limit, totals.left} \subseteq Nat \cup {Absent}
                             /\ totals.limit # 0 => /\ Bears(W, "totals", totals.left)
                                                     /\ Bears(W, "totals", Less(totals.limit, totals.used))
        BY LanesTell, <2>1 DEF LaneTells
      <4>2. \A n, m \in Nat \cup {Absent} : Sum(n, m) \in Nat \cup {Absent} /\ Sum(n, Absent) = Absent
        BY MarksApart DEF Sum
      <4>3. Absent # 0 /\ \A n : Less(Absent, n) = Absent
        BY MarksApart DEF Less
      <4>4. Bears(W, "totals", Absent)
        BY HeardBears
      <4> HIDE DEF totals
      <4> QED BY <4>1, <4>2, <4>3, <4>4 DEF Or, Leaves
    <3>3. KiloCredits(reply) =
            IF ~Empty(blocks) THEN Needs(reply, "blocks", LL, block)
            ELSE IF ~Empty(totals) THEN Valid(Sound(totals), total) ELSE May(reply, "balance")
      BY DEF KiloCredits
    <3>4. Backs(W, Needs(reply, "blocks", LL, block))
      <4>1. (\A f \in LL : Given(blocks[f])) => Given(blocks.left) /\ Given(blocks.limit)
        BY DEF LL
      <4>2. Given(blocks.left) /\ Given(blocks.limit) => blocks.left # Absent
        BY DEF Given
      <4>3. (\A f \in LL : Given(blocks[f])) => Backs(W, block)
        <5> HIDE DEF blocks
        <5> QED BY <3>1, <4>1, <4>2, WindowsBack
      <4> HIDE DEF block
      <4> QED BY <4>3
    <3> HIDE DEF block, limit
    <3>5. Sound(totals) => Backs(W, total)
      <4> HIDE DEF totals
      <4> QED BY <3>2, WindowsBack
    <3> HIDE DEF total
    <3>6. Backs(W, Valid(Sound(totals), total)) /\ Backs(W, May(reply, "balance"))
      BY <2>1, <3>5
    <3> QED BY <3>3, <3>4, <3>6
  <2>2. ASSUME NEW reply, Recalled(W, reply)
        PROVE  Backs(W, KiloPass(reply))
    <3> DEFINE w == Wire(reply, "pass")
               shown == Window(reply, "pass", w.used, w.limit, Less(w.limit, w.used))
               there == w.used # Absent
    <3>1. Sound(w) => Leaves(W, "pass", w.limit, Less(w.limit, w.used))
      BY LanesTell, <2>2 DEF LaneTells, Leaves
    <3>2. KiloPass(reply) = Valid(Sound(w), When(there, shown))
      BY DEF KiloPass
    <3> HIDE DEF w, there
    <3>3. Sound(w) => Backs(W, shown)
      BY <3>1, WindowsBack
    <3> HIDE DEF shown
    <3> QED BY <3>2, <3>3
  <2> QED BY <2>1, <2>2 DEF Kilo
<1>7. Backs(W, Warp(r))
  <2>1. ASSUME NEW reply, Recalled(W, reply)
        PROVE  Backs(W, WarpRequests(reply))
    <3> DEFINE w == Wire(reply, "requests")
               v == [Measured(reply, "requests", w.used, Absent, Absent) EXCEPT !.quota = Unlimited]
    <3>1. WarpRequests(reply) =
            IF reply.says = "unlimited" THEN Valid(w.used # Bad, Shows(v)) ELSE Plain(reply, "requests")
      BY DEF WarpRequests
    <3>2. Backed(W, v)
      <4>1. Borne(W, "requests", Unlimited)
        BY QuotasBorne
      <4> QED BY <4>1, WindowsBack
    <3> HIDE DEF v, w
    <3>3. Backs(W, Valid(w.used # Bad, Shows(v)))
      BY <3>2
    <3> QED BY <2>1, <3>1, <3>3
  <2>2. ASSUME NEW reply, Recalled(W, reply)
        PROVE  Backs(W, WarpBonus(reply))
    <3> DEFINE w == Wire(reply, "bonus")
               shown == Window(reply, "bonus", Less(w.limit, w.left), w.limit, w.left)
               few == w.limit > 0 /\ w.left <= w.limit
    <3>1. (\A f \in LL : Given(w[f])) => w.left # Absent /\ Leaves(W, "bonus", w.limit, w.left)
      BY LanesTell, <2>2 DEF LaneTells, Leaves, Given, LL
    <3>2. WarpBonus(reply) =
            MayHave(reply, "bonus", Noted(Needs(reply, "bonus", LL, Valid(few, shown)), "warp_bonus"))
      BY DEF WarpBonus
    <3>3. (\A f \in LL : Given(w[f])) => Backs(W, shown)
      <4> HIDE DEF w
      <4> QED BY <3>1, WindowsBack
    <3> HIDE DEF shown, few
    <3>4. (\A f \in LL : Given(w[f])) => Backs(W, Valid(few, shown))
      BY <3>3
    <3>5. Backs(W, Needs(reply, "bonus", LL, Valid(few, shown)))
      BY <3>4
    <3> QED BY <3>2, <3>5
  <2> QED BY <2>1, <2>2 DEF Warp
<1> QED BY <1>1, <1>2, <1>3, <1>4, <1>5, <1>6, <1>7

\* A level of Doubao is a percentage that may be missing.
LEMMA DoubaoLevelsBack ==
  ASSUME NEW W, NEW reply, Recalled(W, reply)
  PROVE  \A l : Backs(W, DoubaoLevel(reply, l))
BY LanesBack, GuardsBack DEF DoubaoLevel

\* gateways.rs, doubao.rs and tools.rs.
LEMMA GatewaysBack ==
  ASSUME NEW W, NEW r, Hearing(W, r)
  PROVE  /\ Backs(W, ClawRouter(r))
         /\ Backs(W, LiteLlm(r))
         /\ Backs(W, LlmProxy(r))
         /\ Backs(W, Sub2Api(r))
         /\ Backs(W, OpenAi(r))
         /\ Backs(W, Doubao(r))
         /\ Backs(W, Devin(r))
         /\ Backs(W, OpenCodeGo(r))
<1>0. \A s : Has(r, s) => Recalled(W, r[s])
  BY Recollection
<1> USE <1>0, OutcomesBack, WaysBack, StepsBack, LanesBack, GuardsBack
<1>a. \A missing, o : Backs(W, o) => Backs(W, Based(r, missing, o))
  BY DEF Based
<1>1. Backs(W, ClawRouter(r))
  BY <1>a DEF ClawRouter
<1>2. Backs(W, LiteLlm(r))
  <2>1. \A request, lanes, o : (Has(r, request) => Backs(W, o)) => Backs(W, LiteLlmOwner(r, request, lanes, o))
    BY DEF LiteLlmOwner
  <2> QED BY <1>a, <2>1 DEF LiteLlm
<1>3. Backs(W, LlmProxy(r))
  BY <1>a DEF LlmProxy, Entitled
<1>4. Backs(W, Sub2Api(r))
  BY <1>a DEF Sub2Api, Sub2ApiLimit
<1>5. Backs(W, OpenAi(r))
  <2>1. \A page1, page2, lanes, o : Backs(W, o) => Backs(W, Pages(r, page1, page2, lanes, o))
    BY DEF Pages
  <2>a. \A reply, l, used : Backs(W, Window(reply, l, used, Absent, Absent))
    BY WindowsBack
  <2>2. \A page1, page2, l : Backs(W, OverPages(r, page1, page2, l))
    BY <2>a DEF OverPages
  <2> QED BY <2>1, <2>2 DEF OpenAi
<1>6. Backs(W, Doubao(r))
  <2>1. Has(r, "plan") => \A l : Backs(W, DoubaoLevel(r.plan, l))
    BY DoubaoLevelsBack
  <2> DEFINE levels == OrElse(DoubaoLevel(r.plan, "session") ++ DoubaoLevel(r.plan, "week")
                                ++ DoubaoLevel(r.plan, "month"), "QuotaUnavailable")
             shown == Require(r.plan.says # "denied", "Authentication",
                        Require(r.plan.says # "failed", "Unavailable",
                          Require(r.plan.says # "no_plan", "QuotaUnavailable",
                            Valid(r.plan.says = "ok", levels))))
             asked == Usage(r.key.of,
                        GetCase(r, "plan", [session |-> P, week |-> P, month |-> P],
                                {"ok", "denied", "failed", "no_plan", "twice"}, shown))
  <2>2. Has(r, "plan") => Backs(W, levels)
    BY <2>1
  <2> HIDE DEF levels
  <2>3. Has(r, "plan") => Backs(W, shown)
    BY <2>2
  <2> HIDE DEF shown
  <2>4. Backs(W, asked)
    BY <2>3
  <2> HIDE DEF asked
  <2> DEFINE signed == Require(r.access_key.says # "missing", "Authentication",
                         Valid(r.access_key.says = "ok", asked))
  <2>5. Backs(W, signed)
    BY <2>4
  <2> HIDE DEF signed
  <2>6. Doubao(r) = Key(r, "key", Setting(r, "access_key", {"ok", "missing", "malformed"}, signed))
    BY DEF Doubao, signed, asked, shown, levels
  <2>7. Backs(W, Setting(r, "access_key", {"ok", "missing", "malformed"}, signed))
    BY <2>5
  <2> QED BY <2>6, <2>7
<1>7. Backs(W, Devin(r))
  BY DEF Devin
<1>8. Backs(W, OpenCodeGo(r))
  BY DEF OpenCodeGo
<1> QED BY <1>1, <1>2, <1>3, <1>4, <1>5, <1>6, <1>7, <1>8

\* infrastructure.rs, azure.rs and what else is asked with a key.
LEMMA InfrastructureBack ==
  ASSUME NEW W, NEW r, Hearing(W, r)
  PROVE  /\ Backs(W, Chutes(r))
         /\ Backs(W, DeepInfra(r))
         /\ Backs(W, Fireworks(r))
         /\ Backs(W, Groq(r))
         /\ Backs(W, Deepgram(r))
         /\ Backs(W, ElevenLabs(r))
         /\ Backs(W, NeuralWatt(r))
         /\ Backs(W, Kimi(r))
         /\ Backs(W, DevinDesktop(r))
         /\ Backs(W, Azure(r))
<1>0. \A s : Has(r, s) => Recalled(W, r[s])
  BY Recollection
<1> USE <1>0, OutcomesBack, WaysBack, StepsBack, LanesBack, GuardsBack
<1>1. Backs(W, Chutes(r))
  BY DEF Chutes
<1>2. Backs(W, DeepInfra(r))
  <2>1. ASSUME NEW checklist, Recalled(W, checklist), NEW usage, Recalled(W, usage)
        PROVE  Backs(W, DeepInfraWindows(checklist, usage))
    <3> DEFINE account == Wire(checklist, "account")
               of == Wire(usage, "month")
               month == Or(of.used, account.used)
               limit == account.limit
               sound == limit # Bad /\ month # Bad
               credit == Window(checklist, "account", Absent, Absent, Less(account.left, account.used))
               spending == Window(usage, "month", month, Absent, Absent)
               owed == Window(checklist, "owed", Less(account.used, account.left), Absent, Absent)
               limited == Window(checklist, "limit", month, limit, Less(limit, month))
               some == limit \notin {Absent, 0}
               debt == account.used > account.left
    <3>1. ASSUME sound PROVE Leaves(W, "limit", limit, Less(limit, month))
      <4>1. "account" \in Behind("limit") /\ "month" \in Behind("limit") /\ "used" \in Fields /\ "limit" \in Fields
        BY DEF Behind, MadeOf, Fields
      <4>2. /\ account.used \in Nat \cup {Absent, Bad}
            /\ account.used \in Nat => account.used \in Heard(W, "limit", "used")
            /\ of.used \in Nat \cup {Absent, Bad} /\ (of.used \in Nat => of.used \in Heard(W, "limit", "used"))
            /\ limit \in Nat \cup {Absent, Bad} /\ (limit \in Nat => limit \in Heard(W, "limit", "limit"))
        BY <2>1, <4>1, WiresTell
      <4> HIDE DEF account, of, limit
      <4>3. month \in Nat \cup {Absent} /\ (month \in Nat => month \in Heard(W, "limit", "used"))
        BY <3>1, <4>2 DEF Or
      <4> HIDE DEF month
      <4>4. \A n : Less(n, Absent) = Absent /\ Less(Absent, n) = Absent
        BY DEF Less
      <4> QED BY <3>1, <4>2, <4>3, <4>4, HeardBears DEF Leaves
    <3>2. DeepInfraWindows(checklist, usage) =
            Needs(checklist, "account", {"used", "left"},
              Valid(sound, credit ++ spending ++ When(debt, owed) ++ When(some, limited)))
      BY DEF DeepInfraWindows
    <3> HIDE DEF account, month, limit, of
    <3>3. /\ Backs(W, credit) /\ Backs(W, spending) /\ Backs(W, owed)
          /\ sound => Backs(W, limited)
      BY <3>1, WindowsBack
    <3> HIDE DEF sound, credit, spending, owed, limited, some, debt
    <3>4. sound => Backs(W, credit ++ spending ++ When(debt, owed) ++ When(some, limited))
      BY <3>3
    <3> QED BY <3>2, <3>4
  <2> QED BY <2>1 DEF DeepInfra
<1>a. \A s, o : Backs(W, o) => Backs(W, Named(r, s, o))
  BY DEF Named
<1>3. Backs(W, Fireworks(r))
  BY <1>a DEF Fireworks
<1>4. Backs(W, Groq(r))
  BY DEF Groq
<1>5. Backs(W, Deepgram(r))
  BY <1>a DEF Deepgram
<1>6. Backs(W, ElevenLabs(r))
  <2>1. ASSUME NEW reply, Recalled(W, reply), NEW l
        PROVE  LET w == Wire(reply, l)
               IN  w.used # Bad /\ w.limit # Bad => Backs(W, Window(reply, l, w.used, w.limit, Less(w.limit, w.used)))
    <3> DEFINE w == Wire(reply, l)
    <3>1. w.used # Bad /\ w.limit # Bad => Leaves(W, l, w.limit, Less(w.limit, w.used))
      BY LanesTell, <2>1 DEF LaneTells, Leaves
    <3> HIDE DEF w
    <3>2. w.used # Bad /\ w.limit # Bad => Backs(W, Window(reply, l, w.used, w.limit, Less(w.limit, w.used)))
      BY <3>1, WindowsBack
    <3> QED BY <3>2 DEF w
  <2>2. ASSUME NEW reply, Recalled(W, reply)
        PROVE  Backs(W, ElevenLabsSlots(reply))
    <3> DEFINE w == Wire(reply, "slots")
               shown == Window(reply, "slots", w.used, w.limit, Less(w.limit, w.used))
               there == w.used # Absent /\ w.limit \notin {Absent, 0}
    <3>1. Sound(w) => w.used # Bad /\ w.limit # Bad
      BY DEF Sound, Fields
    <3>2. ElevenLabsSlots(reply) = Valid(Sound(w), When(there, shown))
      BY DEF ElevenLabsSlots
    <3>3. Sound(w) => Backs(W, shown)
      BY <2>1, <2>2, <3>1
    <3> HIDE DEF shown, there, w
    <3> QED BY <3>2, <3>3
  <2> DEFINE w == Wire(r.subscription, "characters")
             shown == Window(r.subscription, "characters", w.used, w.limit, Less(w.limit, w.used))
             both == shown ++ ElevenLabsSlots(r.subscription)
  <2>3. ElevenLabs(r) =
          Keyed(r, Get(r, "subscription", [characters |-> UL, slots |-> UL],
            Needs(r.subscription, "characters", UL, both)))
    BY DEF ElevenLabs
  <2>4. ASSUME Has(r, "subscription")
        PROVE  (\A f \in UL : Given(w[f])) => Backs(W, both)
    <3>1. (\A f \in UL : Given(w[f])) => w.used # Bad /\ w.limit # Bad
      BY DEF UL, Given
    <3>2. (\A f \in UL : Given(w[f])) => Backs(W, shown)
      BY <2>1, <2>4, <3>1
    <3> HIDE DEF shown
    <3> QED BY <2>2, <2>4, <3>2
  <2> HIDE DEF both
  <2>5. Has(r, "subscription") => Backs(W, Needs(r.subscription, "characters", UL, both))
    BY <2>4
  <2> QED BY <2>3, <2>5
<1>7. Backs(W, NeuralWatt(r))
  <2>1. ASSUME NEW reply, Recalled(W, reply)
        PROVE  Backs(W, NeuralWattEnergy(reply))
    <3> DEFINE w == Wire(reply, "energy")
               total == Or(w.limit, Sum(w.used, w.left))
               used == Or(w.used, Less(total, w.left))
               shown == Window(reply, "energy", used, total, w.left)
    <3>1. Sound(w) => /\ Leaves(W, "energy", total, w.left)
                      /\ w.left = Absent => Leaves(W, "energy", total, Less(total, used))
      <4>1. Sound(w) => /\ {w.used, w.limit, w.left} \subseteq Nat \cup {Absent}
                        /\ w.limit # 0 => /\ Bears(W, "energy", w.left)
                                           /\ Bears(W, "energy", Less(w.limit, w.used))
        BY LanesTell, <2>1 DEF LaneTells
      <4>2. /\ \A n, m \in Nat \cup {Absent} : Sum(n, m) \in Nat \cup {Absent} /\ Sum(n, Absent) = Absent
            /\ \A n : Less(n, Absent) = Absent /\ Less(Absent, n) = Absent
            /\ Absent # 0
        BY MarksApart DEF Sum, Less
      <4>3. Bears(W, "energy", Absent)
        BY HeardBears
      <4> HIDE DEF w
      <4> QED BY <4>1, <4>2, <4>3 DEF Or, Leaves
    <3>2. NeuralWattEnergy(reply) = MayHave(reply, "energy", Valid(Sound(w), shown))
      BY DEF NeuralWattEnergy
    <3> HIDE DEF w, total, used
    <3>3. Sound(w) => Backs(W, shown)
      BY <3>1, WindowsBack
    <3> HIDE DEF shown
    <3> QED BY <3>2, <3>3
  <2>2. \A reply : Backs(W, NeuralWattBalance(reply))
    BY WindowsBack DEF NeuralWattBalance
  <2> QED BY <2>1, <2>2 DEF NeuralWatt
<1>8. Backs(W, Kimi(r))
  <2>1. ASSUME NEW reply, Recalled(W, reply), NEW l
        PROVE  Backs(W, KimiWindow(reply, l))
    <3> DEFINE w == Wire(reply, l)
               left == IF w.used # Absent THEN Absent ELSE w.left
               sound == w.limit > 0 /\ Sound(w) /\ (w.used # Absent \/ w.left # Absent)
               shown == Window(reply, l, w.used, w.limit, left)
    <3>1. sound => /\ Leaves(W, l, w.limit, left)
                   /\ Leaves(W, l, w.limit, Less(w.limit, w.used))
      BY LanesTell, <2>1 DEF LaneTells, Leaves
    <3>2. KimiWindow(reply, l) = Needs(reply, l, {"limit"}, Valid(sound, shown))
      BY DEF KimiWindow
    <3> HIDE DEF w, left, sound
    <3>3. sound => Backs(W, shown)
      BY <3>1, WindowsBack
    <3> HIDE DEF shown
    <3> QED BY <3>2, <3>3
  <2> QED BY <2>1 DEF Kimi
<1>9. Backs(W, DevinDesktop(r))
  <2>1. ASSUME NEW reply, Recalled(W, reply), NEW l, l \notin Entitled
        PROVE  Backs(W, DevinLane(reply, l))
    <3> DEFINE over == Wire(reply, l).over
               left == IF over > Whole THEN Whole ELSE over
               shown == Window(reply, l, Absent, Whole, left)
    <3>1. Given(over) => Bears(W, l, left) /\ left # Absent /\ Whole \in Nat
      <4>1. Given(over) => over \in Nat /\ Bears(W, l, over)
        BY LanesTell, <2>1 DEF LaneTells, Given
      <4> HIDE DEF over
      <4> QED BY <4>1, MarksApart DEF Bears, Whole
    <3>2. DevinLane(reply, l) = When(Given(over), shown)
      BY DEF DevinLane
    <3> HIDE DEF over, left
    <3>3. Given(over) => Backs(W, shown)
      BY <3>1, WindowsBack DEF Leaves
    <3> HIDE DEF shown
    <3> QED BY <3>2, <3>3
  <2>2. \A reply, l, field, name : Backs(W, DevinNumber(reply, l, field, name))
    BY DEF DevinNumber
  <2>3. \A reply, l, used, left : Backs(W, Window(reply, l, used, Absent, left))
    BY WindowsBack
  <2> QED BY <2>1, <2>2, <2>3 DEF DevinDesktop, Entitled
<1>10. Backs(W, Azure(r))
  <2>1. \A of : Backs(W, AzureCosts(r, of))
    <3> SUFFICES ASSUME NEW of PROVE Backs(W, AzureCosts(r, of))
      OBVIOUS
    <3> DEFINE sound(page) == \A l \in DOMAIN AzureLanes : Sound(Wire(r[page], l))
               cost(l) == Added(Wire(r.costs1, l).used,
                                IF "costs2" \in DOMAIN r THEN Wire(r.costs2, l).used ELSE Absent)
               eur == Window(r.costs1, "eur", cost("eur"), Absent, Absent)
               usd == Window(r.costs1, "usd", cost("usd"), Absent, Absent)
               shown == When(cost("eur") # Absent, eur) ++ When(cost("usd") # Absent, usd)
               costs == Valid(\E l \in DOMAIN AzureLanes : cost(l) # Absent, shown)
               second == Request(r, "costs2", of, AzureLanes, {"last", "more"},
                           Valid(r.costs2.says = "last" /\ sound("costs2"), costs))
               both == IF r.costs1.says = "last" THEN costs ELSE second
    <3>1. AzureCosts(r, of) =
            Request(r, "costs1", of, AzureLanes, {"last", "more", "elsewhere"},
              Valid(r.costs1.says # "elsewhere" /\ sound("costs1"), both))
      BY DEF AzureCosts
    <3>2. Backs(W, eur) /\ Backs(W, usd)
      BY WindowsBack
    <3> HIDE DEF cost, sound, eur, usd
    <3>3. Backs(W, shown)
      BY <3>2
    <3> HIDE DEF shown
    <3>4. Backs(W, costs)
      BY <3>3
    <3> HIDE DEF costs
    <3>5. Backs(W, both)
      BY <3>4
    <3> HIDE DEF both
    <3> QED BY <3>1, <3>5
  <2>2. Backs(W, AzureToken(r))
    BY DEF AzureToken, Explicit
  <2> QED BY <2>1, <2>2 DEF Azure
<1> QED BY <1>1, <1>2, <1>3, <1>4, <1>5, <1>6, <1>7, <1>8, <1>9, <1>10

\* What finds a credential shows nothing.
LEMMA CredentialsBack ==
  ASSUME NEW W, NEW r
  PROVE  /\ \A o : Backs(W, o) => Backs(W, Explicit(r, o))
         /\ \A sources, fails, passed : Backs(W, FirstOf(r, sources, fails, passed))
<1>1. \A o : Backs(W, o) => Backs(W, Explicit(r, o))
  BY OutcomesBack, WaysBack, StepsBack DEF Explicit
<1>2. \A sources, fails, passed : Backs(W, FirstOf(r, sources, fails, passed))
  <2> SUFFICES ASSUME NEW sources, NEW fails, NEW passed PROVE Backs(W, FirstOf(r, sources, fails, passed))
    OBVIOUS
  <2>1. \/ \E a : FirstOf(r, sources, fails, passed) = Having(a)
        \/ \E q : FirstOf(r, sources, fails, passed) = Asks(q)
        \/ \E e : FirstOf(r, sources, fails, passed) = Fails(e)
    BY DEF FirstOf
  <2> QED BY <2>1, OutcomesBack
<1> QED BY <1>1, <1>2

\* Percentages that are shown of no amount.
LEMMA PercentsBack ==
  ASSUME NEW W, NEW reply, Recalled(W, reply), NEW l
  PROVE  LET w == Wire(reply, l)
         IN  /\ w.spent # Bad => Backs(W, Percent(reply, l, FromUsed(w.spent), Absent))
             /\ w.over # Bad /\ l \notin Entitled => Backs(W, Percent(reply, l, FromLeft(w.over), Absent))
             /\ Backs(W, Percent(reply, l, Unknown, Absent))
<1> DEFINE w == Wire(reply, l)
<1>1. /\ w.spent # Bad => w.spent \in Nat \cup {Absent} /\ Bears(W, l, Less(Whole, w.spent))
      /\ w.over # Bad /\ l \notin Entitled => Bears(W, l, w.over)
  BY LanesTell DEF LaneTells
<1> HIDE DEF w
<1>2. /\ w.spent # Bad => Borne(W, l, FromUsed(w.spent))
      /\ w.over # Bad /\ l \notin Entitled => Borne(W, l, FromLeft(w.over))
      /\ Borne(W, l, Unknown)
  BY <1>1, QuotasBorne
<1>3. \A quota : Borne(W, l, quota) => Backs(W, Percent(reply, l, quota, Absent))
  BY WindowsBack
<1>4. /\ w.spent # Bad => Backs(W, Percent(reply, l, FromUsed(w.spent), Absent))
      /\ w.over # Bad /\ l \notin Entitled => Backs(W, Percent(reply, l, FromLeft(w.over), Absent))
      /\ Backs(W, Percent(reply, l, Unknown, Absent))
  BY <1>2, <1>3
<1> QED BY <1>4 DEF w

\* Of two pages the higher value counts, and each is heard.
LEMMA SeriesHeard ==
  ASSUME NEW W, NEW r, NEW page1, NEW page2, Recalled(W, r[page1]),
         r[page1].says # "last" => Recalled(W, r[page2]),
         NEW shown, NEW l \in Behind(shown), NEW f \in {"used", "limit"},
         Sound(Wire(r[page1], l)), r[page1].says # "last" => Sound(Wire(r[page2], l))
  PROVE  LET n == OverSeries(r, page1, page2, l, f)
         IN  n \in Nat \cup {Absent} /\ (n \in Nat => n \in Heard(W, shown, f))
<1> DEFINE first == Wire(r[page1], l)[f]
           second == IF r[page1].says # "last" THEN Wire(r[page2], l)[f] ELSE Absent
           Heeded(n) == n \in Nat \cup {Absent} /\ (n \in Nat => n \in Heard(W, shown, f))
<1>a. f \in Fields /\ f \in {"used", "limit", "spent"}
  BY DEF Fields
<1>1. Heeded(first)
  BY <1>a, WiresTell DEF Sound
<1>2. Heeded(second)
  <2>1. Heeded(Absent)
    BY MarksApart
  <2>2. CASE r[page1].says # "last"
    BY <1>a, <2>2, WiresTell DEF Sound
  <2>3. CASE r[page1].says = "last"
    BY <2>1, <2>3
  <2> QED BY <2>2, <2>3
<1>3. OverSeries(r, page1, page2, l, f) = Highest(first, second)
  BY DEF OverSeries
<1>4. Highest(first, second) \in {first, second}
  BY DEF Highest
<1> HIDE DEF first, second
<1> QED BY <1>1, <1>2, <1>3, <1>4

\* oauth_cloud.rs.
LEMMA CloudsBack ==
  ASSUME NEW W, NEW r, Hearing(W, r)
  PROVE  /\ \A o : Backs(W, o) => Backs(W, KiroMetadata(r, o))
         /\ \A of, borrowed : Backs(W, KiroUsage(r, of, borrowed))
         /\ Backs(W, Kiro(r))
         /\ Backs(W, VertexAi(r))
<1>0. \A s : Has(r, s) => Recalled(W, r[s])
  BY Recollection
<1> USE <1>0, OutcomesBack, WaysBack, StepsBack
<1>1. \A o : Backs(W, o) => Backs(W, KiroMetadata(r, o))
  BY DEF KiroMetadata
<1>2. \A of, borrowed : Backs(W, KiroUsage(r, of, borrowed))
  <2> SUFFICES ASSUME NEW of, NEW borrowed PROVE Backs(W, KiroUsage(r, of, borrowed))
    OBVIOUS
  <2> DEFINE limits == Request(r, "limits", of, [requests |-> UL, trial |-> UL], {"ok"},
                         OrElse(May(r.limits, "requests") ++ May(r.limits, "trial"), "QuotaUnavailable"))
  <2>1. Backs(W, limits)
    BY LanesBack
  <2>2. KiroUsage(r, of, borrowed) =
          Usage(of, IF borrowed THEN Instead(limits, {"Authentication"}, Fails("OwnerRefreshRequired"))
                    ELSE limits)
    BY DEF KiroUsage
  <2> HIDE DEF limits
  <2> QED BY <2>1, <2>2
<1>3. Backs(W, Kiro(r))
  <2>1. Backs(W, KiroLogin(r))
    BY <1>1, <1>2 DEF KiroLogin
  <2>2. Backs(W, KiroMetadata(r, Require(r.token.says = "ok", "Authentication", KiroUsage(r, r.token.of, FALSE))))
    BY <1>1, <1>2
  <2> QED BY <2>1, <2>2 DEF Kiro
<1>4. Backs(W, VertexAi(r))
  <2>1. ASSUME Has(r, "usage1"), r.usage1.says # "last" => Has(r, "usage2"),
               Has(r, "limits1"), r.limits1.says # "last" => Has(r, "limits2")
        PROVE  Backs(W, VertexWindows(r))
    <3> DEFINE used(l) == OverSeries(r, "usage1", "usage2", l, "used")
               limit(l) == OverSeries(r, "limits1", "limits2", l, "limit")
               limits == {l \in {"named", "other"} : limit(l) # Absent}
               only == CHOOSE l \in limits : TRUE
               sound == \A p \in DOMAIN r \cap {"usage1", "usage2", "limits1", "limits2"} :
                          \A l \in DOMAIN r[p].wire : Sound(Wire(r[p], l))
               named == Window(r.usage1, "named", used("named"), limit("named"), Absent)
               unnamed == Window(r.usage1, "unnamed", used("unnamed"), limit(only), Absent)
               one == used("named") # Absent /\ limit("named") # Absent
               other == used("unnamed") # Absent /\ Cardinality(limits) = 1
               both == When(one, named) ++ When(other, unnamed)
    <3>1. VertexWindows(r) = Valid(sound, OrElse(both, "QuotaUnavailable"))
      BY DEF VertexWindows
    <3>2. ASSUME sound, NEW s \in {"usage1", "usage2", "limits1", "limits2"}, Has(r, s), NEW l
          PROVE  Sound(Wire(r[s], l))
      <4>1. CASE l \in DOMAIN r[s].wire
        BY <3>2, <4>1 DEF Has
      <4>2. CASE l \notin DOMAIN r[s].wire
        BY <4>2, MarksApart DEF Sound, Wire
      <4> QED BY <4>1, <4>2
    <3>3. ASSUME sound, NEW shown, NEW l \in Behind(shown)
          PROVE  /\ used(l) \in Nat \cup {Absent} /\ (used(l) \in Nat => used(l) \in Heard(W, shown, "used"))
                 /\ limit(l) \in Nat \cup {Absent} /\ (limit(l) \in Nat => limit(l) \in Heard(W, shown, "limit"))
      <4>2. /\ Sound(Wire(r.usage1, l)) /\ Sound(Wire(r.limits1, l))
            /\ r.usage1.says # "last" => Sound(Wire(r.usage2, l))
            /\ r.limits1.says # "last" => Sound(Wire(r.limits2, l))
        BY <2>1, <3>2, <3>3
      <4>3. used(l) \in Nat \cup {Absent} /\ (used(l) \in Nat => used(l) \in Heard(W, shown, "used"))
        BY <2>1, <4>2, SeriesHeard
      <4>4. limit(l) \in Nat \cup {Absent} /\ (limit(l) \in Nat => limit(l) \in Heard(W, shown, "limit"))
        BY <2>1, <4>2, SeriesHeard
      <4> QED BY <4>3, <4>4
    <3>4. Cardinality(limits) = 1 => only \in {"named", "other"}
      <4>1. limits # {} => only \in limits
        OBVIOUS
      <4>2. Cardinality({}) = 0
        BY FS_EmptySet
      <4> HIDE DEF only
      <4>3. Cardinality(limits) = 1 => only \in limits
        <5> HIDE DEF limits
        <5> QED BY <4>1, <4>2
      <4> QED BY <4>3
    <3>5. "named" \in Behind("named") /\ {"named", "other", "unnamed"} \subseteq Behind("unnamed")
      BY DEF Behind, MadeOf
    <3>6. \A shown, n, m : /\ n \in Nat \cup {Absent} /\ (n \in Nat => n \in Heard(W, shown, "used"))
                           /\ m \in Nat \cup {Absent} /\ (m \in Nat => m \in Heard(W, shown, "limit"))
                           => Backs(W, Window(r.usage1, shown, n, m, Absent))
      <4>1. \A n : Less(n, Absent) = Absent /\ Less(Absent, n) = Absent
        BY DEF Less
      <4>2. \A m \in Nat : m # 0 => m > 0
        OBVIOUS
      <4> QED BY <4>1, <4>2, HeardBears, WindowsBack DEF Leaves
    <3>7. sound => Backs(W, named)
      <4> HIDE DEF used, limit, sound
      <4> QED BY <3>3, <3>5, <3>6
    <3>8. sound /\ other => Backs(W, unnamed)
      <4> HIDE DEF used, limit, sound, limits, only
      <4> QED BY <3>3, <3>4, <3>5, <3>6
    <3> HIDE DEF named, unnamed, sound, one, other
    <3>9. sound => Backs(W, both)
      BY <3>7, <3>8
    <3> HIDE DEF both
    <3> QED BY <3>1, <3>9
  <2>2. ASSUME NEW page1, NEW page2, NEW of, NEW lanes, NEW o,
               Has(r, page1) /\ (r[page1].says # "last" => Has(r, page2)) => Backs(W, o)
        PROVE  Backs(W, VertexSeries(r, page1, page2, of, lanes, o))
    <3> DEFINE all == Require(r[page2].says = "last", "QuotaUnavailable", o)
               second == Step(r, Question(page2, of, lanes, {"last", "more"}, MonitoringErrors), all)
               both == IF r[page1].says = "last" THEN o ELSE second
    <3>1. VertexSeries(r, page1, page2, of, lanes, o) =
            Step(r, Question(page1, of, lanes, {"last", "more"}, MonitoringErrors), both)
      BY DEF VertexSeries
    <3>2. Has(r, page1) /\ Has(r, page2) => Backs(W, all)
      BY <2>2
    <3> HIDE DEF all
    <3>3. Has(r, page1) => Backs(W, second)
      BY <3>2
    <3> HIDE DEF second
    <3>4. Has(r, page1) => Backs(W, both)
      BY <2>2, <3>3
    <3> HIDE DEF both
    <3> QED BY <3>1, <3>4
  <2>3. \A of : Backs(W, VertexUsage(r, of))
    BY <2>1, <2>2 DEF VertexUsage
  <2>4. Backs(W, VertexToken(r))
    BY CredentialsBack DEF VertexToken
  <2>5. \A o : Backs(W, o) => Backs(W, VertexProject(r, o))
    BY DEF VertexProject
  <2> QED BY <2>3, <2>4, <2>5 DEF VertexAi
<1> QED BY <1>1, <1>2, <1>3, <1>4

\* oauth_primary.rs and oauth_editors.rs.
LEMMA LoginsBack ==
  ASSUME NEW W, NEW r, Hearing(W, r)
  PROVE  /\ Backs(W, Claude(r))
         /\ Backs(W, Gemini(r))
         /\ Backs(W, Copilot(r))
         /\ Backs(W, Cursor(r))
         /\ Backs(W, Grok(r))
<1>0. \A s : Has(r, s) => Recalled(W, r[s])
  BY Recollection
<1> USE <1>0, OutcomesBack, WaysBack, StepsBack
<1>1. Backs(W, Claude(r))
  <2>1. Backs(W, ClaudeToken(r))
    BY CredentialsBack DEF ClaudeToken
  <2>2. \A reply, l : Recalled(W, reply) => Backs(W, ClaudeWindow(reply, l))
    BY LanesBack, GuardsBack DEF ClaudeWindow
  <2>3. \A of : Backs(W, ClaudeUsage(r, of))
    BY <2>2 DEF ClaudeUsage
  <2> QED BY <2>1, <2>3 DEF Claude
<1>2. Backs(W, Gemini(r))
  <2>1. Backs(W, GeminiToken(r))
    BY CredentialsBack DEF GeminiToken
  <2>2. \A of : Backs(W, GeminiProject(r, of))
    <3> SUFFICES ASSUME NEW of PROVE Backs(W, GeminiProject(r, of))
      OBVIOUS
    <3>1. Backs(W, Instead(Request(r, "code_assist", of, NoLanes, {"ok"}, Nothing),
                           {"Transient", "Timeout", "Unavailable", "InvalidData"}, Nothing))
      OBVIOUS
    <3> QED BY <3>1 DEF GeminiProject
  <2>3. \A reply : Recalled(W, reply) => Backs(W, GeminiWindows(reply))
    BY LanesBack DEF GeminiWindows, Entitled
  <2>4. \A of : Backs(W, GeminiUsage(r, of))
    BY <2>2, <2>3 DEF GeminiUsage
  <2> QED BY <2>1, <2>4 DEF Gemini
<1>3. Backs(W, Copilot(r))
  <2>1. Backs(W, CopilotToken(r))
    BY CredentialsBack DEF CopilotToken
  <2>2. ASSUME NEW reply, Recalled(W, reply), NEW l
        PROVE  /\ Backs(W, CopilotSnapshot(reply, l))
               /\ Backs(W, CopilotLegacy(reply, l))
    <3> DEFINE w == Wire(reply, l)
               amounts == Window(reply, l, Less(w.limit, w.left), w.limit, w.left)
               share == Window(reply, l, Whole - w.over, Whole, w.over)
    <3>1. /\ w.limit # Bad => w.limit \in Nat \cup {Absent}
          /\ w.limit # Bad /\ w.left # Bad => Leaves(W, l, w.limit, w.left)
          /\ w.limit # 0 /\ w.over # Bad => Leaves(W, l, Whole, w.over)
      BY LanesTell, <2>2 DEF LaneTells, Leaves, Whole
    <3> HIDE DEF w
    <3>2. /\ w.limit # Bad /\ w.left \notin {Absent, Bad} => Backs(W, amounts)
          /\ w.limit # 0 /\ w.over \notin {Absent, Bad} => Backs(W, share)
      BY <3>1, WindowsBack
    <3> HIDE DEF amounts, share
    <3>3. w.limit # 0 /\ w.over \notin {Absent, Bad} => Backs(W, Valid(w.over <= Whole, share))
      BY <3>2
    <3>4. w.limit # 0 /\ w.over # Absent => Backs(W, Valid(w.over # Bad, Valid(w.over <= Whole, share)))
      BY <3>3
    <3>5. w.limit # Bad /\ w.left # Bad => Backs(W, When(w.limit # Absent /\ w.left # Absent, amounts))
      BY <3>2
    <3>6. Backs(W, CopilotSnapshot(reply, l))
      <4> DEFINE shown == IF w.over # Absent THEN Valid(w.over # Bad, Valid(w.over <= Whole, share))
                          ELSE When(w.limit # Absent /\ w.left # Absent, amounts)
      <4>1. CopilotSnapshot(reply, l) = Valid(w.limit # Bad /\ w.left # Bad, When(w.limit # 0, shown))
        BY DEF CopilotSnapshot, w, amounts, share
      <4>2. w.limit # Bad /\ w.left # Bad /\ w.limit # 0 => Backs(W, shown)
        BY <3>4, <3>5
      <4> HIDE DEF shown
      <4> QED BY <4>1, <4>2
    <3>7. Backs(W, CopilotLegacy(reply, l))
      <4> DEFINE shown == When(w.left # Absent /\ w.limit # 0, amounts)
      <4>1. CopilotLegacy(reply, l) = Valid(w.limit # Bad, When(w.limit # Absent, Valid(w.left # Bad, shown)))
        BY DEF CopilotLegacy, w, amounts
      <4>2. w.limit # Bad /\ w.left # Bad => Backs(W, shown)
        BY <3>2
      <4> HIDE DEF shown
      <4> QED BY <4>1, <4>2
    <3> QED BY <3>6, <3>7
  <2>3. ASSUME NEW reply, Recalled(W, reply)
        PROVE  Backs(W, CopilotWindows(reply))
    <3> DEFINE snapshots == When(reply.says # "unlimited", CopilotSnapshot(reply, "premium"))
                              ++ CopilotSnapshot(reply, "chat")
               shown == IF ~Open(snapshots) /\ snapshots.shows = {}
                        THEN CopilotLegacy(reply, "monthly") ELSE snapshots
    <3>1. CopilotWindows(reply) = OrElse(shown, "QuotaUnavailable")
      BY DEF CopilotWindows
    <3>2. Backs(W, snapshots)
      BY <2>2, <2>3
    <3> HIDE DEF snapshots
    <3>3. Backs(W, shown)
      BY <2>2, <2>3, <3>2
    <3> HIDE DEF shown
    <3> QED BY <3>1, <3>3
  <2>4. \A of : Backs(W, CopilotUsage(r, of))
    BY <2>3 DEF CopilotUsage
  <2> QED BY <2>1, <2>4 DEF Copilot
<1>4. Backs(W, Cursor(r))
  <2>1. Backs(W, CursorToken(r))
    <3> DEFINE state == Native(r, "state", {"Authentication", "CredentialStorage", "InvalidData"},
                               Having(r.state.of))
               keychain == Native(r, "keychain", KeychainErrors \ {"Internal"}, Having(r["keychain"].of))
               native == IF "state" \in DOMAIN r
                         THEN IF r.state.error = None /\ r.state.says = "ok" THEN state ELSE keychain
                         ELSE state
    <3>1. CursorToken(r) = Explicit(r, native)
      BY DEF CursorToken
    <3>2. Backs(W, state) /\ Backs(W, keychain)
      OBVIOUS
    <3> HIDE DEF state, keychain
    <3>3. Backs(W, native)
      BY <3>2
    <3> HIDE DEF native
    <3> QED BY <3>1, <3>3, CredentialsBack
  <2>2. ASSUME NEW reply, Recalled(W, reply)
        PROVE  Backs(W, CursorSummary(reply))
    <3> DEFINE lanes == When(reply.says = "plan", Noted(Plain(reply, "plan"), "cursor_plan"))
                          ++ MayHave(reply, "demand", Noted(Plain(reply, "demand"), "cursor_onDemand"))
               account == Measured(reply, "usage", Absent, Absent, Absent)
               v == [account EXCEPT !.quota = Unlimited]
               shown == Shows(IF reply.says = "unlimited" THEN v ELSE account)
    <3>1. CursorSummary(reply) = lanes ++ When(lanes.shows = {}, shown)
      BY DEF CursorSummary
    <3>2. Backs(W, lanes)
      BY <2>2, LanesBack, GuardsBack
    <3>3. Backed(W, account) /\ Backed(W, v)
      <4>1. Borne(W, "usage", Unlimited)
        BY QuotasBorne
      <4> QED BY <4>1, WindowsBack
    <3> HIDE DEF lanes, account, v
    <3>4. Backs(W, shown)
      BY <3>3
    <3> HIDE DEF shown
    <3> QED BY <3>1, <3>2, <3>4
  <2>3. \A reply : Recalled(W, reply) => Backs(W, CursorPeriod(reply))
    BY LanesBack, GuardsBack DEF CursorPeriod
  <2>4. ASSUME NEW of
        PROVE  Backs(W, CursorUsage(r, of))
    <3> DEFINE summary == Request(r, "summary", of, [plan |-> ULL, demand |-> ULL],
                                  {"plan", "unlimited", "neither", "malformed"},
                            Valid(r.summary.says # "malformed", CursorSummary(r.summary)))
               period == Usage(of, Request(r, "period", of, [total |-> P, models |-> P], {"ok", "ended"},
                                     CursorPeriod(r.period)))
               both == Join(Noted(summary, "cursor_usage_summary"), Noted(period, "cursor_current_period"))
               shown == IF summary.error # None /\ period.error # None THEN Fails(summary.error) ELSE both
    <3>1. CursorUsage(r, of) = Owned(of, shown)
      BY DEF CursorUsage
    <3>2. Backs(W, summary) /\ Backs(W, period)
      BY <2>2, <2>3
    <3> HIDE DEF summary, period
    <3>3. Backs(W, both)
      BY <3>2
    <3> HIDE DEF both
    <3>4. Backs(W, shown)
      BY <3>3
    <3> HIDE DEF shown
    <3> QED BY <3>1, <3>4
  <2> QED BY <2>1, <2>4 DEF Cursor
<1>5. Backs(W, Grok(r))
  <2>1. ASSUME NEW reply, Recalled(W, reply)
        PROVE  Backs(W, GrokWindows(reply))
    <3> DEFINE credits == Wire(reply, "credits")
               cap == Wire(reply, "cap").limit
               used == IF credits.spent = Bad THEN Absent
                       ELSE IF credits.spent # Absent /\ credits.spent > Whole THEN Absent
                       ELSE credits.spent
               extra == Measured(reply, "cap", Absent, Absent, Absent)
               quota == IF cap = Absent THEN Unknown ELSE IF cap = 0 THEN Off ELSE Capped
               v == [extra EXCEPT !.quota = quota]
               noted == When(used = Absent /\ credits.spent # Absent, Notes("grok_credits", "InvalidData"))
               share == Window(reply, "credits", used, Whole, Absent)
               more == IF cap = Bad THEN Shows(extra) ++ Notes("grok_extra_usage", "InvalidData") ELSE Shows(v)
    <3>1. GrokWindows(reply) = Valid(reply.says = "ok", noted ++ share ++ more)
      BY DEF GrokWindows
    <3>2. Bears(W, "credits", Less(Whole, used)) /\ Bears(W, "credits", Absent) /\ Whole \in Nat
      <4>1. Less(Whole, Absent) = Absent /\ Whole \in Nat
        BY DEF Less, Whole
      <4>2. credits.spent # Bad => Bears(W, "credits", Less(Whole, credits.spent))
        BY LanesTell, <2>1 DEF LaneTells
      <4> QED BY <4>1, <4>2, HeardBears
    <3>3. Borne(W, "cap", quota)
      BY QuotasBorne
    <3> HIDE DEF quota, used
    <3>4. Backed(W, extra) /\ Backed(W, v) /\ Backs(W, share)
      BY <3>2, <3>3, WindowsBack DEF Leaves
    <3> HIDE DEF extra, v, share, cap
    <3>5. Backs(W, noted) /\ Backs(W, more)
      BY <3>4
    <3> HIDE DEF noted, more
    <3> QED BY <3>1, <3>4, <3>5
  <2>2. ASSUME NEW of
        PROVE  Backs(W, GrokUsage(r, of))
    <3> DEFINE billing == Request(r, "billing", of, [credits |-> P, cap |-> {"limit"}], {"ok", "malformed"},
                                  GrokWindows(r.billing))
               plan_ == Request(r, "settings", of, NoLanes, {"named", "unnamed"},
                          Valid(r.settings.says = "named", Nothing))
    <3>1. GrokUsage(r, of) = Owned(of, Join(billing, Noted(plan_, "grok_settings")))
      BY DEF GrokUsage
    <3>2. Backs(W, billing) /\ Backs(W, plan_)
      BY <2>1
    <3> HIDE DEF billing, plan_
    <3> QED BY <3>1, <3>2
  <2>3. Backs(W, Explicit(r, Native(r, "file", {"Authentication", "CredentialStorage", "InvalidData"},
                                    Having(r["file"].of))))
    BY CredentialsBack
  <2> QED BY <2>2, <2>3 DEF Grok
<1> QED BY <1>1, <1>2, <1>3, <1>4, <1>5

\* Codex, Amp and Factory.
LEMMA AgentsBack ==
  ASSUME NEW W, NEW r, Hearing(W, r)
  PROVE  /\ Backs(W, CodexLocal(r))
         /\ Backs(W, CodexApi(r))
         /\ \A of : Backs(W, AmpApi(r, of))
         /\ Backs(W, AmpLocal(r))
         /\ Backs(W, FactoryLocal(r))
         /\ Backs(W, FactoryOAuth(r))
<1>0. \A s : Has(r, s) => Recalled(W, r[s])
  BY Recollection
<1> USE <1>0, OutcomesBack, WaysBack, StepsBack
<1>1. \A reply : Recalled(W, reply) => Backs(W, CodexWindows(reply))
  <2> SUFFICES ASSUME NEW reply, Recalled(W, reply) PROVE Backs(W, CodexWindows(reply))
    OBVIOUS
  <2>1. \A l : Backs(W, CodexWindow(reply, l))
    BY PercentsBack DEF CodexWindow
  <2> QED BY <2>1 DEF CodexWindows
<1>2. \A of, extra : Backs(W, extra) => Backs(W, CodexSupplement(r, of, extra))
  <2> SUFFICES ASSUME NEW of, NEW extra, Backs(W, extra) PROVE Backs(W, CodexSupplement(r, of, extra))
    OBVIOUS
  <2> DEFINE inventory == Request(r, "inventory", of, NoLanes, {"ok", "malformed"},
                            Valid(r.inventory.says = "ok", Nothing))
             profile == Request(r, "profile", of, NoLanes, {"ok", "malformed"},
                          Valid(r.profile.says = "ok", Nothing))
  <2>1. Backs(W, inventory) /\ Backs(W, profile)
    OBVIOUS
  <2>2. CodexSupplement(r, of, extra) =
          Join(Join(Noted(extra, "codex_extra_usage"), Noted(inventory, "codex_reset_credits")),
               Noted(profile, "codex_profile"))
    BY DEF CodexSupplement
  <2> HIDE DEF inventory, profile
  <2> QED BY <2>1, <2>2
<1>3. Backs(W, CodexLocal(r))
  <2>1. \A s, o : Backs(W, o) => Backs(W, CodexAccount(r, s, o))
    BY DEF CodexAccount
  <2>2. Backs(W, CodexLocalSupplement(r))
    <3> DEFINE of == r["credential"].of
               extra == Request(r, "extra_usage", of, [extra |-> L], {"ok"}, May(r.extra_usage, "extra"))
    <3>1. Backs(W, extra)
      BY LanesBack
    <3>2. CodexLocalSupplement(r) =
            Optional(Step(r, Question("credential", Login, NoLanes, {"ok"}, {"Timeout", "Authentication"}),
                          CodexSupplement(r, of, extra)))
      BY DEF CodexLocalSupplement
    <3> HIDE DEF extra
    <3> QED BY <1>2, <3>1, <3>2
  <2> DEFINE owned == Owned(r.after.of, CodexWindows(r.limits) ++ CodexLocalSupplement(r))
             after == CodexAccount(r, "after", Valid(r.before.like = r.after.like, owned))
  <2>3. Has(r, "limits") => Backs(W, owned)
    BY <1>1, <2>2
  <2>4. CodexLocal(r) =
          CodexAccount(r, "before",
            Step(r, Question("limits", Login, CodexLanes, CodexCases, ProcessErrors), after))
    BY DEF CodexLocal
  <2> HIDE DEF owned
  <2>5. Has(r, "limits") => Backs(W, after)
    BY <2>1, <2>3
  <2> HIDE DEF after
  <2> QED BY <2>1, <2>4, <2>5
<1>4. Backs(W, CodexApi(r))
  <2>1. Backs(W, CodexSupplement(r, r.usage.of, Nothing))
    BY <1>2
  <2> QED BY <1>1, <2>1, LanesBack DEF CodexApi
<1>5. \A reply : Recalled(W, reply) => Backs(W, AmpText(reply))
  <2> SUFFICES ASSUME NEW reply, Recalled(W, reply) PROVE Backs(W, AmpText(reply))
    OBVIOUS
  <2>1. Backs(W, AmpFree(reply))
    <3> DEFINE w == Wire(reply, "free")
               share == Percent(reply, "free", FromLeft(w.over), Absent)
               plain == Plain(reply, "free")
               few == w.limit > 0 /\ w.left <= w.limit
               both == IF w.left # Absent /\ w.limit # Absent
                       THEN Needs(reply, "free", LL, Valid(few, plain))
                       ELSE Needs(reply, "free", {"over"}, Valid(w.over <= Whole, share))
    <3>1. AmpFree(reply) = MayHave(reply, "free", both)
      BY DEF AmpFree
    <3>2. Given(w.over) => Backs(W, share)
      BY PercentsBack DEF Given, Entitled
    <3>3. Backs(W, plain)
      BY LanesBack
    <3> HIDE DEF share, plain, few
    <3>4. (\A f \in {"over"} : Given(w[f])) => Backs(W, Valid(w.over <= Whole, share))
      BY <3>2
    <3>5. /\ Backs(W, Needs(reply, "free", {"over"}, Valid(w.over <= Whole, share)))
          /\ Backs(W, Needs(reply, "free", LL, Valid(few, plain)))
      BY <3>3, <3>4, GuardsBack
    <3>6. Backs(W, both)
      BY <3>5
    <3> HIDE DEF both
    <3> QED BY <3>1, <3>6, GuardsBack
  <2>2. Backs(W, AmpCredits(reply))
    <3> DEFINE w == Wire(reply, "credits")
               used == IF w.limit = Absent THEN Absent ELSE w.limit - w.left
               v == [Measured(reply, "credits", used, w.limit, w.left) EXCEPT !.quota = Unknown]
    <3>1. AmpCredits(reply) =
            MayHave(reply, "credits", Needs(reply, "credits", L, Valid(w.limit # Bad, Shows(v))))
      BY DEF AmpCredits
    <3>2. Backed(W, v)
      <4>1. Borne(W, "credits", Unknown)
        BY QuotasBorne
      <4> QED BY <4>1, WindowsBack
    <3> HIDE DEF w, v
    <3>3. Backs(W, Valid(w.limit # Bad, Shows(v)))
      BY <3>2
    <3> QED BY <3>1, <3>3, GuardsBack
  <2>3. Backs(W, OrElse(AmpFree(reply) ++ AmpCredits(reply), "InvalidData"))
    BY <2>1, <2>2
  <2> QED BY <2>3 DEF AmpText
<1>6. \A of : Backs(W, AmpApi(r, of))
  BY <1>5 DEF AmpApi
<1>7. Backs(W, AmpLocal(r))
  <2> DEFINE run == Step(r, Question("program", Login, AmpLanes, AmpCases, ProcessErrors), AmpText(r.program))
             key == Explicit(r,
                      Step(r, Question("secrets", Login, NoLanes, {"ok", "missing"},
                                       {"Authentication", "InvalidData", "Internal"}),
                           Having(IF r.secrets.says = "ok" THEN r.secrets.of ELSE None)))
             asked == IF key.account = None THEN run ELSE AmpApi(r, key.account)
             shown == IF r.url.says = "other" THEN run ELSE Using(key, asked)
  <2>1. AmpLocal(r) = Setting(r, "url", {"public", "other"}, shown)
    BY DEF AmpLocal
  <2>2. Backs(W, run)
    BY <1>5
  <2>3. Backs(W, key)
    BY CredentialsBack
  <2> HIDE DEF run, key
  <2>4. Backs(W, asked)
    BY <1>6, <2>2
  <2> HIDE DEF asked
  <2>5. Backs(W, shown)
    BY <2>2, <2>3, <2>4
  <2> HIDE DEF shown
  <2> QED BY <2>1, <2>5
<1>8. \A reply : Recalled(W, reply) => Backs(W, FactoryWindows(reply))
  <2> SUFFICES ASSUME NEW reply, Recalled(W, reply) PROVE Backs(W, FactoryWindows(reply))
    OBVIOUS
  <2>1. \A l : Backs(W, FactoryPool(reply, l))
    BY PercentsBack DEF FactoryPool
  <2>2. Backs(W, Percent(reply, "billing", Unknown, Absent)) /\ Backs(W, May(reply, "balance"))
    BY PercentsBack, LanesBack
  <2> QED BY <2>1, <2>2 DEF FactoryWindows
<1>9. Backs(W, FactoryLocal(r))
  BY <1>8 DEF FactoryLocal
<1>10. Backs(W, FactoryOAuth(r))
  BY <1>8 DEF FactoryOAuth
<1> QED BY <1>3, <1>4, <1>6, <1>7, <1>9, <1>10

\* Antigravity: its services, the login of the keychain and the program's own service.
LEMMA BasesBack ==
  ASSUME NEW W, NEW r, Hearing(W, r)
  PROVE  /\ \A s : Has(r, s) => Backs(W, Fraction(r[s], "model"))
         /\ \A base, of, expected : Backs(W, AntigravityBase(r, base, of, expected))
<1>0. \A s : Has(r, s) => Recalled(W, r[s])
  BY Recollection
<1> USE <1>0, OutcomesBack, WaysBack, StepsBack
<1>1. \A s : Has(r, s) => Backs(W, Fraction(r[s], "model"))
  <2> SUFFICES ASSUME NEW s, Has(r, s) PROVE Backs(W, Fraction(r[s], "model"))
    OBVIOUS
  <2> DEFINE over == Wire(r[s], "model").over
             share == Percent(r[s], "model", FromLeft(over), Absent)
  <2>1. Fraction(r[s], "model") = Valid(over # Bad, Valid(over # Absent => over <= Whole, share))
    BY DEF Fraction
  <2>2. over # Bad => Backs(W, share)
    BY PercentsBack DEF Entitled
  <2> HIDE DEF over, share
  <2>3. over # Bad => Backs(W, Valid(over # Absent => over <= Whole, share))
    BY <2>2
  <2> QED BY <2>1, <2>3
<1>2. \A s, of, lanes, o : (Has(r, s) => Backs(W, o)) => Backs(W, QuotaRequest(r, s, of, lanes, o))
  BY DEF QuotaRequest
<1>3. \A base, of : Backs(W, AntigravityModels(r, base, of))
  <2> SUFFICES ASSUME NEW base, NEW of PROVE Backs(W, AntigravityModels(r, base, of))
    OBVIOUS
  <2> DEFINE shown == Fraction(r[base.quota], "model")
             known == IF \E w \in shown.shows : w.quota = Unknown THEN Fails("QuotaUnavailable") ELSE shown
             buckets == QuotaRequest(r, base.quota, of, [model |-> {"over"}], known)
             listed == QuotaRequest(r, base.models, of, [model |-> {"over"}], Fraction(r[base.models], "model"))
             refused == base.models \in DOMAIN r /\ r[base.models].error \in {"QuotaUnavailable", "Unavailable"}
             inUse == \E w \in listed.shows : w.quota # Unknown /\ w.quota > 0
  <2>1. AntigravityModels(r, base, of) = IF refused \/ (~Open(listed) /\ ~inUse) THEN buckets ELSE listed
    BY DEF AntigravityModels
  <2>2. Backs(W, listed)
    BY <1>1, <1>2
  <2>3. Has(r, base.quota) => Backs(W, known)
    BY <1>1
  <2> HIDE DEF known
  <2>4. Backs(W, buckets)
    BY <1>2, <2>3
  <2> HIDE DEF listed, buckets, refused, inUse
  <2> QED BY <2>1, <2>2, <2>4
<1>4. \A s, of, o : Backs(W, o) => Backs(W, AntigravitySummary(r, s, of, o))
  <2> SUFFICES ASSUME NEW s, NEW of, NEW o, Backs(W, o) PROVE Backs(W, AntigravitySummary(r, s, of, o))
    OBVIOUS
  <2> DEFINE asked == QuotaRequest(r, s, of, [model |-> {"over"}], Fraction(r[s], "model"))
  <2>1. Backs(W, asked)
    BY <1>1, <1>2
  <2>2. AntigravitySummary(r, s, of, o) = Instead(asked, Undecided, o)
    BY DEF AntigravitySummary
  <2> HIDE DEF asked
  <2> QED BY <2>1, <2>2
<1>5. \A base, of, expected : Backs(W, AntigravityBase(r, base, of, expected))
  <2> SUFFICES ASSUME NEW base, NEW of, NEW expected PROVE Backs(W, AntigravityBase(r, base, of, expected))
    OBVIOUS
  <2> DEFINE who == base.who
             plan_ == base.plan
             models == AntigravityModels(r, base, of)
             summary == AntigravitySummary(r, base.summary, of, models)
             withProject == AntigravitySummary(r, base.project, of, summary)
             project == r[plan_].error = None /\ r[plan_].says = "project"
             subscribed == Step(r, Question(plan_, of, NoLanes, {"project", "none"}, QuotaErrors), Nothing)
             before == Instead(subscribed, Undecided \cup {"Transient", "Timeout"}, Nothing)
             quota == IF project THEN withProject ELSE summary
             whole == Owned(of, before ++ quota)
  <2>1. AntigravityBase(r, base, of, expected) =
          Request(r, who, of, NoLanes, {"ok", "unnamed"},
            Valid(r[who].says = "ok",
              Require(expected \in {None, r[who].of}, "Authentication", whole)))
    BY DEF AntigravityBase
  <2>2. Backs(W, summary)
    BY <1>3, <1>4
  <2> HIDE DEF summary
  <2>3. Backs(W, withProject)
    BY <1>4, <2>2
  <2>4. Backs(W, subscribed)
    OBVIOUS
  <2> HIDE DEF withProject, subscribed, project
  <2>5. Backs(W, before) /\ Backs(W, quota)
    BY <2>2, <2>3, <2>4
  <2> HIDE DEF before, quota
  <2>6. Backs(W, whole)
    BY <2>5
  <2> HIDE DEF whole, who
  <2>7. Backs(W, Require(expected \in {None, r[who].of}, "Authentication", whole))
    BY <2>6
  <2>8. Backs(W, Valid(r[who].says = "ok", Require(expected \in {None, r[who].of}, "Authentication", whole)))
    BY <2>7
  <2> QED BY <2>1, <2>8
<1> QED BY <1>1, <1>5

LEMMA AntigravityBack ==
  ASSUME NEW W, NEW r, Hearing(W, r)
  PROVE  Backs(W, Antigravity(r))
<1> USE OutcomesBack, WaysBack, StepsBack, BasesBack
<1>1. \A base, expected : Backs(W, AntigravitySession(r, base, expected))
  <2> SUFFICES ASSUME NEW base, NEW expected PROVE Backs(W, AntigravitySession(r, base, expected))
    OBVIOUS
  <2> DEFINE fails == {"Authentication", "LocalCredentialStorage", "Internal", "Unavailable"}
             usage == AntigravityBase(r, base, r[base.keychain].of, expected)
             again == Native(r, base.again, fails,
                        Require(r[base.again].of = r[base.keychain].of, "Authentication", Nothing))
  <2>1. AntigravitySession(r, base, expected) =
          Native(r, base.keychain, fails, Owned(r[base.keychain].of, usage ++ again))
    BY DEF AntigravitySession
  <2>2. Backs(W, usage) /\ Backs(W, again)
    OBVIOUS
  <2> HIDE DEF usage, again
  <2> QED BY <2>1, <2>2
<1>2. \A expected, error : Backs(W, AntigravityService(r, expected, error))
  <2> SUFFICES ASSUME NEW expected, NEW error PROVE Backs(W, AntigravityService(r, expected, error))
    OBVIOUS
  <2> DEFINE owner(s, o) == Run(r, s, {"ok", "unnamed"}, Require(r[s].says = "ok", "Authentication", o))
             after == owner("service_after",
                        Require(r.service_after.of = r.service_before.of, "Authentication", Nothing))
             quota == Step(r, Question("service_quota", Login, [model |-> {"over"}], {"ok", "empty"}, HttpErrors),
                        Require(r.service_quota.says = "ok", "QuotaUnavailable",
                          Fraction(r.service_quota, "model") ++ after))
             probe == owner("service_before",
                        Require(expected \in {None, r.service_before.of}, "Authentication", quota))
             found == Run(r, "services", {"none", "one", "several"},
                        Require(r.services.says # "none", "Unavailable",
                          Require(r.services.says = "one" \/ expected # None, "Authentication", probe)))
  <2>1. AntigravityService(r, expected, error) =
          Instead(Owned(r.service_before.of, found), {"Unavailable"}, Fails(error))
    BY DEF AntigravityService
  <2>2. \A s, o : Backs(W, o) => Backs(W, owner(s, o))
    OBVIOUS
  <2> HIDE DEF owner
  <2>3. Backs(W, after)
    BY <2>2
  <2> HIDE DEF after
  <2>4. Backs(W, quota)
    BY <2>3
  <2> HIDE DEF quota
  <2>5. Backs(W, probe)
    BY <2>2, <2>4
  <2> HIDE DEF probe
  <2>6. Backs(W, found)
    BY <2>5
  <2> HIDE DEF found
  <2> QED BY <2>1, <2>6
<1>3. \A daily, prod : Backs(W, daily) /\ Backs(W, prod) => Backs(W, AntigravityBases(daily, prod))
  BY DEF AntigravityBases
<1> DEFINE asked == AntigravityAsked(r)
           daily == AntigravitySession(r, Daily, None)
           prod == AntigravitySession(r, Prod, asked)
           native == AntigravityBases(daily, prod)
           token == Explicit(r, Having(None))
           first == AntigravityBase(r, Daily, token.account, None)
           second == AntigravityBase(r, Prod, token.account, asked)
           given == AntigravityBases(first, second)
           shown == IF token.account # None THEN given ELSE AntigravityNative(r, asked, native)
<1>4. Antigravity(r) = Using(token, shown)
  BY DEF Antigravity
<1>5. Backs(W, native)
  BY <1>1, <1>3
<1> HIDE DEF asked, native
<1>6. Backs(W, first) /\ Backs(W, second)
  OBVIOUS
<1> HIDE DEF first, second
<1>7. Backs(W, given)
  BY <1>3, <1>6
<1>8. Backs(W, AntigravityNative(r, asked, native))
  BY <1>2, <1>5 DEF AntigravityNative
<1>9. Backs(W, token)
  BY CredentialsBack
<1> HIDE DEF token, given
<1>10. Backs(W, shown)
  BY <1>7, <1>8
<1> HIDE DEF shown
<1> QED BY <1>4, <1>9, <1>10

LEMMA LocalBacks ==
  ASSUME NEW W, NEW r, Hearing(W, r), NEW p \in Providers
  PROVE  Backs(W, Local(p, r))
<1>1. CASE p \in CatalogKeys \cup KeyApis
  BY <1>1, KeysBack, PlansBack, GatewaysBack, InfrastructureBack DEF Local, CatalogKeys, KeyApis
<1>2. CASE p \in CatalogLogins
  BY <1>2, LoginsBack, CloudsBack, InfrastructureBack DEF Local, CatalogLogins
<1>3. CASE p \in Agents
  BY <1>3, AgentsBack, AntigravityBack DEF Local, Agents
<1> QED BY <1>1, <1>2, <1>3 DEF Providers

LEMMA QuotaBacks ==
  ASSUME NEW W, NEW r, Hearing(W, r), NEW p \in Providers, NEW kind
  PROVE  Backs(W, Quota(p, kind, r))
<1>1. /\ Backs(W, CodexApi(r)) /\ Backs(W, AmpApi(r, Self)) /\ Backs(W, FactoryOAuth(r))
      /\ Backs(W, Local(p, r))
  BY AgentsBack, LocalBacks
<1>2. Backs(W, Owned(r["limits"].of, KiroMetadata(r, KiroUsage(r, Self, kind = "borrowed"))))
  <2> DEFINE usage == KiroUsage(r, Self, kind = "borrowed")
  <2>1. Backs(W, usage)
    BY CloudsBack
  <2> HIDE DEF usage
  <2>2. Backs(W, KiroMetadata(r, usage))
    BY <2>1, CloudsBack
  <2>3. Backs(W, Owned(r["limits"].of, KiroMetadata(r, usage)))
    BY <2>2, WaysBack
  <2> QED BY <2>3 DEF usage
<1> QED BY <1>1, <1>2 DEF Quota

\* The vault shows nothing of its own.
LEMMA VaultsBack ==
  ASSUME NEW W, NEW r
  PROVE  /\ \A s, says, o : Backs(W, o) => Backs(W, Vault(r, s, says, o))
         /\ \A o : Backs(W, o) => Backs(W, Complete(o))
         /\ \A o, p : Backs(W, o) /\ Backs(W, p) => Backs(W, Then(o, p))
         /\ \A o : Backs(W, o) => Backs(W, VerifyCurrent(r, o))
<1>1. \A s, says, o : Backs(W, o) => Backs(W, Vault(r, s, says, o))
  BY StepsBack DEF Vault
<1>2. \A o : Backs(W, o) => Backs(W, Complete(o))
  BY WaysBack DEF Complete
<1>3. \A o, p : Backs(W, o) /\ Backs(W, p) => Backs(W, Then(o, p))
  BY WaysBack DEF Then
<1>4. ASSUME NEW o, Backs(W, o)
      PROVE  Backs(W, VerifyCurrent(r, o))
  <2>1. Backs(W, Require(r.verify.says = "same", "Busy", Nothing))
    BY OutcomesBack, WaysBack
  <2>2. Backs(W, Require(r.verify.says # "missing", "NotFound",
                   Require(r.verify.says = "same", "Busy", Nothing)))
    BY <2>1, WaysBack
  <2> QED BY <1>1, <1>2, <1>3, <1>4, <2>2 DEF VerifyCurrent
<1> QED BY <1>1, <1>2, <1>3, <1>4

LEMMA BorrowedBacks ==
  ASSUME NEW W, NEW r, NEW p, NEW quota, Backs(W, quota)
  PROVE  Backs(W, Borrowed(p, r, quota))
<1> DEFINE resolve(s, o) ==
             Step(r, Question(s, Login, NoLanes, {"ok", "expiring", "missing"},
                              VaultErrors \cup {"Authentication"}),
               Require(r[s].says # "missing", "NotFound", o))
           expired == IF p = "kiro" THEN Fails("OwnerRefreshRequired") ELSE Fails("Authentication")
           usable == ~(r.resolve.says = "expiring" /\ p \in {"kiro", "antigravity"})
           same == Require(/\ r["resolve_again"].of = r.resolve.of
                           /\ r["resolve_again"].says = r.resolve.says, "Busy", Nothing)
           shown == Complete(IF usable THEN quota ELSE expired)
<1>1. ASSUME NEW s, NEW o, Backs(W, o)
      PROVE  Backs(W, resolve(s, o))
  <2>1. Backs(W, Require(r[s].says # "missing", "NotFound", o))
    BY <1>1, WaysBack
  <2> QED BY <2>1, StepsBack
<1>2. Backs(W, shown)
  <2>1. Backs(W, expired)
    BY OutcomesBack
  <2> QED BY <2>1, VaultsBack
<1>3. Backs(W, same)
  BY OutcomesBack, WaysBack
<1>4. Borrowed(p, r, quota) = resolve("resolve", Then(shown, resolve("resolve_again", same)))
  BY DEF Borrowed
<1> HIDE DEF shown, same, resolve
<1>5. Backs(W, Then(shown, resolve("resolve_again", same)))
  BY <1>1, <1>2, <1>3, VaultsBack
<1> QED BY <1>1, <1>4, <1>5

LEMMA RenewedBacks ==
  ASSUME NEW W, NEW r, NEW p, NEW quota, Backs(W, quota)
  PROVE  Backs(W, Renewed(p, r, quota))
<1> DEFINE still(s, o) ==
             Require(r[s].says # "missing", "NotFound",
               Require(r[s].says # "disabled", "SourceDisabled",
                 Require(r[s].says # "changed", "Busy", o)))
           there(s, says, o) == Vault(r, s, {"disabled", "missing"} \cup says, still(s, o))
           installed == there("installed", {"ok", "changed"}, quota)
           rotate == Step(r, Question("rotate", Self, NoLanes, {"ok"}, HttpErrors), installed)
           fenced == Vault(r, "fence", {"ok", "missing", "changed"}, still("fence", rotate))
           next == IF r.latest.says = "renewed" THEN quota
                   ELSE IF p = "codex" THEN rotate ELSE fenced
<1>1. ASSUME NEW s, NEW o, Backs(W, o)
      PROVE  Backs(W, still(s, o))
  <2>1. Backs(W, Require(r[s].says # "changed", "Busy", o))
    BY <1>1, WaysBack
  <2>2. Backs(W, Require(r[s].says # "disabled", "SourceDisabled",
                   Require(r[s].says # "changed", "Busy", o)))
    BY <2>1, WaysBack
  <2> QED BY <2>2, WaysBack
<1>a. Renewed(p, r, quota) = there("latest", {"same", "renewed"}, next)
  BY DEF Renewed
<1> HIDE DEF still
<1>2. ASSUME NEW s, NEW says, NEW o, Backs(W, o)
      PROVE  Backs(W, there(s, says, o))
  BY <1>1, <1>2, VaultsBack
<1> HIDE DEF there
<1>3. Backs(W, installed)
  BY <1>2
<1> HIDE DEF installed
<1>4. Backs(W, rotate)
  BY <1>3, StepsBack
<1> HIDE DEF rotate
<1>5. Backs(W, fenced)
  BY <1>1, <1>4, VaultsBack
<1> HIDE DEF fenced
<1>6. Backs(W, next)
  BY <1>4, <1>5
<1> HIDE DEF next
<1> QED BY <1>2, <1>6, <1>a

LEMMA ManagedBacks ==
  ASSUME NEW W, NEW r, NEW later, NEW p, NEW kind \in {"key", "borrowed", "owned"},
         NEW quota, Backs(W, quota)
  PROVE  Backs(W, Managed(p, kind, r, later, quota))
<1> DEFINE read == CASE kind = "key" -> VerifyCurrent(r, quota)
                     [] kind = "borrowed" -> VerifyCurrent(r, Borrowed(p, r, quota))
                     [] kind = "owned" ->
                          IF r.read.says = "expiring" \/ Moved(r) \/ quota.error = "Authentication"
                          THEN Renewed(p, r, VerifyCurrent(later, quota))
                          ELSE VerifyCurrent(r, quota)
           sure == Require(r.read.says # "pending", "CommitUncertain", read)
           enabled == Require(r.read.says # "disabled", "SourceDisabled", sure)
           there == Require(r.read.says # "missing", "NotFound", enabled)
<1>1. Backs(W, read)
  <2>1. Backs(W, VerifyCurrent(r, quota)) /\ Backs(W, VerifyCurrent(later, quota))
    BY VaultsBack
  <2>2. Backs(W, VerifyCurrent(r, Borrowed(p, r, quota)))
    BY BorrowedBacks, VaultsBack
  <2>3. Backs(W, Renewed(p, r, VerifyCurrent(later, quota)))
    BY <2>1, RenewedBacks
  <2> QED BY <2>1, <2>2, <2>3
<1>a. \E says : Managed(p, kind, r, later, quota) = Vault(r, "read", says, there)
  BY DEF Managed
<1> HIDE DEF read
<1>2. Backs(W, sure)
  BY <1>1, WaysBack
<1> HIDE DEF sure
<1>3. Backs(W, enabled)
  BY <1>2, WaysBack
<1> HIDE DEF enabled
<1>4. Backs(W, there)
  BY <1>3, WaysBack
<1> HIDE DEF there
<1> QED BY <1>a, <1>4, VaultsBack

\* What a task comes to is borne out by what its replies say.
LEMMA OutcomeBacks ==
  ASSUME world.provider \in Providers, NEW kind \in Kinds, NEW W, NEW task,
         Hearing(W, task.first), Hearing(W, task.later)
  PROVE  Backs(W, Outcome(kind, task))
<1> DEFINE quota == Quota(world.provider, kind, Answers(task))
           managed == Managed(world.provider, kind, task.first, task.later, quota)
<1>1. Backs(W, quota)
  <2>1. Hearing(W, Answers(task))
    BY DEF Answers
  <2> QED BY <2>1, QuotaBacks
<1>a. Outcome(kind, task) = OfKind(kind, quota, managed)
  BY DEF Outcome, Fetched
<1> HIDE DEF quota
<1>2. kind \in {"key", "borrowed", "owned"} => Backs(W, managed)
  BY <1>1, ManagedBacks
<1> HIDE DEF managed
<1>3. \A e : Backs(W, Fails(e))
  BY OutcomesBack
<1>4. Backs(W, OfKind(kind, quota, managed))
  BY <1>1, <1>2, <1>3 DEF OfKind, Kinds
<1> QED BY <1>a, <1>4

\* The replies of a task carry numbers, and its windows are borne out by them.
Legible(r) == \A s \in DOMAIN r : r[s].error = None => Numbered(r[s].wire)
SaidTo(task) == Said(task.first) \cup Said(task.later)
Witnessed(task) ==
  /\ DOMAIN task = {"attempt", "first", "later", "sent", "result"}
  /\ Legible(task.first) /\ Legible(task.later)
  /\ \A w \in task.result.shows : Backed(SaidTo(task), w)

LEMMA LegibleHeard ==
  ASSUME NEW task, Legible(task.first), Legible(task.later)
  PROVE  Hearing(SaidTo(task), task.first) /\ Hearing(SaidTo(task), task.later)
<1>1. ASSUME NEW r, Legible(r), Said(r) \subseteq SaidTo(task)
      PROVE  Hearing(SaidTo(task), r)
  BY <1>1 DEF Hearing, Recalled, Legible, Said
<1>2. Said(task.first) \subseteq SaidTo(task) /\ Said(task.later) \subseteq SaidTo(task)
  BY DEF SaidTo
<1> QED BY <1>1, <1>2

LEMMA EndedWitnessed ==
  ASSUME NEW task, DOMAIN task = {"attempt", "first", "later", "sent", "result"},
         Legible(task.first), Legible(task.later), NEW o, Backs(SaidTo(task), o)
  PROVE  Witnessed(Ended(task, o))
<1> DEFINE ended == Ended(task, o)
<1>1. /\ DOMAIN ended = DOMAIN task /\ ended.result = o
      /\ ended.first = IF o.error = None THEN task.first ELSE <<>>
      /\ ended.later = IF o.error = None THEN task.later ELSE <<>>
  BY DEF Ended
<1> HIDE DEF ended
<1>2. Legible(<<>>)
  BY DEF Legible
<1>3. CASE o.error = None
  <2>1. SaidTo(ended) = SaidTo(task)
    BY <1>1, <1>3 DEF SaidTo
  <2> QED BY <1>1, <1>3, <2>1 DEF Witnessed, Backs, ended
<1>4. CASE o.error # None
  BY <1>1, <1>2, <1>4 DEF Witnessed, Backs, ended
<1> QED BY <1>3, <1>4

LEMMA SettledWitnessed ==
  ASSUME world.provider \in Providers, NEW kind \in Kinds, NEW task,
         DOMAIN task = {"attempt", "first", "later", "sent", "result"},
         Legible(task.first), Legible(task.later)
  PROVE  Witnessed(Settled(kind, task))
<1> DEFINE W == SaidTo(task)
           o == Outcome(kind, task)
           fresh == Outcome(kind, NewTask)
<1>1. Backs(W, o)
  BY LegibleHeard, OutcomeBacks
<1>2. Settled(kind, task) = Settle(kind, task, o)
  BY DEF Settled
<1> HIDE DEF o
<1>3. CASE o.asks # {}
  <2> DEFINE asking == [task EXCEPT !.result = o]
  <2>1. /\ DOMAIN asking = DOMAIN task /\ asking.result = o
        /\ asking.first = task.first /\ asking.later = task.later
    OBVIOUS
  <2>2. Settled(kind, task) = asking
    BY <1>2, <1>3 DEF Settle
  <2> HIDE DEF asking
  <2>3. SaidTo(asking) = SaidTo(task)
    BY <2>1 DEF SaidTo
  <2> QED BY <1>1, <2>1, <2>2, <2>3 DEF Witnessed, Backs
<1>4. CASE o.asks = {} /\ Retriable(kind, task, o.error)
  <2> DEFINE again == [NewTask EXCEPT !.attempt = task.attempt + 1, !.sent = task.sent, !.result = fresh]
  <2>1. Settled(kind, task) = again
    BY <1>2, <1>4 DEF Settle
  <2>2. /\ DOMAIN again = {"attempt", "first", "later", "sent", "result"}
        /\ again.first = <<>> /\ again.later = <<>> /\ again.result = fresh
        /\ NewTask.first = <<>> /\ NewTask.later = <<>>
    BY DEF NewTask
  <2> HIDE DEF again
  <2>3. Legible(<<>>)
    BY DEF Legible
  <2>4. SaidTo(again) = SaidTo(NewTask)
    BY <2>2 DEF SaidTo
  <2>5. Backs(SaidTo(NewTask), fresh)
    BY <2>2, <2>3, LegibleHeard, OutcomeBacks
  <2> HIDE DEF fresh
  <2> QED BY <2>1, <2>2, <2>3, <2>4, <2>5 DEF Witnessed, Backs
<1>5. CASE o.asks = {} /\ ~Retriable(kind, task, o.error)
  <2>1. Settled(kind, task) = Ended(task, Accepted(o))
    BY <1>2, <1>5 DEF Settle
  <2>2. Backs(W, Accepted(o))
    BY <1>1, OutcomesBack DEF Accepted
  <2> QED BY <2>1, <2>2, EndedWitnessed
<1> QED BY <1>3, <1>4, <1>5

\* However a lane is out of the ordinary, it has numbers or what stands for none.
LEMMA LanesNumbered ==
  ASSUME NEW lanes
  PROVE  /\ Numbered(Ordinary(lanes))
         /\ \A wire \in OutOfOrdinary(lanes) : Numbered(wire)
<1> DEFINE Values == Nat \cup {Absent, Bad}
           Laid == [Fields -> Values]
<1>1. Numbers \subseteq Values
  BY DEF Numbers, Whole
<1>2. Typical \in Laid
  BY DEF Typical, Fields, Whole
<1>3. \A fields : \A n \in Laid : Lane(fields, n) \in Laid
  BY DEF Lane
<1>4. \A fields : \A lane \in OddLanes(fields) : lane \in Laid
  <2> SUFFICES ASSUME NEW fields, NEW lane \in OddLanes(fields) PROVE lane \in Laid
    OBVIOUS
  <2>1. CASE lane = Lane({}, Typical)
    BY <1>2, <1>3, <2>1
  <2>2. CASE lane # Lane({}, Typical)
    <3>1. PICK f \in fields, g \in fields, m \in Numbers, n \in Numbers :
                 lane = Lane(fields, [Typical EXCEPT ![f] = m, ![g] = n])
      BY <2>2 DEF OddLanes
    <3> DEFINE odd_ == [Typical EXCEPT ![f] = m, ![g] = n]
    <3>2. m \in Values /\ n \in Values
      BY <1>1
    <3> HIDE DEF Values
    <3>3. odd_ \in Laid
      BY <1>2, <3>2
    <3> HIDE DEF odd_, Laid
    <3>4. Lane(fields, odd_) \in Laid
      BY <1>3, <3>3
    <3> QED BY <3>1, <3>4 DEF odd_
  <2> QED BY <2>1, <2>2
<1>5. DOMAIN Ordinary(lanes) = DOMAIN lanes /\ \A l \in DOMAIN lanes : Ordinary(lanes)[l] \in Laid
  <2>1. \A l \in DOMAIN lanes : Lane(lanes[l], Typical) \in Laid
    BY <1>2, <1>3
  <2> HIDE DEF Laid
  <2> QED BY <2>1 DEF Ordinary
<1>6. ASSUME NEW wire \in OutOfOrdinary(lanes)
      PROVE  \A k \in DOMAIN wire : wire[k] \in Laid
  <2>1. PICK l \in DOMAIN lanes : wire \in {[Ordinary(lanes) EXCEPT ![l] = lane] : lane \in OddLanes(lanes[l])}
    BY DEF OutOfOrdinary
  <2>2. PICK lane \in OddLanes(lanes[l]) : wire = [Ordinary(lanes) EXCEPT ![l] = lane]
    BY <2>1
  <2>3. lane \in Laid
    BY <1>4
  <2> HIDE DEF Laid
  <2> QED BY <1>5, <2>2, <2>3
<1> QED BY <1>5, <1>6 DEF Numbered

HInv == \A t \in DOMAIN plan : Witnessed(tasks[t])

LEMMA InitHInv == Init => HInv
<1> SUFFICES ASSUME Init, NEW t \in DOMAIN plan PROVE Witnessed(tasks[t])
  BY DEF HInv
<1>1. world.provider \in Providers /\ plan[t].kind \in Kinds
  BY InitIInv, EntriesKnown
<1>2. /\ DOMAIN NewTask = {"attempt", "first", "later", "sent", "result"}
      /\ NewTask.first = <<>> /\ NewTask.later = <<>>
  BY DEF NewTask
<1>3. Legible(<<>>)
  BY DEF Legible
<1>4. tasks[t] = Settled(plan[t].kind, NewTask)
  BY DEF Init
<1> QED BY <1>1, <1>2, <1>3, <1>4, SettledWitnessed

LEMMA ProceedWitnessed ==
  ASSUME IInv, HInv, NEW t \in DOMAIN plan, Proceed(t)
  PROVE  HInv'
<1> DEFINE kind == plan[t].kind
           task == tasks[t]
<1>1. PICK q \in task.result.asks : \E reply \in Replies(t, q) : Told(t, q, reply)
  BY DEF Proceed
<1>2. PICK reply \in Replies(t, q) : Told(t, q, reply)
  BY <1>1
<1>3. UNCHANGED <<world, plan>> /\ DOMAIN tasks = DOMAIN plan
  BY DEF Proceed, IInv
<1>4. Numbered(reply.wire)
  <2> DEFINE answer(error, says, wire) ==
               [error |-> error, says |-> says, wire |-> wire, of |-> Asker(t, q.of),
                like |-> Looks(Asker(t, q.of))]
             more == odd + faults < MaxTrouble(world)
             wires == IF more /\ odd < MaxOdd(world) THEN OutOfOrdinary(q.lanes) ELSE {}
             errors == IF more THEN q.fails ELSE {}
  <2>1. \/ \E says \in Says(t, q), wire \in {Ordinary(q.lanes)} \cup wires : reply = answer(None, says, wire)
        \/ \E error \in errors : reply = answer(error, None, Ordinary(q.lanes))
    BY DEF Replies
  <2>2. wires \subseteq OutOfOrdinary(q.lanes)
    OBVIOUS
  <2> HIDE DEF wires, errors
  <2>3. reply.wire \in {Ordinary(q.lanes)} \cup OutOfOrdinary(q.lanes)
    BY <2>1, <2>2
  <2> QED BY <2>3, LanesNumbered
<1> DEFINE moved == Moved(task.first)
           sent == IF q.step = "rotate" THEN 1 ELSE 0
           heard == [task EXCEPT !.first = IF moved THEN @ ELSE With(@, q.step, reply),
                                 !.later = IF moved THEN With(@, q.step, reply) ELSE @,
                                 !.sent = @ + sent]
<1>5. tasks' = [tasks EXCEPT ![t] = Settled(kind, heard)]
  BY <1>2 DEF Told
<1>6. DOMAIN task = {"attempt", "first", "later", "sent", "result"} /\ Legible(task.first) /\ Legible(task.later)
  BY DEF HInv, Witnessed
<1>7. /\ DOMAIN heard = {"attempt", "first", "later", "sent", "result"}
      /\ heard.first = IF moved THEN task.first ELSE With(task.first, q.step, reply)
      /\ heard.later = IF moved THEN With(task.later, q.step, reply) ELSE task.later
  BY <1>6
<1> HIDE DEF heard
<1>8. \A r : Legible(r) => Legible(With(r, q.step, reply))
  BY <1>4 DEF Legible, With
<1>9. Legible(heard.first) /\ Legible(heard.later)
  BY <1>6, <1>7, <1>8
<1>10. Witnessed(Settled(kind, heard))
  BY <1>7, <1>9, EntriesKnown, SettledWitnessed
<1> QED BY <1>3, <1>5, <1>10 DEF HInv

LEMMA StoppedWitnessed ==
  ASSUME HInv, NEW t \in DOMAIN plan, NEW error
  PROVE  Witnessed(Ended(tasks[t], Fails(error)))
BY OutcomesBack, EndedWitnessed DEF HInv, Witnessed

LEMMA NextWitnessed ==
  ASSUME IInv, HInv, [Next]_vars
  PROVE  HInv'
<1>1. ASSUME NEW t \in DOMAIN plan, Proceed(t) PROVE HInv'
  BY <1>1, ProceedWitnessed
<1>2. ASSUME NEW t \in DOMAIN plan, Expire(t) \/ Panic(t) PROVE HInv'
  <2>1. PICK error : tasks' = [tasks EXCEPT ![t] = Ended(tasks[t], Fails(error))]
    BY <1>2 DEF Expire, Panic
  <2>2. plan' = plan
    BY <1>2 DEF Expire, Panic
  <2>3. Witnessed(Ended(tasks[t], Fails(error)))
    BY StoppedWitnessed
  <2> QED BY <2>1, <2>2, <2>3 DEF HInv, IInv
<1>3. CASE Cancel
  <2>1. \A t \in DOMAIN plan : Witnessed(Ended(tasks[t], Fails("Cancelled")))
    BY StoppedWitnessed
  <2> QED BY <1>3, <2>1 DEF Cancel, HInv
<1>4. CASE Switch \/ UNCHANGED vars
  BY <1>4 DEF Switch, vars, HInv
<1> QED BY <1>1, <1>2, <1>3, <1>4 DEF Next

\* Whatever numbers the providers answer, missing and malformed ones among them, no window is shown
\* used up unless a reply of that attempt says that nothing is left of it, nor available unless one
\* says that something is (Quota::from_used, common::window and every adapter's normalisation).
THEOREM ShownHonestly == Spec => []Honest
<1>1. IInv /\ HInv => Honest
  <2> SUFFICES ASSUME HInv, NEW t \in DOMAIN plan, NEW w \in tasks[t].result.shows
               PROVE  /\ w.quota = Whole => NothingLeft(Wires(t), w.lane)
                      /\ w.quota \in 0..Whole - 1 => SomethingLeft(Wires(t), w.lane)
    BY DEF Honest
  <2>1. Backed(SaidTo(tasks[t]), w) /\ Wires(t) = SaidTo(tasks[t])
    BY DEF HInv, Witnessed, SaidTo, Wires
  <2> QED BY <2>1 DEF Backed, Borne
<1>2. Spec => [](IInv /\ HInv)
  BY InitIInv, InitHInv, NextKeeps, NextWitnessed, PTL DEF Spec
<1> QED BY <1>1, <1>2, PTL
==============================================================================
