---------------------------- MODULE AgentAdapters ----------------------------
(***************************************************************************)
(* The coding agents: Codex, Amp, Factory, Antigravity and Devin Desktop.   *)
(* Most are asked who is logged in before and after what is used, since the *)
(* login of their own program may change in between.                        *)
(***************************************************************************)
EXTENDS Flows

(* Codex ------------------------------------------------------------------- *)

(* account/read of the app server. *)
CodexAccount(r, s, o) ==
  Run(r, s, {"chatgpt", "none", "unnamed"},
    Require(r[s].says # "none", "Authentication", Valid(r[s].says # "unnamed", o)))

(* A window without a percentage is unknown; more than the whole is the whole. *)
CodexWindow(reply, lane) ==
  LET spent == Wire(reply, lane).spent
  IN  Valid(spent # Bad, Percent(reply, lane, FromUsed(spent), Absent))

CodexWindows(reply) ==
  Valid(reply.says # "no_bucket",
    When(reply.says # "no_windows", CodexWindow(reply, "primary"))
    ++ When(reply.says = "both", CodexWindow(reply, "secondary")))

CodexLanes == [primary |-> P, secondary |-> P]
CodexCases == {"both", "primary", "no_windows", "no_bucket"}

(* What the credential is asked for besides the windows: three requests at   *)
(* once, each noted when it fails.                                           *)
CodexSupplement(r, of, extra) ==
  Join(Join(Noted(extra, "codex_extra_usage"),
            Noted(Request(r, "inventory", of, NoLanes, {"ok", "malformed"},
                    Valid(r.inventory.says = "ok", Nothing)), "codex_reset_credits")),
       Noted(Request(r, "profile", of, NoLanes, {"ok", "malformed"},
               Valid(r.profile.says = "ok", Nothing)), "codex_profile"))

(* The local credential is read after the app server has answered, and is    *)
(* not compared with the account it answered for.                           *)
CodexLocalSupplement(r) ==
  LET of == r["credential"].of
      extra == Request(r, "extra_usage", of, [extra |-> L], {"ok"}, May(r.extra_usage, "extra"))
  IN  Optional(Step(r, Question("credential", Login, NoLanes, {"ok"}, {"Timeout", "Authentication"}),
                    CodexSupplement(r, of, extra)))

(* Mutant: whoever was asked for before the limits is not compared. *)
CodexUnchecked(r) ==
  CodexAccount(r, "before",
    Step(r, Question("limits", Login, CodexLanes, CodexCases, ProcessErrors),
      CodexAccount(r, "after",
        Owned(r.after.of, CodexWindows(r.limits) ++ CodexLocalSupplement(r)))))

(* Of who is logged in the program says a mail address and a plan, and that is *)
(* all that is compared.                                                    *)
CodexLocal(r) ==
  CodexAccount(r, "before",
    Step(r, Question("limits", Login, CodexLanes, CodexCases, ProcessErrors),
      CodexAccount(r, "after",
        Valid(r.before.like = r.after.like,
          Owned(r.after.of, CodexWindows(r.limits) ++ CodexLocalSupplement(r))))))

CodexApi(r) ==
  Request(r, "usage", Self, [primary |-> P, secondary |-> P, extra |-> L], CodexCases,
    Owned(r.usage.of,
      CodexWindows(r.usage)
      ++ Noted(May(r.usage, "extra"), "codex_extra_usage")
      ++ CodexSupplement(r, r.usage.of, Nothing)))

(* Amp --------------------------------------------------------------------- *)

(* The daily allowance is told in amounts or as a percentage. *)
AmpFree(reply) ==
  LET w == Wire(reply, "free")
  IN  MayHave(reply, "free",
        IF w.left # Absent /\ w.limit # Absent
        THEN Needs(reply, "free", LL,
               Valid(w.limit > 0 /\ w.left <= w.limit, Plain(reply, "free")))
        ELSE Needs(reply, "free", {"over"},
               Valid(w.over <= Whole, Percent(reply, "free", FromLeft(w.over), Absent))))

(* Credits are no quota, whatever their limit; what is used of one may come   *)
(* out negative.                                                            *)
AmpCredits(reply) ==
  LET w == Wire(reply, "credits")
      used == IF w.limit = Absent THEN Absent ELSE w.limit - w.left
  IN  MayHave(reply, "credits",
        Needs(reply, "credits", L,
          Valid(w.limit # Bad,
            Shows([Measured(reply, "credits", used, w.limit, w.left) EXCEPT !.quota = Unknown]))))

AmpText(reply) ==
  Require(reply.says # "signed_out", "Authentication",
    Valid(reply.says = "signed_in",
      Owned(reply.of, OrElse(AmpFree(reply) ++ AmpCredits(reply), "InvalidData"))))

AmpLanes == [free |-> {"left", "limit", "over"}, credits |-> LL]
AmpCases == {"signed_in", "signed_out", "new_category"}

AmpApi(r, of) ==
  Request(r, "api", of, AmpLanes, AmpCases \cup {"auth_required", "refused"},
    Require(r.api.says # "auth_required", "Authentication",
      Valid(r.api.says # "refused", AmpText(r.api))))

(* A key of the environment or of Amp's own file asks the service, but not    *)
(* one of another address; without a key the program of that name is run.    *)
AmpLocal(r) ==
  LET run == Step(r, Question("program", Login, AmpLanes, AmpCases, ProcessErrors), AmpText(r.program))
      key == Explicit(r,
               Step(r, Question("secrets", Login, NoLanes, {"ok", "missing"},
                                {"Authentication", "InvalidData", "Internal"}),
                    Having(IF r.secrets.says = "ok" THEN r.secrets.of ELSE None)))
  IN  Setting(r, "url", {"public", "other"},
        IF r.url.says = "other" THEN run
        ELSE Using(key, IF key.account = None THEN run ELSE AmpApi(r, key.account)))

(* Factory ----------------------------------------------------------------- *)

(* A window whose end has passed says nothing of the one after it. *)
FactoryPool(reply, lane) ==
  LET spent == Wire(reply, lane).spent
      shown == IF reply.says = "expired" THEN Unknown ELSE FromUsed(spent)
  IN  Valid(spent # Bad, Percent(reply, lane, shown, Absent))

FactoryWindows(reply) ==
  IF reply.says = "legacy"
  THEN Percent(reply, "billing", Unknown, Absent)
  ELSE Valid(reply.says # "no_pools",
         FactoryPool(reply, "standard") ++ FactoryPool(reply, "core") ++ May(reply, "balance"))

FactoryLanes == [standard |-> P, core |-> P, balance |-> L]
FactoryCases == {"current", "expired", "legacy", "no_pools"}

(* The key's account is asked for before and after, and only its name may be  *)
(* missing.                                                                 *)
FactoryLocal(r) ==
  Key(r, "key",
    Setting(r, "region", {"ok", "unknown"},
      Valid(r.region.says = "ok",
        GetCase(r, "before", NoLanes, {"ok", "mismatch"},
          Valid(r.before.says = "ok",
            GetCase(r, "limits", FactoryLanes, FactoryCases,
              GetCase(r, "after", NoLanes, {"same", "changed"},
                Valid(r.after.says = "same",
                  Owned(r["key"].of,
                    FactoryWindows(r.limits)
                    ++ Optional(Get(r, "profile", NoLanes, Nothing)))))))))))

(* A login for another organization is refused before anything is sent, and   *)
(* a quota that is forbidden is not a login that has run out.                *)
FactoryOAuth(r) ==
  Setting(r, "organization", {"ok", "mismatch"},
    Require(r.organization.says = "ok", "OAuth",
      Step(r, Question("limits", Self, FactoryLanes, FactoryCases,
                       HttpErrors \cup {"QuotaForbidden"}),
        Owned(r.limits.of,
          FactoryWindows(r.limits)
          ++ Optional(Request(r, "profile", r.limits.of, NoLanes, {"ok"}, Nothing))))))

(* Antigravity ------------------------------------------------------------- *)

QuotaErrors == HttpErrors \cup {"QuotaUnavailable"}
Undecided == {"Unavailable", "InvalidData", "QuotaUnavailable"}

(* The steps of the two services. *)
Daily == [keychain |-> "daily_keychain", again |-> "daily_again", who |-> "daily_who",
          plan |-> "daily_plan", project |-> "daily_project", summary |-> "daily_summary",
          models |-> "daily_models", quota |-> "daily_quota"]
Prod == [keychain |-> "prod_keychain", again |-> "prod_again", who |-> "prod_who",
         plan |-> "prod_plan", project |-> "prod_project", summary |-> "prod_summary",
         models |-> "prod_models", quota |-> "prod_quota"]

(* A fraction left: more than the whole is refused. *)
Fraction(reply, lane) ==
  LET over == Wire(reply, lane).over
  IN  Valid(over # Bad,
        Valid(over # Absent => over <= Whole, Percent(reply, lane, FromLeft(over), Absent)))

QuotaRequest(r, s, of, lanes, o) == Step(r, Question(s, of, lanes, {"ok"}, QuotaErrors), o)

(* A summary that cannot be made out is as none. *)
AntigravitySummary(r, s, of, otherwise) ==
  LET asked == QuotaRequest(r, s, of, [model |-> {"over"}], Fraction(r[s], "model"))
  IN  Instead(asked, Undecided, otherwise)

(* The list of models may show each as full to one who may see no quota: it   *)
(* counts when something of it is used, else the quota must say it too.      *)
AntigravityModels(r, base, of) ==
  LET models == base.models
      quota == base.quota
      buckets == QuotaRequest(r, quota, of, [model |-> {"over"}],
                   LET shown == Fraction(r[quota], "model")
                   IN  IF \E w \in shown.shows : w.quota = Unknown
                       THEN Fails("QuotaUnavailable") ELSE shown)
      listed == QuotaRequest(r, models, of, [model |-> {"over"}], Fraction(r[models], "model"))
      refused == models \in DOMAIN r /\ r[models].error \in {"QuotaUnavailable", "Unavailable"}
      inUse == \E w \in listed.shows : w.quota # Unknown /\ w.quota > 0
  IN  IF refused \/ (~Open(listed) /\ ~inUse) THEN buckets ELSE listed

(* One of the two services, asked with one token: whose it is, its plan, and  *)
(* its quota, with the project and without.                                  *)
AntigravityBase(r, base, of, expected) ==
  LET who == base.who
      plan == base.plan
      models == AntigravityModels(r, base, of)
      summary == AntigravitySummary(r, base.summary, of, models)
      withProject == AntigravitySummary(r, base.project, of, summary)
      project == r[plan].error = None /\ r[plan].says = "project"
      subscribed == Step(r, Question(plan, of, NoLanes, {"project", "none"}, QuotaErrors), Nothing)
  IN  Request(r, who, of, NoLanes, {"ok", "unnamed"},
        Valid(r[who].says = "ok",
          Require(expected \in {None, r[who].of}, "Authentication",
            Owned(of, Instead(subscribed, Undecided \cup {"Transient", "Timeout"}, Nothing)
                      ++ IF project THEN withProject ELSE summary))))

(* The login of the keychain is read for each service and once more after.   *)
AntigravitySession(r, base, expected) ==
  LET keychain == base.keychain
      again == base.again
      fails == {"Authentication", "LocalCredentialStorage", "Internal", "Unavailable"}
      usage == AntigravityBase(r, base, r[keychain].of, expected)
  IN  Native(r, keychain, fails,
        Owned(r[keychain].of,
          usage ++ Native(r, again, fails,
                          Require(r[again].of = r[keychain].of, "Authentication", Nothing))))

(* Whoever the first service was asked as must be who the second is. *)
AntigravityAsked(r) ==
  LET told(who) == who \in DOMAIN r /\ r[who].error = None /\ r[who].says = "ok"
  IN  CASE told("daily_who") -> r.daily_who.of
        [] ~told("daily_who") /\ told("prod_who") -> r.prod_who.of
        [] OTHER -> None
AntigravityBases(daily, prod) == Instead(daily, {"QuotaUnavailable", "Unavailable"}, prod)

(* The program's own service on this machine, by the account it says it has   *)
(* before and after; one that is not there leaves the error as it was.        *)
AntigravityService(r, expected, error) ==
  LET owner(s, o) == Run(r, s, {"ok", "unnamed"}, Require(r[s].says = "ok", "Authentication", o))
      probe == owner("service_before",
                 Require(expected \in {None, r.service_before.of}, "Authentication",
                   Step(r, Question("service_quota", Login, [model |-> {"over"}], {"ok", "empty"},
                                    HttpErrors),
                     Require(r.service_quota.says = "ok", "QuotaUnavailable",
                       Fraction(r.service_quota, "model")
                       ++ owner("service_after",
                            Require(r.service_after.of = r.service_before.of, "Authentication",
                                    Nothing))))))
      found == Run(r, "services", {"none", "one", "several"},
                 Require(r.services.says # "none", "Unavailable",
                   Require(r.services.says = "one" \/ expected # None, "Authentication", probe)))
  IN  Instead(Owned(r.service_before.of, found), {"Unavailable"}, Fails(error))

Final == {"Authentication", "LocalCredentialStorage", "RateLimited", "Cancelled", "InvalidData"}

AntigravityNative(r, expected, o) ==
  IF o.error \in Final \cup {None} THEN o ELSE AntigravityService(r, expected, o.error)

(* A token or file of the environment never leads to another login. *)
Antigravity(r) ==
  LET asked == AntigravityAsked(r)
      native == AntigravityBases(AntigravitySession(r, Daily, None),
                                 AntigravitySession(r, Prod, asked))
      token == Explicit(r, Having(None))
      given == AntigravityBases(AntigravityBase(r, Daily, token.account, None),
                                AntigravityBase(r, Prod, token.account, asked))
  IN  Using(token,
        IF token.account # None THEN given ELSE AntigravityNative(r, asked, native))

(* Devin Desktop ----------------------------------------------------------- *)

(* A number that cannot be read is noted and left out; one beyond its bounds  *)
(* is brought within them.                                                   *)
DevinLane(reply, lane) ==
  LET over == Wire(reply, lane).over
      left == IF over > Whole THEN Whole ELSE over
  IN  When(Given(over), Window(reply, lane, Absent, Whole, left))

DevinNumber(reply, lane, field, name) ==
  When(Wire(reply, lane)[field] = Bad, Notes(name, "InvalidData"))

(* When the day's quota is hidden and the week's is not told, it is the week's. *)
DevinDesktop(r) ==
  LET status == r.status
      weekly == IF status.says = "hidden" /\ ~Given(Wire(status, "weekly").over)
                THEN "daily" ELSE "weekly"
      balance == Wire(status, "balance").left
  IN  Keyed(r,
        GetCase(r, "status", [daily |-> {"over"}, weekly |-> {"over"}, balance |-> L],
                {"shown", "hidden", "malformed"},
          Valid(status.says # "malformed",
            DevinNumber(status, "daily", "over", "devin-daily")
            ++ DevinNumber(status, "weekly", "over", "devin-weekly")
            ++ When(status.says = "shown", DevinLane(status, "daily"))
            ++ DevinLane(status, weekly)
            ++ DevinNumber(status, "balance", "left", "devin-extra-balance")
            ++ When(Given(balance), Window(status, "balance", Absent, Absent, balance)))))
=============================================================================
