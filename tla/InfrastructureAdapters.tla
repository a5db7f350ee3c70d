----------------------- MODULE InfrastructureAdapters -----------------------
(***************************************************************************)
(* The infrastructure providers with an API key, and Azure's cost query     *)
(* with a token of the environment or of the az program: infrastructure.rs  *)
(* and azure.rs.                                                           *)
(***************************************************************************)
EXTENDS Flows

(* infrastructure.rs -------------------------------------------------------- *)

(* Two of the lanes a Chutes reply may have; each needs a number to be shown. *)
Chutes(r) ==
  Keyed(r, Get(r, "usage", [rolling |-> ULL, quota |-> ULL],
    OrElse(May(r.usage, "rolling") ++ May(r.usage, "quota"), "InvalidData")))

(* The account's credit less what was recently used is left or owed; the     *)
(* month's spending falls back on the recent one.                           *)
DeepInfraWindows(checklist, usage) ==
  LET account == Wire(checklist, "account")
      month == Or(Wire(usage, "month").used, account.used)
      limit == account.limit
  IN  Needs(checklist, "account", {"used", "left"},
        Valid(limit # Bad /\ month # Bad,
          Window(checklist, "account", Absent, Absent, Less(account.left, account.used))
          ++ Window(usage, "month", month, Absent, Absent)
          ++ When(account.used > account.left,
                  Window(checklist, "owed", Less(account.used, account.left), Absent, Absent))
          ++ When(limit \notin {Absent, 0},
                  Window(checklist, "limit", month, limit, Less(limit, month)))))

DeepInfra(r) ==
  Keyed(r, Get(r, "checklist", [account |-> ULL],
    Get(r, "usage", [month |-> U], DeepInfraWindows(r.checklist, r.usage))))

(* The identifier of an account or project is read as a key is. *)
Named(r, s, o) ==
  Setting(r, s, {"ok", "missing", "malformed"},
    Require(r[s].says # "missing", "Authentication", Valid(r[s].says = "ok", o)))

(* Line items of one currency, the first, are added up. *)
Fireworks(r) ==
  Named(r, "account",
    Keyed(r, Get(r, "summary", [spend |-> U], Must(r.summary, "spend", U))))

Groq(r) ==
  Keyed(r, GetCase(r, "rate", [rate |-> U], {"ok", "failed"},
    Valid(r.rate.says = "ok", Must(r.rate, "rate", U))))

Deepgram(r) ==
  Named(r, "project",
    Keyed(r, Get(r, "usage", [requests |-> U, hours |-> U],
      OrElse(May(r.usage, "requests") ++ May(r.usage, "hours"), "InvalidData"))))

(* Slots are shown of a positive limit only. *)
ElevenLabsSlots(reply) ==
  LET w == Wire(reply, "slots")
  IN  Valid(Sound(w),
        When(w.used # Absent /\ w.limit \notin {Absent, 0},
             Window(reply, "slots", w.used, w.limit, Less(w.limit, w.used))))

ElevenLabs(r) ==
  LET characters == Wire(r.subscription, "characters")
  IN  Keyed(r, Get(r, "subscription", [characters |-> UL, slots |-> UL],
        Needs(r.subscription, "characters", UL,
          Window(r.subscription, "characters", characters.used, characters.limit,
                 Less(characters.limit, characters.used))
          ++ ElevenLabsSlots(r.subscription))))

(* Energy of which one of three numbers is missing is worked out from the    *)
(* other two.                                                               *)
NeuralWattEnergy(reply) ==
  LET w == Wire(reply, "energy")
      total == Or(w.limit, Sum(w.used, w.left))
      used == Or(w.used, Less(total, w.left))
  IN  MayHave(reply, "energy", Valid(Sound(w), Window(reply, "energy", used, total, w.left)))

NeuralWattBalance(reply) ==
  LET w == Wire(reply, "balance")
      left == Or(w.left, Less(w.limit, w.used))
  IN  Valid(Sound(w) /\ ~Empty(w),
        When(left # Absent, Window(reply, "balance", Absent, Absent, left)))

NeuralWatt(r) ==
  Keyed(r, Get(r, "quota", [balance |-> ULL, energy |-> ULL, key |-> ULL, month |-> U],
    OrElse(NeuralWattBalance(r.quota) ++ NeuralWattEnergy(r.quota)
             ++ May(r.quota, "key") ++ May(r.quota, "month"), "InvalidData")))

(* azure.rs ------------------------------------------------------------------ *)

(* The az program is looked for and run only when there is no token. *)
AzureToken(r) ==
  Explicit(r,
    Setting(r, "az", {"ok", "missing"},
      Require(r.az.says = "ok", "Unavailable",
        Run(r, "az_token", {"ok", "malformed"},
          Require(r.az_token.says = "ok", "Authentication", Having(r.az_token.of))))))

AzureLanes == [eur |-> U, usd |-> U]

(* Costs are added per currency and never across; a repeated cursor or a      *)
(* third page (a ninth in the code) is refused.                              *)
AzureCosts(r, of) ==
  LET sound(page) == \A l \in DOMAIN AzureLanes : Sound(Wire(r[page], l))
      cost(l) == Added(Wire(r.costs1, l).used,
                       IF "costs2" \in DOMAIN r THEN Wire(r.costs2, l).used ELSE Absent)
      costs == Valid(\E l \in DOMAIN AzureLanes : cost(l) # Absent,
                 When(cost("eur") # Absent, Window(r.costs1, "eur", cost("eur"), Absent, Absent))
                 ++ When(cost("usd") # Absent,
                         Window(r.costs1, "usd", cost("usd"), Absent, Absent)))
  IN  Request(r, "costs1", of, AzureLanes, {"last", "more", "elsewhere"},
        Valid(r.costs1.says # "elsewhere" /\ sound("costs1"),
          IF r.costs1.says = "last" THEN costs
          ELSE Request(r, "costs2", of, AzureLanes, {"last", "more"},
                 Valid(r.costs2.says = "last" /\ sound("costs2"), costs))))

Azure(r) ==
  Setting(r, "resource", {"ok", "missing"},
    Valid(r.resource.says = "ok",
      LET token == AzureToken(r)
      IN  Using(token, Usage(token.account, AzureCosts(r, token.account)))))
=============================================================================
