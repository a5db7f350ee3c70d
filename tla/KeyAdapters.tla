----------------------------- MODULE KeyAdapters -----------------------------
(***************************************************************************)
(* The providers read with an API key of the environment and a request or  *)
(* two: balances.rs, key_api.rs, openrouter.rs and coding.rs.  Every one is *)
(* a function of the replies r it has (see Flows).                         *)
(***************************************************************************)
EXTENDS Flows

(* balances.rs ------------------------------------------------------------ *)

DeepSeek(r) ==
  Keyed(r, Get(r, "balance", [cny |-> L, usd |-> L],
    OrElse(May(r.balance, "cny") ++ May(r.balance, "usd"), "InvalidData")))

Moonshot(r) ==
  Setting(r, "region", {"ok", "malformed"},
    Valid(r.region.says = "ok",
      Keyed(r, GetCase(r, "balance", [balance |-> L], {"ok", "refused"},
        Valid(r.balance.says = "ok", Must(r.balance, "balance", L))))))

(* DIEM is a quota only of a positive allocation. *)
VeniceDiem(reply) ==
  LET w == Wire(reply, "diem")
  IN  Valid(Sound(w),
        When(w.left # Absent,
          IF w.limit \in {Absent, 0} THEN Window(reply, "diem", Absent, Absent, w.left)
          ELSE Window(reply, "diem", Less(w.limit, w.left), w.limit, w.left)))

Venice(r) ==
  Keyed(r, Get(r, "balance", [diem |-> LL, usd |-> L],
    OrElse(VeniceDiem(r.balance) ++ May(r.balance, "usd"), "InvalidData")))

(* The team is looked at after the key, and it must be given. *)
Xai(r) ==
  Key(r, "key",
    Setting(r, "team", {"ok", "missing", "malformed"},
      Require(r.team.says # "missing", "Authentication",
        Valid(r.team.says = "ok",
          Usage(r.key.of, Get(r, "balance", [balance |-> L], Must(r.balance, "balance", L)))))))

Poe(r) == Keyed(r, Get(r, "balance", [points |-> L], Must(r.balance, "points", L)))

ZenMuxQuota(reply, lane) ==
  LET w == Wire(reply, lane)
  IN  Needs(reply, lane, ULL, Valid(w.used <= w.limit, Plain(reply, lane)))

(* The second request may fail: its balance is then left out. *)
ZenMux(r) ==
  Keyed(r,
    GetCase(r, "detail", [hours |-> ULL, week |-> ULL], {"ok", "refused"},
      Valid(r.detail.says = "ok", ZenMuxQuota(r.detail, "hours") ++ ZenMuxQuota(r.detail, "week")))
    ++ Optional(GetCase(r, "payg", [payg |-> L], {"ok", "refused"},
         Valid(r.payg.says = "ok", Must(r.payg, "payg", L)))))

CrofRequests(reply) ==
  LET w == Wire(reply, "requests")
  IN  Valid(Sound(w),
        When(w.limit # Absent /\ w.left # Absent,
             Window(reply, "requests", Less(w.limit, w.left), w.limit, w.left)))

Crof(r) ==
  Keyed(r, Get(r, "usage", [credits |-> L, requests |-> LL],
    CrofRequests(r.usage) ++ Must(r.usage, "credits", L)))

(* key_api.rs -------------------------------------------------------------- *)

(* key_api's own windows are checked together, once all are read. *)
KeyUsage(of, o) ==
  IF Open(o) THEN o
  ELSE Valid(\A w \in o.shows : Coherent(w.limit, w.left), Usage(of, o))

KeyApi(r, regions, o) ==
  Setting(r, "region", regions,
    Valid(r.region.says = "ok", Key(r, "key", o)))

(* Credits, or requests; a percentage left is preferred to either. *)
SyntheticSlot(reply, lane) ==
  LET w == Wire(reply, lane)
      used == IF w.left # Absent THEN Absent ELSE w.used
      shown == Measured(reply, lane, used, w.limit, w.left)
  IN  Valid(Sound([w EXCEPT !.used = used]) /\ (w.over # Absent => w.over <= Whole),
        Shows(IF w.over = Absent THEN shown ELSE [shown EXCEPT !.quota = FromLeft(w.over)]))

Synthetic(r) ==
  LET slot == {"used", "limit", "left", "over"}
      reply == r.quotas
  IN  KeyApi(r, {"ok"},
        KeyUsage(r.key.of,
          Get(r, "quotas", [session |-> slot, week |-> slot, search |-> slot, plan |-> slot],
            MayHave(reply, "session", SyntheticSlot(reply, "session"))
            ++ MayHave(reply, "week", SyntheticSlot(reply, "week"))
            ++ MayHave(reply, "search", SyntheticSlot(reply, "search"))
            ++ When(Empty(Wire(reply, "session")),
                    MayHave(reply, "plan", SyntheticSlot(reply, "plan"))))))

ZaiSearches(reply) ==
  LET w == Wire(reply, "searches")
  IN  Valid(Sound(w), Shows(Measured(reply, "searches", w.used, w.limit, Absent)))

(* The plan is a request of its own, with half of the time that is left. *)
Zai(r) ==
  LET quota == GetCase(r, "quota", [hours |-> P, week |-> P, searches |-> UL], {"ok", "refused"},
                 Valid(r.quota.says = "ok",
                   KeyUsage(r.key.of,
                     MayHave(r.quota, "hours", Spent(r.quota, "hours"))
                     ++ MayHave(r.quota, "week", Spent(r.quota, "week"))
                     ++ MayHave(r.quota, "searches", ZaiSearches(r.quota)))))
      plan == GetCase(r, "plan", NoLanes, {"named", "none", "malformed"},
                Valid(r.plan.says # "malformed", Nothing))
  IN  KeyApi(r, {"ok", "malformed"},
        Usage(r.key.of, Join(quota, Noted(plan, "zai_subscription_api"))))

(* A percentage of a limit of zero is of no limit at all. *)
MiniMaxLane(reply, lane) ==
  LET w == Wire(reply, lane)
      limit == IF w.over # Absent /\ w.limit = 0 THEN Absent ELSE w.limit
      left == IF w.over = Absent THEN w.left
              ELSE IF limit = Absent THEN Absent ELSE (limit * w.over + Whole - 1) \div Whole
      shown == Measured(reply, lane, Absent, limit, left)
  IN  Valid(w.limit # Bad /\ w.over # Bad /\ (w.over = Absent => w.left # Bad)
              /\ (w.over # Absent => w.over <= Whole),
        Shows(IF w.over = Absent THEN shown ELSE [shown EXCEPT !.quota = FromLeft(w.over)]))

MiniMax(r) ==
  LET lane == {"limit", "left", "over"}
  IN  KeyApi(r, {"ok", "malformed"},
        KeyUsage(r.key.of,
          GetCase(r, "remains", [session |-> lane, week |-> lane], {"ok", "denied", "refused"},
            Require(r.remains.says # "denied", "Authentication",
              Valid(r.remains.says = "ok",
                MayHave(r.remains, "session", MiniMaxLane(r.remains, "session"))
                ++ MayHave(r.remains, "week", MiniMaxLane(r.remains, "week")))))))

(* openrouter.rs ----------------------------------------------------------- *)

OpenRouterKey(reply) ==
  LET w == Wire(reply, "limit")
  IN  Valid(Sound(w) /\ Coherent(w.limit, w.left),
        When(w.limit # Absent,
             Shows(Measured(reply, "limit", Less(w.limit, w.left), w.limit, w.left))))
      ++ May(reply, "spend")

OpenRouterCredits(reply) ==
  LET w == Wire(reply, "credits")
      balance == Or(w.left, Less(w.limit, w.used))
  IN  Valid(Sound(w),
        OrElse(
          When(w.limit # Absent /\ w.used # Absent,
               When(w.limit > 0, Window(reply, "credits", w.used, w.limit, Absent)))
          ++ When(balance # Absent, Window(reply, "balance", Absent, Absent, balance)),
          "InvalidData"))

(* Either request may fail, but not both: a refused key is then what is     *)
(* reported, else what became of the credits.                               *)
OpenRouter(r) ==
  LET credits == Noted(Get(r, "credits", [credits |-> ULL], OpenRouterCredits(r.credits)),
                       "openrouter_credits_api")
      limits == Noted(Get(r, "limits", [limit |-> LL, spend |-> U], OpenRouterKey(r.limits)),
                      "openrouter_key_api")
      both == Join(credits, limits)
      failed == IF \E d \in both.told : d.code = "Authentication" THEN "Authentication"
                ELSE IF credits.told # {} THEN (CHOOSE d \in credits.told : TRUE).code
                ELSE IF limits.told # {} THEN (CHOOSE d \in limits.told : TRUE).code
                ELSE "InvalidData"
  IN  KeyApi(r, {"ok"}, Usage(r.key.of, OrElse(both, failed)))
=============================================================================
