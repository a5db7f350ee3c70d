--------------------------- MODULE GatewayAdapters ---------------------------
(***************************************************************************)
(* Gateways, Doubao and the tools with an API key: gateways.rs, doubao.rs   *)
(* and tools.rs.                                                           *)
(***************************************************************************)
EXTENDS Flows

(* gateways.rs ------------------------------------------------------------- *)

(* A gateway's own address: what a missing one is depends on the gateway. *)
Based(r, missing, o) ==
  Key(r, "key",
    Setting(r, "base", {"ok", "none", "malformed"},
      Valid(r.base.says = "ok" \/ (r.base.says = "none" /\ missing = "default"),
            Usage(r.key.of, o))))

ClawRouter(r) ==
  Based(r, "default",
    Get(r, "usage", [budget |-> ULL, requests |-> U, tokens |-> U, cost |-> U],
      Amounts(r.usage, "budget") ++ Must(r.usage, "requests", U)
        ++ Must(r.usage, "tokens", U) ++ Amounts(r.usage, "cost")))

(* The key names its user, its team or both; what is read of the user must   *)
(* be of that user.                                                         *)
LiteLlmOwner(r, request, lanes, o) ==
  GetCase(r, request, lanes, {"ok", "foreign"}, Valid(r[request].says = "ok", o))

LiteLlm(r) ==
  Based(r, "refused",
    GetCase(r, "key_info", [spend |-> U], {"user", "team", "both", "neither"},
      Valid(r.key_info.says # "neither",
        Amounts(r.key_info, "spend")
        ++ CASE r.key_info.says = "team" ->
                  LiteLlmOwner(r, "team_info", [team |-> UL], Amounts(r.team_info, "team"))
             [] r.key_info.says = "user" ->
                  LiteLlmOwner(r, "user_info", [user |-> UL], Amounts(r.user_info, "user"))
             [] OTHER ->
                  LiteLlmOwner(r, "user_info", [user |-> UL, team |-> UL],
                    Amounts(r.user_info, "user") ++ Amounts(r.user_info, "team")))))

LlmProxy(r) ==
  LET over == {"over"}
  IN  Based(r, "refused",
        Get(r, "stats", [group1 |-> over, group2 |-> over, requests |-> U, tokens |-> U, cost |-> U],
          LowestGroup(r.stats, {"group1", "group2"}) ++ Amounts(r.stats, "requests")
            ++ Amounts(r.stats, "tokens") ++ Amounts(r.stats, "cost")))

Sub2ApiLimit(reply, lane) == MayHave(reply, lane, Must(reply, lane, ULL))

Sub2Api(r) ==
  LET reply == r.usage
  IN  Based(r, "refused",
        GetCase(r, "usage",
                [quota |-> ULL, day |-> UL, month |-> UL, rate |-> ULL, wallet |-> L, today |-> U],
                {"ok", "invalid"},
          Require(reply.says = "ok", "Authentication",
            Sub2ApiLimit(reply, "quota") ++ Amounts(reply, "day") ++ Amounts(reply, "month")
              ++ Sub2ApiLimit(reply, "rate") ++ May(reply, "wallet") ++ Amounts(reply, "today"))))

(* Pages of a ledger, each added to the last; a cursor that comes back, or   *)
(* more pages than the bound (two here, a hundred in the code), is refused.  *)
Pages(r, page1, page2, lanes, o) ==
  GetCase(r, page1, lanes, {"last", "more"},
    Valid(\A l \in DOMAIN lanes : Sound(Wire(r[page1], l)),
      IF r[page1].says = "last" THEN o
      ELSE GetCase(r, page2, lanes, {"last", "more", "repeated"},
             Valid(r[page2].says = "last" /\ \A l \in DOMAIN lanes : Sound(Wire(r[page2], l)), o))))

OverPages(r, page1, page2, lane) ==
  LET second == IF page2 \in DOMAIN r THEN Wire(r[page2], lane).used ELSE Absent
      used == Added(Wire(r[page1], lane).used, second)
  IN  When(used # Absent, Window(r[page1], lane, used, Absent, Absent))

OpenAi(r) ==
  Key(r, "key",
    Setting(r, "project", {"ok", "none", "malformed"},
      Valid(r.project.says # "malformed",
        Usage(r.key.of,
          Pages(r, "costs1", "costs2", [costs |-> U],
            Pages(r, "models1", "models2", [requests |-> U, tokens |-> U],
              OverPages(r, "costs1", "costs2", "costs")
                ++ OverPages(r, "models1", "models2", "requests")
                ++ OverPages(r, "models1", "models2", "tokens")))))))

(* doubao.rs --------------------------------------------------------------- *)

DoubaoLevel(reply, lane) == MayHave(reply, lane, OfHundred(reply, lane))

(* Two keys sign the request; the error the reply may hold is sorted into    *)
(* refused credentials and the rest.                                        *)
Doubao(r) ==
  Key(r, "key",
    Setting(r, "access_key", {"ok", "missing", "malformed"},
      Require(r.access_key.says # "missing", "Authentication",
        Valid(r.access_key.says = "ok",
          Usage(r.key.of,
            GetCase(r, "plan", [session |-> P, week |-> P, month |-> P],
                    {"ok", "denied", "failed", "no_plan", "twice"},
              Require(r.plan.says # "denied", "Authentication",
                Require(r.plan.says # "failed", "Unavailable",
                  Require(r.plan.says # "no_plan", "QuotaUnavailable",
                    Valid(r.plan.says = "ok",
                      OrElse(DoubaoLevel(r.plan, "session") ++ DoubaoLevel(r.plan, "week")
                               ++ DoubaoLevel(r.plan, "month"), "QuotaUnavailable")))))))))))

(* tools.rs ---------------------------------------------------------------- *)

Devin(r) ==
  Key(r, "key",
    Setting(r, "organization", {"ok", "missing"},
      Valid(r.organization.says = "ok",
        Usage(r.key.of, Get(r, "consumption", [total |-> U], Must(r.consumption, "total", U))))))

OpenCodeGo(r) ==
  Keyed(r, Get(r, "usage", [rolling |-> P, week |-> P, month |-> P],
    OfHundred(r.usage, "rolling") ++ OfHundred(r.usage, "week") ++ OfHundred(r.usage, "month")))
=============================================================================
