--------------------------- MODULE CodingAdapters ---------------------------
(***************************************************************************)
(* The coding plans read with an API key of the environment: coding.rs.     *)
(***************************************************************************)
EXTENDS Flows

Spend(reply, amount) ==
  Require(amount # Absent, "QuotaUnavailable", Window(reply, "spend", amount, Absent, Absent))

(* Request logs, page by page; the costs of all pages must be in one        *)
(* currency.  Two pages stand for the ten the code reads at most.           *)
AiAnd(r) ==
  LET first == Wire(r.page1, "spend")
      second == Wire(r.page2, "spend")
      page1 == [spend |-> U]
  IN  Keyed(r, GetCase(r, "page1", page1, {"last", "more", "lost"},
        Valid(first.used # Bad,
          IF r.page1.says = "last" THEN Spend(r.page1, first.used)
          ELSE Valid(r.page1.says = "more",
                 GetCase(r, "page2", page1, {"last", "more", "foreign"},
                   Valid(second.used # Bad
                           /\ (r.page2.says = "foreign"
                                 => first.used = Absent \/ second.used = Absent),
                         Spend(r.page2, Added(first.used, second.used))))))))

AlibabaLane(reply, lane) ==
  LET w == Wire(reply, lane)
  IN  MayHave(reply, lane,
        Needs(reply, lane, UL, Valid(w.limit > 0 /\ w.used <= w.limit, Plain(reply, lane))))

Alibaba(r) ==
  Setting(r, "region", {"ok", "missing", "malformed"},
    Valid(r.region.says = "ok",
      Keyed(r, GetCase(r, "plan", [hours |-> UL, week |-> UL, month |-> UL],
                       {"ok", "refused", "login", "none"},
        Valid(r.plan.says # "refused",
          Require(r.plan.says = "ok", "QuotaUnavailable",
            OrElse(AlibabaLane(r.plan, "hours") ++ AlibabaLane(r.plan, "week")
                     ++ AlibabaLane(r.plan, "month"), "QuotaUnavailable")))))))

(* A limit that is there twice or has no percentage is shown as unknown, and *)
(* said to be.                                                              *)
ClinePassLane(reply, lane) ==
  LET w == Wire(reply, lane)
  IN  IF w.spent = Absent THEN Nothing
      ELSE IF w.spent = Bad
      THEN Window(reply, lane, Absent, Whole, Absent) ++ Notes(lane, "InvalidData")
      ELSE Window(reply, lane, IF w.spent > Whole THEN Whole ELSE w.spent, Whole, Absent)

(* Unlike every other adapter it makes its usage itself: windows of which   *)
(* nothing is known are shown too.                                          *)
ClinePass(r) ==
  LET limits == GetCase(r, "limits", [hours |-> P, week |-> P, month |-> P], {"ok", "refused"},
                  Valid(r.limits.says = "ok",
                    OrElse(ClinePassLane(r.limits, "hours") ++ ClinePassLane(r.limits, "week")
                             ++ ClinePassLane(r.limits, "month"), "QuotaUnavailable")))
  IN  Key(r, "key", Owned(r.key.of, limits))

CodeBuff(r) ==
  LET w == Wire(r.usage, "credits")
  IN  Keyed(r, Get(r, "usage", [credits |-> ULL],
        Valid(Sound(w),
          Require(w.used # Absent \/ w.left # Absent, "QuotaUnavailable",
                  Plain(r.usage, "credits")))))

(* The budget of a team is its own reply, and what the profile says of the   *)
(* team fills in what that leaves out.                                      *)
IbmTeam(r, request, team) ==
  Get(r, request, [budget |-> UL],
    LET known == Wire(r.profile, team)
        budget == Wire(r[request], "budget")
        used == Or(budget.used, known.used)
    IN  Valid(Sound(known) /\ Sound(budget) /\ used # Absent,
              Window(r[request], team, used, Or(budget.limit, known.limit), Absent)))

(* Two teams stand for any number of instances and teams; each is asked for  *)
(* in turn, and all must answer.                                            *)
IbmBob(r) ==
  Keyed(r, GetCase(r, "profile", [team1 |-> UL, team2 |-> UL], {"none", "one", "two"},
    OrElse(When(r.profile.says # "none", IbmTeam(r, "budget1", "team1"))
           ++ When(r.profile.says = "two", IbmTeam(r, "budget2", "team2")),
           "QuotaUnavailable")))

(* Blocks of credit before totals before a bare balance. *)
KiloCredits(reply) ==
  LET blocks == Wire(reply, "blocks")
      totals == Wire(reply, "totals")
      limit == Or(totals.limit, Sum(totals.used, totals.left))
  IN  IF ~Empty(blocks)
      THEN Needs(reply, "blocks", LL,
             Window(reply, "blocks", Less(blocks.limit, blocks.left), blocks.limit, blocks.left))
      ELSE IF ~Empty(totals)
      THEN Valid(Sound(totals), Window(reply, "totals", totals.used, limit, totals.left))
      ELSE May(reply, "balance")

KiloPass(reply) ==
  LET w == Wire(reply, "pass")
  IN  Valid(Sound(w),
        When(w.used # Absent,
             Window(reply, "pass", w.used, w.limit, Less(w.limit, w.used))))

(* One batch of procedures: an error of either that counts is one of all. *)
Kilo(r) ==
  Setting(r, "organization", {"ok", "none", "malformed"},
    Valid(r.organization.says # "malformed",
      Keyed(r, GetCase(r, "batch", [blocks |-> LL, totals |-> ULL, balance |-> L, pass |-> UL],
                       {"ok", "refused"},
        Valid(r.batch.says # "refused",
          OrElse(KiloCredits(r.batch) ++ KiloPass(r.batch), "QuotaUnavailable"))))))

(* Of an unlimited account the limit is not even read. *)
WarpRequests(reply) ==
  LET w == Wire(reply, "requests")
  IN  IF reply.says = "unlimited"
      THEN Valid(w.used # Bad,
             Shows([Measured(reply, "requests", w.used, Absent, Absent)
                      EXCEPT !.quota = Unlimited]))
      ELSE Plain(reply, "requests")

WarpBonus(reply) ==
  LET w == Wire(reply, "bonus")
  IN  MayHave(reply, "bonus",
        Noted(Needs(reply, "bonus", LL,
                Valid(w.limit > 0 /\ w.left <= w.limit,
                  Window(reply, "bonus", Less(w.limit, w.left), w.limit, w.left))),
              "warp_bonus"))

Warp(r) ==
  Keyed(r, GetCase(r, "graphql", [requests |-> UL, bonus |-> LL], {"ok", "unlimited", "errors"},
    When(r.graphql.says = "errors", Notes("warp_graphql", "InvalidData"))
    ++ WarpRequests(r.graphql) ++ WarpBonus(r.graphql)))
=============================================================================
