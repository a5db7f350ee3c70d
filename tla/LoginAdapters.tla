---------------------------- MODULE LoginAdapters ----------------------------
(***************************************************************************)
(* The providers read with the login of their own program, when the         *)
(* environment has no token: oauth_primary.rs and oauth_editors.rs.         *)
(* Nothing is ever refreshed here: the login belongs to that program.       *)
(***************************************************************************)
EXTENDS Flows

Passed == {"Authentication", "Unavailable"}
KeychainErrors == NativeErrors \cup {"InvalidData", "Unavailable"}

(* oauth_primary.rs -------------------------------------------------------- *)

(* A login for inference only is as none. *)
ClaudeToken(r) ==
  Explicit(r, FirstOf(r, <<"keychain", "file">>, KeychainErrors, Passed))

ClaudeWindow(reply, lane) == MayHave(reply, lane, OfHundred(reply, lane))

ClaudeUsage(r, of) ==
  Usage(of,
    Request(r, "usage", of, [session |-> P, week |-> P, routines |-> P, scoped |-> P], {"ok"},
      OrElse(ClaudeWindow(r.usage, "session") ++ ClaudeWindow(r.usage, "week")
               ++ ClaudeWindow(r.usage, "routines") ++ ClaudeWindow(r.usage, "scoped"),
             "QuotaUnavailable")))

Claude(r) ==
  LET token == ClaudeToken(r) IN Using(token, ClaudeUsage(r, token.account))

(* A login that runs out within the minute is as none. *)
GeminiToken(r) ==
  Explicit(r, Native(r, "file", NativeErrors \cup {"InvalidData"}, Having(r["file"].of)))

(* The project only selects: most errors of asking for it leave it open. *)
GeminiProject(r, of) ==
  Setting(r, "project", {"ok", "none", "malformed"},
    Valid(r.project.says # "malformed",
      When(r.project.says = "none",
        LET found == Request(r, "code_assist", of, NoLanes, {"ok"}, Nothing)
        IN  Instead(found, {"Transient", "Timeout", "Unavailable", "InvalidData"}, Nothing))))

(* Two buckets may be of one model or of two: of one model the lower counts. *)
GeminiWindows(reply) ==
  OrElse(IF reply.says = "one_model" THEN LowestGroup(reply, {"bucket1", "bucket2"})
         ELSE LowestGroup(reply, {"bucket1"}) ++ LowestGroup(reply, {"bucket2"}),
         "QuotaUnavailable")

GeminiUsage(r, of) ==
  LET over == {"over"}
  IN  Usage(of,
        GeminiProject(r, of)
        ++ Request(r, "quota", of, [bucket1 |-> over, bucket2 |-> over], {"one_model", "two_models"},
             GeminiWindows(r.quota)))

Gemini(r) ==
  LET token == GeminiToken(r) IN Using(token, GeminiUsage(r, token.account))

CopilotToken(r) ==
  Explicit(r, FirstOf(r, <<"apps", "hosts", "gh_hosts", "keychain">>, KeychainErrors, Passed))

(* An entitlement of zero is a placeholder, never a quota that is used up. *)
CopilotSnapshot(reply, lane) ==
  LET w == Wire(reply, lane)
  IN  Valid(w.limit # Bad /\ w.left # Bad,
        When(w.limit # 0,
          IF w.over # Absent
          THEN Valid(w.over # Bad,
                 Valid(w.over <= Whole,
                   Window(reply, lane, Whole - w.over, Whole, w.over)))
          ELSE When(w.limit # Absent /\ w.left # Absent,
                 Window(reply, lane, Less(w.limit, w.left), w.limit, w.left))))

CopilotLegacy(reply, lane) ==
  LET w == Wire(reply, lane)
  IN  Valid(w.limit # Bad,
        When(w.limit # Absent,
          Valid(w.left # Bad,
            When(w.left # Absent /\ w.limit # 0,
              Window(reply, lane, Less(w.limit, w.left), w.limit, w.left)))))

(* An unlimited lane is not shown; the older quotas only when no other is. *)
CopilotWindows(reply) ==
  LET snapshots == When(reply.says # "unlimited", CopilotSnapshot(reply, "premium"))
                     ++ CopilotSnapshot(reply, "chat")
  IN  OrElse(IF ~Open(snapshots) /\ snapshots.shows = {}
             THEN CopilotLegacy(reply, "monthly") ELSE snapshots, "QuotaUnavailable")

CopilotUsage(r, of) ==
  LET snapshot == {"limit", "left", "over"}
  IN  Usage(of,
        Request(r, "user", of, [premium |-> snapshot, chat |-> snapshot, monthly |-> LL],
                {"ok", "unlimited", "malformed"},
          Valid(r.user.says # "malformed", CopilotWindows(r.user))))

Copilot(r) ==
  LET token == CopilotToken(r) IN Using(token, CopilotUsage(r, token.account))

(* oauth_editors.rs -------------------------------------------------------- *)

(* Whatever is wrong with the state database the keychain is read, and what  *)
(* is wrong with that is reported.                                          *)
CursorToken(r) ==
  LET state == Native(r, "state", {"Authentication", "CredentialStorage", "InvalidData"},
                      Having(r.state.of))
      keychain == Native(r, "keychain", KeychainErrors \ {"Internal"}, Having(r["keychain"].of))
  IN  Explicit(r,
        IF "state" \in DOMAIN r
        THEN IF r.state.error = None /\ r.state.says = "ok" THEN state ELSE keychain
        ELSE state)

(* A plan that is enabled is shown whatever it says; with nothing to show    *)
(* the whole account is, as unlimited when it is said to be.                *)
CursorSummary(reply) ==
  LET lanes == When(reply.says = "plan", Noted(Plain(reply, "plan"), "cursor_plan"))
                 ++ MayHave(reply, "demand", Noted(Plain(reply, "demand"), "cursor_onDemand"))
      account == Measured(reply, "usage", Absent, Absent, Absent)
  IN  lanes ++ When(lanes.shows = {},
        Shows(IF reply.says = "unlimited" THEN [account EXCEPT !.quota = Unlimited] ELSE account))

CursorPeriod(reply) ==
  Valid(reply.says = "ok",
    OrElse(MayHave(reply, "total", OfHundred(reply, "total"))
             ++ MayHave(reply, "models", OfHundred(reply, "models")), "InvalidData"))

(* Both requests carry the token that was read once; either may fail, not    *)
(* both.                                                                    *)
CursorUsage(r, of) ==
  LET summary == Request(r, "summary", of, [plan |-> ULL, demand |-> ULL],
                         {"plan", "unlimited", "neither", "malformed"},
                   Valid(r.summary.says # "malformed", CursorSummary(r.summary)))
      period == Usage(of, Request(r, "period", of, [total |-> P, models |-> P], {"ok", "ended"},
                            CursorPeriod(r.period)))
      both == Join(Noted(summary, "cursor_usage_summary"), Noted(period, "cursor_current_period"))
  IN  Owned(of, IF summary.error # None /\ period.error # None THEN Fails(summary.error) ELSE both)

Cursor(r) ==
  LET token == CursorToken(r) IN Using(token, CursorUsage(r, token.account))

(* What cannot be read is noted, and shown as unknown. *)
GrokWindows(reply) ==
  LET credits == Wire(reply, "credits")
      cap == Wire(reply, "cap").limit
      used == IF credits.spent = Bad THEN Absent
              ELSE IF credits.spent # Absent /\ credits.spent > Whole THEN Absent
              ELSE credits.spent
      extra == Measured(reply, "cap", Absent, Absent, Absent)
  IN  Valid(reply.says = "ok",
        When(used = Absent /\ credits.spent # Absent, Notes("grok_credits", "InvalidData"))
        ++ Window(reply, "credits", used, Whole, Absent)
        ++ IF cap = Bad THEN Shows(extra) ++ Notes("grok_extra_usage", "InvalidData")
           ELSE Shows([extra EXCEPT !.quota = IF cap = Absent THEN Unknown
                                              ELSE IF cap = 0 THEN Off ELSE Capped]))

GrokUsage(r, of) ==
  LET billing == Request(r, "billing", of, [credits |-> P, cap |-> {"limit"}], {"ok", "malformed"},
                         GrokWindows(r.billing))
      plan == Request(r, "settings", of, NoLanes, {"named", "unnamed"},
                Valid(r.settings.says = "named", Nothing))
  IN  Owned(of, Join(billing, Noted(plan, "grok_settings")))

Grok(r) ==
  LET token == Explicit(r, Native(r, "file", {"Authentication", "CredentialStorage", "InvalidData"},
                                  Having(r["file"].of)))
  IN  Using(token, GrokUsage(r, token.account))

(* What was used is preferred to what is left, which may be stale. *)
KimiWindow(reply, lane) ==
  LET w == Wire(reply, lane)
  IN  Needs(reply, lane, {"limit"},
        Valid(w.limit > 0 /\ Sound(w) /\ (w.used # Absent \/ w.left # Absent),
          Window(reply, lane, w.used, w.limit, IF w.used # Absent THEN Absent ELSE w.left)))

Kimi(r) ==
  Keyed(r, GetCase(r, "usages", [week |-> ULL, rate |-> ULL], {"ok", "malformed"},
    KimiWindow(r.usages, "week")
    ++ Valid(r.usages.says = "ok", MayHave(r.usages, "rate", KimiWindow(r.usages, "rate")))))
=============================================================================
