---------------------------- MODULE CloudAdapters ----------------------------
(***************************************************************************)
(* Kiro and Vertex AI: oauth_cloud.rs.  Both ask with the login of another  *)
(* program, and with settings that select what is asked about.             *)
(***************************************************************************)
EXTENDS Flows

(* Region and profile of the settings must agree with those of the login. *)
KiroMetadata(r, o) == Setting(r, "region", {"ok", "conflict"}, Valid(r.region.says = "ok", o))

(* A borrowed login that is refused is for its owner to refresh. *)
KiroUsage(r, of, borrowed) ==
  LET limits == Request(r, "limits", of, [requests |-> UL, trial |-> UL], {"ok"},
                  OrElse(May(r.limits, "requests") ++ May(r.limits, "trial"), "QuotaUnavailable"))
  IN  Usage(of, IF borrowed
                THEN Instead(limits, {"Authentication"}, Fails("OwnerRefreshRequired"))
                ELSE limits)

(* A login that runs out within five minutes is not used, and the settings   *)
(* are looked at before that is.                                            *)
KiroLogin(r) ==
  Step(r, Question("file", Login, NoLanes, {"ok", "missing", "expiring"},
                   {"Authentication", "CredentialStorage", "InvalidData"}),
    Require(r["file"].says # "missing", "Authentication",
      KiroMetadata(r,
        Require(r["file"].says = "ok", "OwnerRefreshRequired",
                KiroUsage(r, r["file"].of, TRUE)))))

Kiro(r) ==
  Setting(r, "token", {"ok", "none", "malformed"},
    IF r.token.says = "none" THEN KiroLogin(r)
    ELSE KiroMetadata(r,
           Require(r.token.says = "ok", "Authentication", KiroUsage(r, r.token.of, FALSE))))

-----------------------------------------------------------------------------

MonitoringErrors == HttpErrors \cup {"QuotaUnavailable"}

(* The project: a setting, else the configuration of gcloud, else another    *)
(* setting; what is there and malformed is never passed over.               *)
VertexProject(r, o) ==
  Setting(r, "project", {"ok", "none", "malformed"},
    IF r.project.says # "none" THEN Valid(r.project.says = "ok", o)
    ELSE Step(r, Question("gcloud", Login, NoLanes, {"ok", "none", "malformed"},
                          {"CredentialStorage"}),
           IF r.gcloud.says # "none" THEN Valid(r.gcloud.says = "ok", o)
           ELSE Setting(r, "other_project", {"ok", "none", "malformed"},
                  Valid(r.other_project.says = "ok", o))))

(* The default credentials hold a token that is fresh for five minutes, or   *)
(* one is asked for with their refresh token, which is not spent by it.      *)
VertexToken(r) ==
  Explicit(r,
    Step(r, Question("adc", Login, NoLanes, {"ok", "missing", "expiring"},
                     {"Authentication", "CredentialStorage", "InvalidData"}),
      Require(r.adc.says # "missing", "Authentication",
        IF r.adc.says = "ok" THEN Having(r.adc.of)
        ELSE Request(r, "refresh", r.adc.of, NoLanes, {"ok"}, Having(r.refresh.of)))))

Highest(n, m) == IF n = Absent THEN m ELSE IF m = Absent \/ m <= n THEN n ELSE m

(* All pages of one metric: a cursor that comes back, or more pages than the  *)
(* bound (two here, twenty in the code), is refused.                            *)
VertexSeries(r, page1, page2, of, lanes, o) ==
  LET page(s, rest) ==
        Step(r, Question(s, of, lanes, {"last", "more"}, MonitoringErrors), rest)
  IN  page(page1,
        IF r[page1].says = "last" THEN o
        ELSE page(page2, Require(r[page2].says = "last", "QuotaUnavailable", o)))

(* The highest value of a lane on all pages. *)
OverSeries(r, page1, page2, lane, field) ==
  Highest(Wire(r[page1], lane)[field],
          IF r[page1].says # "last" THEN Wire(r[page2], lane)[field] ELSE Absent)

(* Usage without a limit's name matches a limit of its metric and place only  *)
(* when there is just one; usage of a named limit only that.                 *)
VertexWindows(r) ==
  LET used(l) == OverSeries(r, "usage1", "usage2", l, "used")
      limit(l) == OverSeries(r, "limits1", "limits2", l, "limit")
      limits == {l \in {"named", "other"} : limit(l) # Absent}
      only == CHOOSE l \in limits : TRUE
      sound == \A p \in DOMAIN r \cap {"usage1", "usage2", "limits1", "limits2"} :
                 \A l \in DOMAIN r[p].wire : Sound(Wire(r[p], l))
  IN  Valid(sound,
        OrElse(When(used("named") # Absent /\ limit("named") # Absent,
                    Window(r.usage1, "named", used("named"), limit("named"), Absent))
               ++ When(used("unnamed") # Absent /\ Cardinality(limits) = 1,
                       Window(r.usage1, "unnamed", used("unnamed"), limit(only), Absent)),
               "QuotaUnavailable"))

VertexUsage(r, of) ==
  Usage(of,
    VertexSeries(r, "usage1", "usage2", of, [named |-> U, unnamed |-> U],
      VertexSeries(r, "limits1", "limits2", of, [named |-> {"limit"}, other |-> {"limit"}],
        VertexWindows(r))))

VertexAi(r) ==
  LET token == VertexToken(r)
  IN  VertexProject(r, Using(token, VertexUsage(r, token.account)))
=============================================================================
