---------------------------- MODULE MCCollection ----------------------------
(* Values for Collection. *)
EXTENDS Collection, TLC

CONSTANTS x, y
BothAccounts == {x, y}

Saved(kind, account, enabled, system) ==
  [kind |-> kind, account |-> account, enabled |-> enabled, system |-> system]

Plainly(p, mode, saved) ==
  [provider |-> p, mode |-> mode, saved |-> saved, vault |-> "ok", keyed |-> FALSE,
   installed |-> FALSE, personal |-> {}, oneMail |-> FALSE]

\* One fetch of every provider by every way to it (of Codex the environment has
\* no key).
Singles ==
  {Plainly(p, "named_unsaved", <<>>) : p \in Providers}
    \cup {[Plainly(p, "named_unsaved", <<>>) EXCEPT !.keyed = TRUE] : p \in Providers \ {"codex"}}
    \cup UNION {{Plainly(p, "named", <<Saved(k, x, TRUE, TRUE)>>) : k \in SavedKinds(p)} :
                  p \in Providers}

\* A local fetch beside that of a saved account, of the same account or the
\* other, with a key in the environment and without; a reference to another login
\* than that of the local adapter.
Beside(p, saved, keyed) ==
  [Plainly(p, "named", <<saved>>) EXCEPT !.keyed = keyed, !.installed = TRUE]
Pairs ==
  {Beside(p, Saved("key", a, TRUE, TRUE), e) :
     p \in {"openrouter", "poe", "antigravity"}, a \in {x, y}, e \in BOOLEAN}
    \cup {Beside("amp", Saved("key", x, TRUE, TRUE), TRUE)}
    \cup {Beside(p, Saved("borrowed", x, TRUE, FALSE), FALSE) : p \in {"codex", "amp", "antigravity"}}
    \cup {Beside("antigravity", Saved("borrowed", x, TRUE, TRUE), FALSE)}

\* Codex accounts of one mail address or two, on personal plans or not, beside the
\* login to its program, which is either's; where neither is told apart, x is saved.
Team(account, personal, oneMail) ==
  [Plainly("codex", "named", <<Saved("owned", account, TRUE, TRUE)>>)
     EXCEPT !.installed = TRUE, !.personal = personal, !.oneMail = oneMail]
Teams ==
  {Team(x, {x, y}, FALSE), Team(x, {}, TRUE)} \cup {Team(a, {x}, TRUE) : a \in {x, y}}

\* A login that goes from one workspace of a mail address to another, or between a
\* workspace and a personal account.
Workspaces ==
  {[Plainly("codex", "named_unsaved", <<>>) EXCEPT !.personal = personal, !.oneMail = TRUE] :
     personal \in {{}, {x}}}

\* What is found without a provider being named; a vault that cannot be read.
Found ==
  {[Plainly(p, mode, saved) EXCEPT !.keyed = TRUE, !.vault = v] :
     p \in {"poe", "devin-desktop"}, mode \in {"named", "detected", "detected_unsaved"},
     saved \in {<<Saved("key", y, e, TRUE)>> : e \in BOOLEAN}, v \in {"ok", "failed"}}

AllWorlds == Singles \cup Pairs \cup Teams \cup Workspaces \cup Found

\* Where two looks are compared, logins come back; elsewhere one changes, but none
\* in a team, where usages are compared.
TwoLooks(w) == w.provider \in {"codex", "antigravity"} /\ w.saved = <<>>
LoginsIn(w) == IF TwoLooks(w) THEN 3 ELSE IF w \in Teams THEN 1 ELSE 2

\* Most of one fetch alone, and less of longer ones and of two.
Alone(w) == Cardinality(DOMAIN Selected(w)) = 1
Lengthy(w) == TwoLooks(w) \/ w.provider \in {"cursor", "copilot", "synthetic", "openrouter"}
OddLanesIn(w) == IF Alone(w) \/ w.provider \in {"amp", "poe"} THEN 1 ELSE 0
TroubleIn(w) ==
  IF Alone(w) /\ ~Lengthy(w) THEN 2
  ELSE IF Alone(w) \/ w.provider \in {"amp", "poe"} THEN 1 ELSE 0
=============================================================================
