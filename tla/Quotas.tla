------------------------------- MODULE Quotas -------------------------------
(***************************************************************************)
(* The quota windows of a usage report, and what a provider's reply says of *)
(* one lane (a window, a balance, a model) before it is made into one.      *)
(*                                                                         *)
(* A number of a reply is a small natural, Absent (missing or null) or Bad  *)
(* (there, and no finite non-negative number).  Percentages are counted in *)
(* quarters: Whole is 100 per cent.  The quota of a window is the share    *)
(* used, Unknown, Unlimited, Capped (a limit and no more) or Off; a share   *)
(* left is rounded up, so that Whole used is "exhausted" and anything less  *)
(* is "available".                                                         *)
(***************************************************************************)
EXTENDS Integers, FiniteSets

CONSTANTS Absent, Bad, Unknown, Unlimited, Capped, Off

\* What stands for a number is none, and what is missing is not what is malformed.
ASSUME MarksAssumption ==
  Absent # Bad /\ \A mark \in {Absent, Bad, Unknown, Unlimited, Capped, Off} : mark \notin Int

Whole == 4

(* The fields a lane of a reply may have: used and limit, what is left, the *)
(* percentage spent and the percentage left over.                          *)
Fields == {"used", "limit", "left", "spent", "over"}

Atleast0(n) == IF n < 0 THEN 0 ELSE n
Given(n) == n \notin {Absent, Bad}
Or(n, m) == IF n = Absent THEN m ELSE n
Less(n, m) == IF n = Absent \/ m = Absent THEN Absent ELSE Atleast0(n - m)
Sum(n, m) == IF n = Absent \/ m = Absent THEN Absent ELSE n + m

(* Amounts of several rows: those that are missing do not count. *)
Added(n, m) == IF n = Absent THEN m ELSE IF m = Absent THEN n ELSE n + m

(* Quota::from_used, clamped to 0..100 per cent. *)
FromUsed(share) == IF share = Absent THEN Unknown
                   ELSE IF share > Whole THEN Whole ELSE Atleast0(share)

FromLeft(share) == IF share = Absent THEN Unknown ELSE FromUsed(Whole - share)

(* The share left of a limit, rounded up to quarters. *)
ShareLeft(left, limit) == (left * Whole + limit - 1) \div limit

(* Mutant: nothing is left of a limit of zero. *)
QuotaOfZero(limit, left) ==
  IF limit # Absent /\ left # Absent
  THEN IF limit > 0 THEN FromLeft(ShareLeft(left, limit)) ELSE Whole
  ELSE Unknown

(* What a window shows of a limit: nothing of no limit, or of one of zero. *)
QuotaOf(limit, left) ==
  IF limit # Absent /\ left # Absent
  THEN IF limit > 0 THEN FromLeft(ShareLeft(left, limit)) ELSE Unknown
  ELSE Unknown

(* The window key_api.rs and common.rs build: what is left is taken from    *)
(* the reply, else from used and limit.                                     *)
Measured(reply, lane, used, limit, left) ==
  LET rest == Or(left, Less(limit, used))
  IN  [lane |-> lane, of |-> reply.of, used |-> used, limit |-> limit, left |-> rest,
       quota |-> QuotaOf(limit, rest)]

(* common::window refuses more left than the limit. *)
Coherent(limit, left) == limit # Absent /\ left # Absent => left <= limit

(* Whether a window says anything at all. *)
Tells(w) == w.quota # Unknown \/ w.used # Absent \/ w.left # Absent
=============================================================================
