------------------------------- MODULE Effects -------------------------------
(****************************************************************************)
(* What the management API promises of an Idempotency-Key, and the abstract  *)
(* specification that IdempotentMutations implements: a key has no effect or *)
(* one, under one body and on one account; it keeps it, unless power is lost *)
(* before it is on stable storage; and a write is reported only while it is  *)
(* there, durably so by whoever made it.  Servers, registries, jobs, retries *)
(* and restarts are not in it: none of them can be seen.                    *)
(****************************************************************************)
EXTENDS Naturals

CONSTANTS Keys, Bodies, Ids, None

VARIABLES
  effect,    \* per key, what a reader of the vault sees of it
  kept,      \* per key, what a power loss may leave of it
  reported   \* <<key, body, account, own>>: what was reported completed, own
             \* when whoever reported it had made the write

vars == <<effect, kept, reported>>

Nothing    == [receipt |-> None, times |-> 0]
Once(b, a) == [receipt |-> [body |-> b, account |-> a], times |-> 1]

Init ==
  /\ effect = [k \in Keys |-> Nothing] /\ kept = effect
  /\ reported = {}

\* A key gets its effect; everything seen is then durable, or nothing more is.
Apply(k, b, a) ==
  /\ effect[k] = Nothing
  /\ effect' = [effect EXCEPT ![k] = Once(b, a)]
  /\ kept' \in {effect', kept}
  /\ UNCHANGED reported

Settle == kept' = effect /\ UNCHANGED <<effect, reported>>

Lose == effect' = kept /\ UNCHANGED <<kept, reported>>

Report(k, b, a, own) ==
  /\ effect[k] = Once(b, a)
  /\ own => kept[k] = Once(b, a)
  /\ reported' = reported \cup {<<k, b, a, own>>}
  /\ UNCHANGED <<effect, kept>>

Next ==
  \/ \E k \in Keys, b \in Bodies, a \in Ids :
       Apply(k, b, a) \/ \E own \in BOOLEAN : Report(k, b, a, own)
  \/ Settle \/ Lose

Spec == Init /\ [][Next]_vars

\* A write reported by whoever made it is there, and a power loss leaves it.
Promise ==
  \A r \in reported : r[4] => effect[r[1]] = Once(r[2], r[3]) /\ kept[r[1]] = Once(r[2], r[3])
==============================================================================
