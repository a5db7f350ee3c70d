--------------------------- MODULE MCAccountDocument ---------------------------
(* Values for AccountDocument: two tasks of one process and one of another, and *)
(* the builds whose readers are kept as fixtures, with two earlier ones.        *)
EXTENDS AccountDocument, TLC

CONSTANTS one, two, other

TwoAndOne == (one :> "server") @@ (two :> "server") @@ (other :> "command")

AllBuilds == {b \in Build :
  /\ \A k \in Rotating \ {"factory"} : k \in b.tables <=> TableFormat[k] <= b.format
  /\ b.format >= 5 => "factory" \in b.tables
  /\ b.format < 4 => "factory" \notin b.tables}

Interchangeable ==
  Permutations(Ids) \cup Permutations(Labels) \cup Permutations(Identities)
    \cup Permutations(Tokens) \cup Permutations({one, two})
==============================================================================
