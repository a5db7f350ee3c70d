------------------------ MODULE MCIdempotentMutations ------------------------
(* Small instances of IdempotentMutations for TLC.                           *)
EXTENDS IdempotentMutations, TLC

\* Clients, keys and creations are interchangeable in every safety property.
\* Account ids are too: a body that names an account moves along with it.
Interchangeable ==
  Permutations(Servers) \cup Permutations(Clients) \cup Permutations(Keys)
    \cup Permutations(Creations) \cup Permutations(Ids)
==============================================================================
