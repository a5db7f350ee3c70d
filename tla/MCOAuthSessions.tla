---------------------------- MODULE MCOAuthSessions ----------------------------
(* Small instances of OAuthSessions for TLC.                                 *)
EXTENDS OAuthSessions, TLC

\* Ids, keys, makers and callers are interchangeable in every safety property.
Interchangeable ==
  Permutations(Ids) \cup Permutations(Keys) \cup Permutations(Makers) \cup Permutations(Callers)
==============================================================================
