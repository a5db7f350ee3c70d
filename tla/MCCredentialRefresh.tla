-------------------------- MODULE MCCredentialRefresh --------------------------
(* Small instances of CredentialRefresh for TLC.                             *)
EXTENDS CredentialRefresh, TLC

\* Readers, ids and tokens are interchangeable in every safety property.
Interchangeable ==
  Permutations(Readers) \cup Permutations(Ids) \cup Permutations(Tokens)
==============================================================================
