------------------------------ MODULE MCUsageCache ------------------------------
(* Model values for UsageCache: readers are interchangeable, and so are logins. *)
EXTENDS UsageCache, TLC

Interchangeable == Permutations(Readers) \cup Permutations(Logins)
=============================================================================
