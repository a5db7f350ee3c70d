------------------------------ MODULE MCUsageServer -----------------------------
(* Values for UsageServer: each change is named for its kind. *)
EXTENDS UsageServer, TLC

NamedForIt == [c \in Changes |-> c]

\* Two changes at most, of kinds that write, store and invalidate differently.
InPairs == {{"account", "patch"}, {"reload", "device"}, {"callback"}}
OneEach == {{c} : c \in Changes}

Interchangeable == Permutations(Providers) \cup Permutations(Manual)
=============================================================================
