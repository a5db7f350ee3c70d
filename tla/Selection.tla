------------------------------ MODULE Selection ------------------------------
(***************************************************************************)
(* Which accounts of a provider one command reads: accounts/service.rs.     *)
(*                                                                         *)
(* A world w is what the selection is made from:                            *)
(*   provider   the provider that is asked about                            *)
(*   mode       "named" on the command line or by the server, "detected",    *)
(*              or one of these without saved accounts                       *)
(*   saved      the accounts of the vault, <<>> when there is none           *)
(*   vault      "ok", or "failed" when it cannot be listed                   *)
(*   keyed      whether the environment has a key or token of the provider   *)
(*   installed  whether the provider's program is (Codex and Amp)            *)
(* A saved account is a record [kind, account, enabled, system]; a borrowed   *)
(* one refers to the login the implicit local adapter would read when it is  *)
(* system.  The selection is a function to entries [kind, account], from the *)
(* places of the saved accounts in the vault and 0 for the local adapter, or *)
(* from the lists that name it.                                             *)
(***************************************************************************)
EXTENDS Adapters

Entry(kind, account) == [kind |-> kind, account |-> account]
LocalEntry == Entry("local", None)

(* The lists of what is found on this machine that name the provider. *)
LocalSources(w) ==
  LET p == w.provider
      tokens == {"kiro", "antigravity", "factory", "cursor", "claude", "copilot", "devin-desktop"}
  IN  {list \in {"keys", "tokens", "programs"} :
         CASE list = "keys" -> w.keyed /\ p \in CatalogKeys \cup KeyApis
           [] list = "tokens" -> w.keyed /\ p \in tokens
           [] list = "programs" -> \/ p = "codex" /\ w.installed
                                   \/ p = "amp" /\ (w.installed \/ w.keyed)}

(* A reference to the login that the local adapter would read replaces it,   *)
(* unless the environment has it read something else.                       *)
ReplacesLocal(w, s) ==
  /\ s.kind = "borrowed" /\ s.system
  /\ w.provider # "codex" => ~w.keyed

ManagedEntries(saved) == [i \in DOMAIN saved |-> Entry(saved[i].kind, saved[i].account)]

(* The local adapter, or not, before what the vault has. *)
After(local, entries) ==
  [i \in (IF local THEN {0} ELSE {}) \cup DOMAIN entries |-> IF i = 0 THEN LocalEntry ELSE entries[i]]

(* choose: the local adapter before the saved accounts.  Antigravity's state *)
(* database is a login of its own beside that of the keychain.               *)
Chosen(w, saved) ==
  LET replaced == \E i \in DOMAIN saved : ReplacesLocal(w, saved[i])
      separate == /\ w.provider = "antigravity"
                  /\ \E i \in DOMAIN saved : saved[i].kind = "borrowed" /\ ~saved[i].system
      found == LocalSources(w) # {}
      alone == (found \/ DOMAIN saved = {} \/ separate) /\ ~replaced
  IN  IF ~SupportsAccounts(w.provider) THEN After(TRUE, <<>>)
      ELSE IF w.vault = "failed" THEN After(found, <<Entry("failed", None)>>)
      ELSE After(alone, ManagedEntries(saved))

(* With no provider named, those that have a local source or an account that *)
(* is enabled are chosen from, and of the saved accounts only the enabled.   *)
Detected(w) ==
  LET saved == [i \in {j \in DOMAIN w.saved : w.saved[j].enabled} |-> w.saved[i]]
  IN  IF w.vault = "failed" THEN <<>>
      ELSE IF LocalSources(w) = {} /\ DOMAIN saved = {} THEN <<>>
      ELSE Chosen(w, saved)

Selected(w) ==
  CASE w.mode = "named" -> Chosen(w, w.saved)
    [] w.mode = "detected" -> Detected(w)
    [] w.mode = "named_unsaved" -> After(TRUE, <<>>)
    [] w.mode = "detected_unsaved" -> [list \in LocalSources(w) |-> LocalEntry]
=============================================================================
