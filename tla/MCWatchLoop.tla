---------------------------- MODULE MCWatchLoop ----------------------------
(***************************************************************************)
(* Instances of WatchLoop for TLC.                                         *)
(***************************************************************************)
EXTENDS WatchLoop

CONSTANTS vault, controls, files, sync, restore, add, track, terminal

VaultControlsFiles == <<vault, controls, files>>

\* The tracked file comes and goes with the include list.
WithAndWithoutFiles == {{vault, controls}, {vault, controls, files}}

KindOf == [t \in Tasks |->
  CASE t = sync     -> "sync"
    [] t = restore  -> "restore"
    [] t = add      -> "vault_add"
    [] t = track    -> "track"
    [] t = terminal -> "cli_restore"]

=============================================================================
