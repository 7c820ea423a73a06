--------------------------- MODULE MCTrackedFiles ---------------------------
(***************************************************************************)
(* Instances of TrackedFiles for TLC.                                      *)
(***************************************************************************)
EXTENDS TrackedFiles, TLC

HostSymmetry == Permutations(Hosts)

=============================================================================
