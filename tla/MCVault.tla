------------------------------ MODULE MCVault ------------------------------
(***************************************************************************)
(* Instances of Vault for TLC.                                             *)
(***************************************************************************)
EXTENDS Vault, TLC

CONSTANTS one, two, p1, p2, p3, mail

\* A credential without a label.
OneLabel == [name \in {mail} |-> mail]

\* Processes may be exchanged: each of them may run any command.
ProcSymmetry == Permutations(Procs)

=============================================================================
