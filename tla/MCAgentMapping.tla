--------------------------- MODULE MCAgentMapping ---------------------------
(***************************************************************************)
(* Instances of AgentMapping for TLC.                                      *)
(***************************************************************************)
EXTENDS AgentMapping, TLC

CONSTANTS alpha, beta, gamma, legacy

DeclaresOne == <<gamma>>

DeclaresNone == <<>>

ProcSymmetry == Permutations(Procs)

=============================================================================
