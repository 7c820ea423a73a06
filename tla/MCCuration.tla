----------------------------- MODULE MCCuration -----------------------------
(***************************************************************************)
(* An instance of Curation for TLC.                                        *)
(***************************************************************************)
EXTENDS Curation, TLC

CONSTANTS x, y

\* ZeroClaw has rows alone, whose edits are of more kinds.
Edits == [r \in Runtimes |-> IF r = "zeroclaw" THEN 3 ELSE 2]

\* No definition tells one body from another.
BodySymmetry == Permutations(Bodies)

=============================================================================
