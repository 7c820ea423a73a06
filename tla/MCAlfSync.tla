----------------------------- MODULE MCAlfSync -----------------------------
(***************************************************************************)
(* Instances of AlfSync for TLC.                                           *)
(***************************************************************************)
EXTENDS AlfSyncInv, TLC

\* At most one of the named faults each, and n edits.
Faults(n, kinds) ==
  {s \in [FaultKinds -> 0..n] :
     \A f \in FaultKinds \ {"edit"} : s[f] <= IF f \in kinds THEN 1 ELSE 0}

\* A machine that already has one record, or a fresh one.
FreshOrUsed == {EmptyArchive, [EmptyArchive EXCEPT ![CHOOSE k \in Keys \ Tracked : TRUE] = 1]}

\* One kill anywhere, a machine that comes back empty, or, where nobody edits,
\* a delayed upload or a forced first sync.
LimitsTwoHosts ==
  Faults(1, {"kill"}) \cup Faults(1, {"wipe"}) \cup
    {s \in Faults(1, {"late"}) \cup Faults(1, {"force"}) : s["edit"] = 0}

\* One host: every fault the protocol is expected to recover from.
LimitsOneHost == Faults(2, {"kill", "fail", "lost", "lose"})

\* No fault at all: two hosts and their edits.
LimitsEdits == Faults(2, {})

HostSymmetry == Permutations(Hosts)

=============================================================================
