---------------------------- MODULE AlfSyncInv ----------------------------
(***************************************************************************)
(* The inductive invariants behind the safety of AlfSync.                  *)
(*                                                                         *)
(* IInv (CursorNamesBase, AcceptedDeltaFits): what every phase of an       *)
(* operation knows about the service.  A pair (sequence, archive) that an  *)
(* operation carries is either out of date (the sequence is below the      *)
(* latest) or names an archive that the latest stands for.                 *)
(*                                                                         *)
(* HostsOK (NoSyncOfTornWorkspace, UploadsOnlyLocalEdits): what every      *)
(* phase knows about its own disk.                                         *)
(*                                                                         *)
(* FirstOK (FirstUploadContinuesOwnHistory): who may send a first snapshot. *)
(***************************************************************************)
EXTENDS AlfSync

\* The pair (seq, archive) was the service's state when seq was assigned.
Names(seq, archive) ==
  /\ archive \in Archives
  /\ Restorable(cloud)
  /\ seq <= cloud.latest
  /\ seq = cloud.latest => archive \in cloud.readings

\* The service's own record: a head exists exactly when a snapshot does, and is
\* one of the readings of the latest sequence.
CloudOK ==
  /\ cloud.snap = None <=> cloud.head = None
  /\ cloud.head # None => cloud.head \in cloud.readings
  /\ ~cloud.exists => cloud.snap = None
  /\ cloud.snap # None => cloud.exists

\* h records nothing newer than seq.
CursorAtMost(h, seq) == cursor[h] # None => cursor[h] <= seq

\* The operation's archive was exported before anything was sent.
Exported(h) == op[h].exp \in Archives

\* What the running operation of h knows in each of its phases.
PhaseOK(h) ==
  /\ pc[h] \in {"register", "mark", "put"} => Exported(h)
  /\ pc[h] = "register" => op[h].kind = "first"
  /\ pc[h] = "fetch" => op[h].kind = "restore" \/ (op[h].kind \in {"recover", "adopt"} /\ Exported(h))
  /\ pc[h] \in {"restore_mark", "restore_import", "restore_imported"}
       => op[h].kind = "restore"
  /\ pc[h] \in {"restore_mark", "restore_import", "restore_imported", "pull_base", "pull_state"}
       => Names(op[h].seq, op[h].got) /\ CursorAtMost(h, op[h].seq)
  /\ pc[h] \in {"pull_base", "pull_state"}
       => op[h].kind = "restore" \/ (op[h].kind \in {"recover", "adopt"} /\ Exported(h))
  /\ pc[h] = "pull_state" => base[h] \in {None, op[h].got}
  /\ pc[h] = "clear_marker" /\ op[h].kind = "adopt" => Exported(h) /\ cursor[h] = op[h].seq
  /\ pc[h] = "diff" => Exported(h) /\ cursor[h] = op[h].seq
  /\ pc[h] = "push"
       => /\ Exported(h)
          /\ op[h].delta \in Deltas
          /\ cursor[h] = op[h].seq
          /\ op[h].seq = cloud.latest
               => \E a \in cloud.readings : Apply(op[h].delta, a) = op[h].exp
  /\ pc[h] \in {"save_base", "save_state"}
       => Names(op[h].seq, op[h].exp) /\ CursorAtMost(h, op[h].seq)
  /\ pc[h] = "save_state" => base[h] \in {None, op[h].exp}

\* A delayed delta is either refused or fits.
WireOK ==
  \A r \in wire : r.kind = "delta" =>
    /\ r.delta \in Deltas
    /\ Restorable(cloud)
    /\ r.seq <= cloud.latest
    /\ r.seq = cloud.latest => \E a \in cloud.readings : Apply(r.delta, a) = r.exp

PhasesOK == \A h \in Hosts : PhaseOK(h)

IInv ==
  /\ TypeOK
  /\ CloudOK
  /\ CursorWithinHistory
  /\ CursorNamesBase
  /\ PhasesOK
  /\ WireOK

-----------------------------------------------------------------------------
\* The phases in which only a sync can be.
UploadPhases == {"register", "mark", "diff", "put", "push", "save_base", "save_state",
                 "clear_marker"}

\* A restore's guard is on disk from before its import until its end, and a
\* workspace is whole from the end of the import on.
GuardOK(h) ==
  /\ pc[h] = "idle" => op[h] = NoOp
  /\ pc[h] \in UploadPhases => op[h].kind \notin {"none", "restore"}
  /\ pc[h] = "restore_clear" => op[h].kind = "restore"
  /\ pc[h] = "restore_import" => restoring[h] # None
  /\ pc[h] \in {"restore_imported", "pull_base", "pull_state", "restore_clear"} => ~torn[h]
  /\ torn[h] => restoring[h] # None
  /\ op[h].kind \notin {"none", "restore"} => ~torn[h] /\ restoring[h] = None

\* What differs from an archive is accounted for: from the base, unless a
\* restore is under way; from a sync's export, by this host's writes alone; and,
\* after the import, from what the restore brought.
Accounted(h) == own[h] \cup left[h]

OwnOK(h) ==
  /\ restoring[h] = None /\ base[h] # None => ChangedKeys(base[h], ws[h]) \subseteq Accounted(h)
  /\ op[h].kind \notin {"none", "restore"} => ChangedKeys(op[h].exp, ws[h]) \subseteq own[h]
  /\ pc[h] \in {"restore_imported", "pull_base"} /\ op[h].kind = "restore"
       => ChangedKeys(op[h].got, ws[h]) \subseteq Accounted(h)
  /\ pc[h] \in {"pull_state", "restore_clear"} /\ op[h].kind = "restore" /\ base[h] # None
       => ChangedKeys(base[h], ws[h]) \subseteq Accounted(h)

HostsOK == \A h \in Hosts : GuardOK(h) /\ OwnOK(h)

-----------------------------------------------------------------------------
\* h has passed the check of its first sync, now or before it was interrupted.
Claims(h) == marker[h] # None \/ (pc[h] \in {"mark", "put"} /\ op[h].kind = "first")

\* Only the host that created the agent passes that check, unless it is forced,
\* and its upload is then the one that began the history.
FirstOK ==
  /\ ~cloud.exists => cloud = NoAgent
  /\ spent["late"] = 0 => wire = {}
  /\ spent["late"] = 0 => (cloud.snap = None <=> founders = {})
  /\ founders # {} => cloud.snap # None
  /\ \A h \in Hosts :
       /\ op[h].force => spent["force"] > 0
       /\ pc[h] = "mark" => op[h].kind = "first"
       /\ pc[h] = "diff" => op[h].kind # "first"
       /\ pc[h] = "put" /\ op[h].kind # "first" => cloud.snap # None
       /\ Claims(h) => cloud.exists
  /\ spent["force"] = 0 =>
       /\ \A g, h \in Hosts : Claims(g) /\ Claims(h) => g = h
       /\ \A g \in founders, h \in Hosts : Claims(h) => g = h

=============================================================================
