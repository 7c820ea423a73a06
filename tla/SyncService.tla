---------------------------- MODULE SyncService ----------------------------
(***************************************************************************)
(* The cloud sync service, external to this repository, as the client uses *)
(* it (api_client.rs) and as docs/how_alf_syncs.md section 6 and the mock  *)
(* backend of alf-cli/tests describe it.  One agent; the state is a record *)
(* and every endpoint an operator from records to records, so that the     *)
(* client's actions can carry the call.                                    *)
(*                                                                         *)
(* They disagree on the sequence of a snapshot, so either may happen:       *)
(*   0  docs/how_alf_syncs.md, sync.rs and the rollover of                 *)
(*      tests/common/mod.rs: PUT snapshot writes at the current            *)
(*      latest_sequence, the first one at 0;                               *)
(*   1  put_snapshot of tests/common/mod.rs: it takes the next sequence.   *)
(*                                                                         *)
(* head is the archive the restore plan rebuilds: the latest snapshot with *)
(* every later delta applied in order.  readings holds every archive that  *)
(* latest may stand for in a client's eyes, the head among them: where a   *)
(* snapshot was put on a sequence already taken, the archive before it and *)
(* after it, with every later delta applied to each.                       *)
(***************************************************************************)
EXTENDS Naturals, Archive

CONSTANTS
  SnapshotSteps,  \* by how much PUT snapshot may advance the sequence
  None            \* absence of an archive, a cursor or a marker

ASSUME ServiceAssumption ==
  /\ SnapshotSteps \subseteq {0, 1}
  /\ None \notin Nat
  /\ None \notin Archives

OptArchives == Archives \cup {None}

Services == [exists : BOOLEAN, latest : Nat, snap : OptArchives, head : OptArchives,
             readings : SUBSET Archives]

\* No agent record: before registration, and after DELETE /agents/:id.
NoAgent == [exists |-> FALSE, latest |-> 0, snap |-> None, head |-> None,
            readings |-> {}]

\* POST /agents for an id the service does not know.
Registered(c) == [NoAgent EXCEPT !.exists = TRUE]

\* PUT /agents/:id/snapshot.  No sequence is compared.
PutSnapshot(c, archive, step) ==
  [c EXCEPT !.latest = @ + step,
            !.snap = archive,
            !.head = archive,
            !.readings = IF step = 0 THEN @ \cup {archive} ELSE {archive}]

\* POST /agents/:id/deltas?base_sequence=N passes the compare-and-swap.
AcceptsDelta(c, base) == c.exists /\ c.head # None /\ base = c.latest

PushDelta(c, delta) ==
  [c EXCEPT !.latest = @ + 1,
            !.head = Apply(delta, @),
            !.readings = {Apply(delta, a) : a \in @}]

\* GET /agents/:id/restore has something to serve.
Restorable(c) == c.exists /\ c.snap # None

=============================================================================
