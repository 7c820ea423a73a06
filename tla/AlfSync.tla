------------------------------ MODULE AlfSync ------------------------------
(***************************************************************************)
(* `alf sync` and the head `alf restore` of one agent, run on several      *)
(* hosts against one sync service (alf-cli/src/commands/sync.rs, restore.rs *)
(* and state.rs).                                                          *)
(*                                                                         *)
(* Every call and every durable write is a step of its own: between two of *)
(* them the process may be killed, the agent may edit its workspace and    *)
(* the other hosts run.  On one host the per-agent advisory lock lets one  *)
(* sync or restore run at a time, so a host has one program counter.       *)
(*                                                                         *)
(* A definition called Faulty... is the definition after it with one       *)
(* plausible bug.  Nothing uses it: putting it in place of the original is *)
(* how each property is shown to depend on the code.                       *)
(***************************************************************************)
EXTENDS SyncService

CONSTANTS
  Hosts,        \* machines that hold a workspace of the agent
  Workspaces,   \* what a workspace may hold before alf first runs
  MaxSequence,  \* bound: uploads are refused past this sequence
  Limits        \* bound: how often the kinds of fault or edit may have happened

FaultKinds == {"edit", "kill", "fail", "lost", "late", "lose", "wipe", "force"}

RestorePhases == {"importing", "imported"}

ASSUME PhaseAssumption == None \notin RestorePhases

ASSUME BoundAssumption ==
  /\ Workspaces \subseteq Archives
  /\ MaxSequence \in Nat
  /\ Limits \subseteq [FaultKinds -> Nat]

VARIABLES
  cloud,      \* the service's record of the agent
  wire,       \* uploads whose client gave up and that may still arrive
  ws,         \* ws[h]: the live workspace, owned by the agent's runtime
  base,       \* base[h]: {id}-snapshot.alf, the delta base, or None
  cursor,     \* cursor[h]: last_synced_sequence of {id}.toml, or None
  marker,     \* marker[h]: the archive whose digest the first-sync marker holds
  restoring,  \* restoring[h]: phase in {id}.restore-inflight.json, or None
  pc,         \* pc[h]: what the process holding the agent lock does next
  op,         \* op[h]: the running operation's locals, lost with the process
  outcome,    \* outcome[h]: what the last finished operation reported
  own,        \* history: keys the runtime wrote since workspace and base agreed
  left,       \* history: keys on which alf itself set workspace and base apart
  torn,       \* history: an import stopped half way in this workspace
  founders,   \* history: hosts whose snapshot found none in the cloud
  spent       \* how often each kind of fault or edit has happened

disk == <<ws, base, cursor, marker, restoring>>
history == <<own, left, torn, founders>>
vars == <<cloud, wire, ws, base, cursor, marker, restoring, pc, op, outcome,
          own, left, torn, founders, spent>>

SyncPCs == {"register", "fetch", "mark", "diff", "put", "push", "save_base",
            "save_state", "clear_marker", "pull_base", "pull_state"}

RestorePCs == {"fetch", "restore_mark", "restore_import", "restore_imported",
               "pull_base", "pull_state", "restore_clear"}

Kinds == {"none", "first", "adopt", "delta", "recover", "restore"}

Ops == [kind  : Kinds,             \* SyncMode, or "restore"
        force : BOOLEAN,           \* --force-first-sync
        exp   : OptArchives,       \* the exported archive
        got   : OptArchives,       \* the archive fetched from the cloud
        seq   : Nat,               \* base sequence, then the assigned one
        delta : Deltas \cup {None}]

NoOp == [kind |-> "none", force |-> FALSE, exp |-> None, got |-> None,
         seq |-> 0, delta |-> None]

Requests == [kind : {"snapshot", "delta"}, exp : Archives, seq : Nat,
             delta : Deltas \cup {None}]

Outcomes == {"none", "synced", "no_changes", "restored", "failed", "conflict",
             "missing_base", "restore_incomplete", "first_sync_conflict"}

TypeOK ==
  /\ cloud \in Services
  /\ wire \subseteq Requests
  /\ ws \in [Hosts -> Archives]
  /\ base \in [Hosts -> OptArchives]
  /\ cursor \in [Hosts -> Nat \cup {None}]
  /\ marker \in [Hosts -> OptArchives]
  /\ restoring \in [Hosts -> RestorePhases \cup {None}]
  /\ pc \in [Hosts -> {"idle"} \cup SyncPCs \cup RestorePCs]
  /\ op \in [Hosts -> Ops]
  /\ outcome \in [Hosts -> Outcomes]
  /\ own \in [Hosts -> SUBSET Keys]
  /\ left \in [Hosts -> SUBSET Keys]
  /\ torn \in [Hosts -> BOOLEAN]
  /\ founders \subseteq Hosts
  /\ spent \in [FaultKinds -> Nat]

Init ==
  /\ cloud = NoAgent
  /\ wire = {}
  /\ ws \in [Hosts -> Workspaces]
  /\ base = [h \in Hosts |-> None]
  /\ cursor = [h \in Hosts |-> None]
  /\ marker = [h \in Hosts |-> None]
  /\ restoring = [h \in Hosts |-> None]
  /\ pc = [h \in Hosts |-> "idle"]
  /\ op = [h \in Hosts |-> NoOp]
  /\ outcome = [h \in Hosts |-> "none"]
  /\ own = [h \in Hosts |-> {k \in Keys : ws[h][k] # Blank}]
  /\ left = [h \in Hosts |-> {}]
  /\ torn = [h \in Hosts |-> FALSE]
  /\ founders = {}
  /\ spent = [f \in FaultKinds |-> 0]

-----------------------------------------------------------------------------
\* One more edit or fault of kind f, within its bound.
Spend(f) ==
  /\ spent' = [spent EXCEPT ![f] = @ + 1]
  /\ spent' \in Limits

\* The bound on sequences leaves room for an upload that takes step of them.
RoomFor(step) == cloud.latest + step <= MaxSequence

\* A PUT of h's export reaches the service.
SnapshotLands(h) ==
  /\ cloud.exists
  /\ \E step \in SnapshotSteps :
       /\ RoomFor(step)
       /\ cloud' = PutSnapshot(cloud, op[h].exp, step)
  /\ founders' = IF cloud.snap = None THEN founders \cup {h} ELSE founders

\* A POST of h's delta reaches the service and is accepted.
DeltaLands(h) ==
  /\ AcceptsDelta(cloud, op[h].seq)
  /\ RoomFor(1)
  /\ cloud' = PushDelta(cloud, op[h].delta)

\* The running operation ends and the lock is released.
Finish(h, result) ==
  /\ pc' = [pc EXCEPT ![h] = "idle"]
  /\ op' = [op EXCEPT ![h] = NoOp]
  /\ outcome' = [outcome EXCEPT ![h] = result]

\* The running operation goes on.
Goto(h, next) ==
  /\ pc' = [pc EXCEPT ![h] = next]
  /\ outcome' = [outcome EXCEPT ![h] = "none"]

-----------------------------------------------------------------------------
(***************************************************************************)
(* Starting a sync                                                         *)
(***************************************************************************)

FaultyDecideSyncMode(seq, basePresent, recover) ==  \* --recover is looked at last
  IF seq = None THEN "first"
  ELSE IF basePresent THEN "delta"
  ELSE IF recover THEN "recover"
  ELSE "missing_base"

\* The branch table on (last_synced_sequence, base present, --recover).
DecideSyncMode(seq, basePresent, recover) ==
  IF seq = None THEN "first"
  ELSE IF recover THEN "recover"
  ELSE IF basePresent THEN "delta"
  ELSE "missing_base"

FaultyDecideFirstSyncConflict(existed, latest, marked, force) ==  \* latest first
  IF ~existed \/ force \/ latest = 0 THEN "upload"
  ELSE IF ~marked THEN "park"
  ELSE "verify"

\* What a first sync does when the cloud may already know the agent.
DecideFirstSyncConflict(existed, latest, marked, force) ==
  IF ~existed \/ force THEN "upload"
  ELSE IF ~marked THEN "park"
  ELSE IF latest = 0 THEN "upload"
  ELSE "verify"

FaultyRestoreIncomplete(h) == restoring[h] = "importing"  \* one phase forgotten

\* A restore marker on disk refuses every sync, with or without --recover.
RestoreIncomplete(h) == restoring[h] # None

FaultyStarted(h, mode, force) ==  \* an absent cursor is not replaced by 0
  [NoOp EXCEPT !.kind = mode, !.force = force, !.exp = ws[h], !.seq = cursor[h]]

\* The locals of a sync once the workspace is exported.
Started(h, mode, force) ==
  [NoOp EXCEPT !.kind = mode, !.force = force, !.exp = ws[h],
               !.seq = IF cursor[h] = None THEN 0 ELSE cursor[h]]

\* The guards of sync_one, its export and its mode decision: all local.
SyncOne(h, recover, force) ==
  LET mode == DecideSyncMode(cursor[h], base[h] # None, recover)
  IN /\ pc[h] = "idle"
     /\ IF force THEN Spend("force") ELSE UNCHANGED spent
     /\ \/ /\ RestoreIncomplete(h)
           /\ Finish(h, "restore_incomplete")
        \/ /\ ~RestoreIncomplete(h)
           /\ mode = "missing_base"
           /\ Finish(h, "missing_base")
        \/ /\ ~RestoreIncomplete(h)
           /\ mode # "missing_base"
           /\ op' = [op EXCEPT ![h] = Started(h, mode, force)]
           /\ Goto(h, CASE mode = "first"   -> "register"
                        [] mode = "recover" -> "fetch"
                        [] mode = "delta"   -> "diff")
     /\ UNCHANGED <<cloud, wire, disk, history>>

-----------------------------------------------------------------------------
(***************************************************************************)
(* First sync                                                              *)
(***************************************************************************)

\* Register the agent and decide from the reply and the local marker.
Register(h) ==
  LET decision == DecideFirstSyncConflict(cloud.exists, cloud.latest,
                                          marker[h] # None, op[h].force)
  IN /\ pc[h] = "register"
     /\ cloud' = IF cloud.exists THEN cloud ELSE Registered(cloud)
     /\ \/ /\ decision = "upload"
           /\ Goto(h, "mark")
           /\ op' = [op EXCEPT ![h].kind = "first"]
        \/ /\ decision = "verify"
           /\ Goto(h, "fetch")
           /\ op' = [op EXCEPT ![h].kind = "adopt"]
        \/ /\ decision = "park"
           /\ Finish(h, "first_sync_conflict")
     /\ UNCHANGED <<wire, disk, history, spent>>

\* The registration lands and its reply is lost.
RegisterLost(h) ==
  /\ pc[h] = "register"
  /\ ~cloud.exists
  /\ Spend("lost")
  /\ cloud' = Registered(cloud)
  /\ Finish(h, "failed")
  /\ UNCHANGED <<wire, disk, history>>

\* The marker becomes durable before the upload.
MarkFirstSyncInflight(h) ==
  /\ pc[h] = "mark"
  /\ marker' = [marker EXCEPT ![h] = op[h].exp]
  /\ Goto(h, "put")
  /\ UNCHANGED <<cloud, wire, ws, base, cursor, restoring, op, history, spent>>

\* Best effort: the removal may fail and the error is ignored.
ClearFirstSyncInflight(h) ==
  /\ pc[h] = "clear_marker"
  /\ marker' \in {marker, [marker EXCEPT ![h] = None]}
  /\ IF op[h].kind = "adopt"
     THEN Goto(h, "diff") /\ UNCHANGED op
     ELSE Finish(h, "synced")
  /\ UNCHANGED <<cloud, wire, ws, base, cursor, restoring, history, spent>>

-----------------------------------------------------------------------------
(***************************************************************************)
(* Fetching the cloud base: --recover, the adoption of an interrupted      *)
(* first sync, and the head restore                                        *)
(***************************************************************************)

\* The snapshot and every later delta are fetched and merged.
FetchCloudBase(h) ==
  /\ pc[h] = "fetch"
  /\ \/ /\ ~Restorable(cloud)
        /\ Finish(h, "failed")
     \/ /\ Restorable(cloud)
        /\ op[h].kind = "adopt" /\ cloud.snap # marker[h]
        /\ Finish(h, "first_sync_conflict")
     \/ /\ Restorable(cloud)
        /\ op[h].kind = "adopt" => cloud.snap = marker[h]
        /\ op' = [op EXCEPT ![h].got = cloud.head, ![h].seq = cloud.latest]
        /\ Goto(h, IF op[h].kind = "restore" THEN "restore_mark" ELSE "pull_base")
  /\ UNCHANGED <<cloud, wire, disk, history, spent>>

\* base.alf first ...
PersistCloudBase(h) ==
  /\ pc[h] = "pull_base"
  /\ base' = [base EXCEPT ![h] = op[h].got]
  /\ left' = IF op[h].kind = "restore" THEN left
             ELSE [left EXCEPT ![h] = ChangedKeys(op[h].got, ws[h]) \ own[h]]
  /\ Goto(h, "pull_state")
  /\ UNCHANGED <<cloud, wire, ws, cursor, marker, restoring, op, own, torn, founders, spent>>

\* ... then state.toml.
PersistCloudState(h) ==
  /\ pc[h] = "pull_state"
  /\ cursor' = [cursor EXCEPT ![h] = op[h].seq]
  /\ Goto(h, CASE op[h].kind = "recover" -> "diff"
               [] op[h].kind = "adopt"   -> "clear_marker"
               [] op[h].kind = "restore" -> "restore_clear")
  /\ UNCHANGED <<cloud, wire, ws, base, marker, restoring, op, history, spent>>

-----------------------------------------------------------------------------
(***************************************************************************)
(* Delta sync                                                              *)
(***************************************************************************)

\* Read the base, diff the export against it, choose the upload.
ExecuteDelta(h) ==
  /\ pc[h] = "diff"
  /\ \/ /\ base[h] = None
        /\ Finish(h, "missing_base")
     \/ /\ base[h] # None
        /\ op[h].exp = base[h]
        /\ Finish(h, "no_changes")
     \/ /\ base[h] # None
        /\ TrackedFilesChanged(base[h], op[h].exp)
        /\ UNCHANGED op
        /\ Goto(h, "put")
     \/ /\ base[h] # None
        /\ op[h].exp # base[h]
        /\ ~TrackedFilesChanged(base[h], op[h].exp)
        /\ op' = [op EXCEPT ![h].delta = Diff(base[h], op[h].exp)]
        /\ Goto(h, "push")
  /\ UNCHANGED <<cloud, wire, disk, history, spent>>

\* PUT snapshot answers: first sync, or re-snapshot of tracked files.
UploadSnapshot(h) ==
  /\ pc[h] = "put"
  /\ SnapshotLands(h)
  /\ op' = [op EXCEPT ![h].seq = cloud'.latest]
  /\ Goto(h, "save_base")
  /\ UNCHANGED <<wire, disk, own, left, torn, spent>>

\* POST deltas answers, with the assigned sequence or a conflict.
UploadDelta(h) ==
  /\ pc[h] = "push"
  /\ \/ /\ ~AcceptsDelta(cloud, op[h].seq)
        /\ Finish(h, "conflict")
        /\ UNCHANGED cloud
     \/ /\ DeltaLands(h)
        /\ op' = [op EXCEPT ![h].seq = cloud'.latest]
        /\ Goto(h, "save_base")
  /\ UNCHANGED <<wire, disk, history, spent>>

FaultyPersistLocalBase(h) ==  \* the workspace as it is now, not as it was uploaded
  /\ pc[h] = "save_base"
  /\ base' = [base EXCEPT ![h] = ws[h]]
  /\ own' = [own EXCEPT ![h] = {k \in @ : ws[h][k] # op[h].exp[k]}]
  /\ left' = [left EXCEPT ![h] = {}]
  /\ Goto(h, "save_state")
  /\ UNCHANGED <<cloud, wire, ws, cursor, marker, restoring, op, torn, founders, spent>>

\* The base is replaced by the uploaded archive first ...
PersistLocalBase(h) ==
  /\ pc[h] = "save_base"
  /\ base' = [base EXCEPT ![h] = op[h].exp]
  /\ own' = [own EXCEPT ![h] = {k \in @ : ws[h][k] # op[h].exp[k]}]
  /\ left' = [left EXCEPT ![h] = {}]
  /\ Goto(h, "save_state")
  /\ UNCHANGED <<cloud, wire, ws, cursor, marker, restoring, op, torn, founders, spent>>

FaultyPersistLocalState(h) ==  \* the sequence the next delta will get
  /\ pc[h] = "save_state"
  /\ cursor' = [cursor EXCEPT ![h] = op[h].seq + 1]
  /\ IF op[h].kind = "first"
     THEN Goto(h, "clear_marker") /\ UNCHANGED op
     ELSE Finish(h, "synced")
  /\ UNCHANGED <<cloud, wire, ws, base, marker, restoring, history, spent>>

\* ... then the cursor moves.
PersistLocalState(h) ==
  /\ pc[h] = "save_state"
  /\ cursor' = [cursor EXCEPT ![h] = op[h].seq]
  /\ IF op[h].kind = "first"
     THEN Goto(h, "clear_marker") /\ UNCHANGED op
     ELSE Finish(h, "synced")
  /\ UNCHANGED <<cloud, wire, ws, base, marker, restoring, history, spent>>

-----------------------------------------------------------------------------
(***************************************************************************)
(* Head restore                                                            *)
(***************************************************************************)

\* A marker of this very workspace does not stop the restore: it resumes.
StartRestore(h) ==
  /\ pc[h] = "idle"
  /\ op' = [op EXCEPT ![h] = [NoOp EXCEPT !.kind = "restore"]]
  /\ Goto(h, "fetch")
  /\ UNCHANGED <<cloud, wire, disk, history, spent>>

\* The guard is durable before the adapter may touch the workspace.
SaveRestoreInflight(h) ==
  /\ pc[h] = "restore_mark"
  /\ restoring' = [restoring EXCEPT ![h] = "importing"]
  /\ Goto(h, "restore_import")
  /\ UNCHANGED <<cloud, wire, ws, base, cursor, marker, op, history, spent>>

\* The import has written some of its files.
ImportPartly(h) ==
  /\ pc[h] = "restore_import"
  /\ ~torn[h]
  /\ ws' \in {[ws EXCEPT ![h] = w] : w \in TornImports(op[h].got, ws[h])}
  /\ torn' = [torn EXCEPT ![h] = TRUE]
  /\ UNCHANGED <<cloud, wire, base, cursor, marker, restoring, pc, op, outcome,
                 own, left, founders, spent>>

\* import_with_options returns: the archive is in the workspace.
ImportArchive(h) ==
  /\ pc[h] = "restore_import"
  /\ ws' \in {[ws EXCEPT ![h] = w] : w \in ImportResults(op[h].got, ws[h])}
  /\ own' = [own EXCEPT ![h] = @ \cap ChangedKeys(op[h].got, ws'[h])]
  /\ left' = [left EXCEPT ![h] = ChangedKeys(op[h].got, ws'[h]) \ own[h]]
  /\ torn' = [torn EXCEPT ![h] = FALSE]
  /\ Goto(h, "restore_imported")
  /\ UNCHANGED <<cloud, wire, base, cursor, marker, restoring, op, founders, spent>>

FaultyMarkRestoreImported(h) ==  \* the import done, the guard is dropped
  /\ pc[h] = "restore_imported"
  /\ restoring' = [restoring EXCEPT ![h] = None]
  /\ Goto(h, "pull_base")
  /\ UNCHANGED <<cloud, wire, ws, base, cursor, marker, op, history, spent>>

MarkRestoreImported(h) ==
  /\ pc[h] = "restore_imported"
  /\ restoring' = [restoring EXCEPT ![h] = "imported"]
  /\ Goto(h, "pull_base")
  /\ UNCHANGED <<cloud, wire, ws, base, cursor, marker, op, history, spent>>

FaultyClearRestoreInflight(h) ==  \* an error of the removal is ignored
  /\ pc[h] = "restore_clear"
  /\ restoring' \in {restoring, [restoring EXCEPT ![h] = None]}
  /\ Finish(h, "restored")
  /\ UNCHANGED <<cloud, wire, ws, base, cursor, marker, history, spent>>

ClearRestoreInflight(h) ==
  /\ pc[h] = "restore_clear"
  /\ restoring' = [restoring EXCEPT ![h] = None]
  /\ Finish(h, "restored")
  /\ UNCHANGED <<cloud, wire, ws, base, cursor, marker, history, spent>>

-----------------------------------------------------------------------------
(***************************************************************************)
(* The environment                                                         *)
(***************************************************************************)

\* The agent's runtime writes its workspace, whatever alf is doing.
Edit(h, k, v) ==
  /\ ws[h][k] # v
  /\ Spend("edit")
  /\ ws' = [ws EXCEPT ![h][k] = v]
  /\ own' = [own EXCEPT ![h] = @ \cup {k}]
  /\ UNCHANGED <<cloud, wire, base, cursor, marker, restoring, pc, op, outcome,
                 left, torn, founders>>

\* SIGKILL, or an I/O error that ends the operation: its locals are gone.
Kill(h) ==
  /\ pc[h] # "idle"
  /\ Spend("kill")
  /\ Finish(h, "none")
  /\ UNCHANGED <<cloud, wire, disk, history>>

\* A request that never reaches the service, or that it refuses.
RequestFails(h) ==
  /\ pc[h] \in {"register", "fetch", "put", "push"}
  /\ IF RoomFor(1) THEN Spend("fail") ELSE UNCHANGED spent
  /\ Finish(h, "failed")
  /\ UNCHANGED <<cloud, wire, disk, history>>

\* An upload the service carries out while its reply is lost.
UploadLost(h) ==
  /\ \/ /\ pc[h] = "put"
        /\ SnapshotLands(h)
     \/ /\ pc[h] = "push"
        /\ DeltaLands(h)
        /\ UNCHANGED founders
  /\ Spend("lost")
  /\ Finish(h, "failed")
  /\ UNCHANGED <<wire, disk, own, left, torn>>

\* The client times out while the upload is still on its way ...
UploadLate(h) ==
  /\ pc[h] \in {"put", "push"}
  /\ Spend("late")
  /\ wire' = wire \cup
       {[kind  |-> IF pc[h] = "put" THEN "snapshot" ELSE "delta",
         exp   |-> op[h].exp,
         seq   |-> op[h].seq,
         delta |-> op[h].delta]}
  /\ Finish(h, "failed")
  /\ UNCHANGED <<cloud, disk, history>>

\* ... and it arrives later, when nobody waits for the answer.
Arrive(r) ==
  /\ wire' = wire \ {r}
  /\ \/ /\ r.kind = "snapshot"
        /\ cloud.exists
        /\ \E step \in SnapshotSteps :
             /\ RoomFor(step)
             /\ cloud' = PutSnapshot(cloud, r.exp, step)
     \/ /\ r.kind = "delta"
        /\ AcceptsDelta(cloud, r.seq)
        /\ RoomFor(1)
        /\ cloud' = PushDelta(cloud, r.delta)
     \/ /\ r.kind = "delta"
        /\ ~AcceptsDelta(cloud, r.seq)
        /\ UNCHANGED cloud
  /\ UNCHANGED <<disk, pc, op, outcome, history, spent>>

\* The local base is deleted from outside (cases E4 and section 7 (b)).
LoseBase(h) ==
  /\ base[h] # None
  /\ Spend("lose")
  /\ base' = [base EXCEPT ![h] = None]
  /\ UNCHANGED <<cloud, wire, ws, cursor, marker, restoring, pc, op, outcome,
                 history>>

\* An ephemeral machine stops and comes back with an empty root (case E6).
Wipe(h) ==
  /\ Spend("wipe")
  /\ ws' = [ws EXCEPT ![h] = EmptyArchive]
  /\ base' = [base EXCEPT ![h] = None]
  /\ cursor' = [cursor EXCEPT ![h] = None]
  /\ marker' = [marker EXCEPT ![h] = None]
  /\ restoring' = [restoring EXCEPT ![h] = None]
  /\ own' = [own EXCEPT ![h] = {}]
  /\ left' = [left EXCEPT ![h] = {}]
  /\ torn' = [torn EXCEPT ![h] = FALSE]
  /\ Finish(h, "none")
  /\ UNCHANGED <<cloud, wire, founders>>

-----------------------------------------------------------------------------
\* The steps of an operation that holds the lock, with no fault.
Progress(h) ==
  \/ Register(h)
  \/ MarkFirstSyncInflight(h)
  \/ ClearFirstSyncInflight(h)
  \/ FetchCloudBase(h)
  \/ PersistCloudBase(h)
  \/ PersistCloudState(h)
  \/ ExecuteDelta(h)
  \/ UploadSnapshot(h)
  \/ UploadDelta(h)
  \/ PersistLocalBase(h)
  \/ PersistLocalState(h)
  \/ SaveRestoreInflight(h)
  \/ ImportArchive(h)
  \/ MarkRestoreImported(h)
  \/ ClearRestoreInflight(h)

Fault(h) ==
  \/ RegisterLost(h)
  \/ ImportPartly(h)
  \/ Kill(h)
  \/ RequestFails(h)
  \/ UploadLost(h)
  \/ UploadLate(h)
  \/ LoseBase(h)
  \/ Wipe(h)

Next ==
  \/ \E h \in Hosts :
       \/ \E recover, force \in BOOLEAN : SyncOne(h, recover, force)
       \/ StartRestore(h)
       \/ Progress(h)
       \/ \E k \in Keys, v \in Vals : Edit(h, k, v)
       \/ Fault(h)
  \/ \E r \in wire : Arrive(r)

Spec == Init /\ [][Next]_vars

(***************************************************************************)
(* Fairness.  A process that holds the lock runs on; the watch loop (or    *)
(* cron) keeps asking for a sync, with --recover after a conflict or a     *)
(* missing base as engine.rs does; an interrupted restore is eventually    *)
(* run again, as every refused sync tells the operator to.                 *)
(***************************************************************************)
AutoSync(h) ==
  SyncOne(h, outcome[h] \in {"conflict", "missing_base"}, FALSE)

ResumeRestore(h) == restoring[h] # None /\ StartRestore(h)

Fairness ==
  \A h \in Hosts : /\ WF_vars(Progress(h))
                   /\ SF_vars(AutoSync(h))
                   /\ SF_vars(ResumeRestore(h))

FairSpec == Spec /\ Fairness

-----------------------------------------------------------------------------
(***************************************************************************)
(* Safety                                                                  *)
(***************************************************************************)

\* A cursor at the service's latest sequence names the delta base beside it: the
\* base is an archive that this very sequence stands for.  It is the head itself
\* as long as no snapshot was put on top of a sequence that was already taken
\* (docs/how_alf_syncs.md section 6); after such a rollover the host may hold the
\* archive from before it, and no conflict will tell.
CursorNamesBase ==
  \A h \in Hosts :
    cursor[h] # None /\ base[h] # None /\ cursor[h] = cloud.latest
      => base[h] \in cloud.readings

\* A delta the service would accept, from a running sync or still on the wire,
\* turns an archive that its base sequence stands for into the whole archive of
\* its exporter: the head itself, unless a rollover gave that sequence a second
\* reading.
AcceptedDeltaFits ==
  /\ \A h \in Hosts :
       pc[h] = "push" /\ AcceptsDelta(cloud, op[h].seq)
         => \E a \in cloud.readings : Apply(op[h].delta, a) = op[h].exp
  /\ \A r \in wire :
       r.kind = "delta" /\ AcceptsDelta(cloud, r.seq)
         => \E a \in cloud.readings : Apply(r.delta, a) = r.exp

\* No host ever records a sequence the service has not assigned.
CursorWithinHistory ==
  \A h \in Hosts : cursor[h] # None => Restorable(cloud) /\ cursor[h] <= cloud.latest

\* A sync only ever runs on a workspace that no interrupted restore has left
\* half imported (ensure_sync_not_during_restore), and a half-imported
\* workspace is never without its durable guard.
NoSyncOfTornWorkspace ==
  \A h \in Hosts :
    /\ torn[h] => restoring[h] # None
    /\ op[h].kind \notin {"none", "restore"} => ~torn[h] /\ restoring[h] = None

\* What the next plain sync would upload was written by the runtime on this host
\* since workspace and base last agreed, or alf has set the two apart itself: an
\* import left a record in place, or --recover or the adoption of a first sync
\* put the cloud's base under the workspace (these do take back what other hosts
\* pushed).  In particular no interrupted restore, and no edit during a sync,
\* makes the next sync take back what the cloud holds.
UploadsOnlyLocalEdits ==
  \A h \in Hosts :
    pc[h] = "idle" /\ restoring[h] = None /\ base[h] # None
      => ChangedKeys(base[h], ws[h]) \subseteq own[h] \cup left[h]

\* The E3 guard holds from its check to the upload: unless some operator uses
\* --force-first-sync, or an upload given up arrives in between, a first
\* snapshot finds no snapshot, or one whose history this very host began and was
\* interrupted in, whatever markers, wiped machines and lost replies are about.
\* (What other hosts have put on top of it since is not spared: a sequence of 0
\* is taken for an empty history, and the first snapshot may have it.)
FirstUploadContinuesOwnHistory ==
  \A h \in Hosts :
    pc[h] \in {"mark", "put"} /\ op[h].kind = "first" /\ spent["force"] + spent["late"] = 0
      => cloud.snap = None \/ founders = {h}

\* docs/how_alf_syncs.md section 6.1: the snapshot a tracked change uploads
\* supersedes the intervening deltas losslessly.  PUT snapshot is not compared
\* with any sequence, so that takes a base that is still the service's head.
ResnapshotIsLossless ==
  \A h \in Hosts :
    pc[h] = "put" /\ op[h].kind \notin {"none", "first"} => base[h] = cloud.head

-----------------------------------------------------------------------------
(***************************************************************************)
(* Liveness                                                                *)
(***************************************************************************)

\* A workspace that differs from its base does not stay so: the change is
\* uploaded (or taken back), whatever finite number of faults intervenes.
ChangesReachTheBase ==
  \A h \in Hosts :
    cursor[h] # None /\ ws[h] # base[h]
      ~> cursor[h] = None \/ (ws[h] = base[h] /\ pc[h] = "idle")

\* An interrupted head restore does not park a host for ever.
InterruptedRestoreCompletes ==
  \A h \in Hosts : restoring[h] # None ~> restoring[h] = None

-----------------------------------------------------------------------------
\* The exported archives that may still reach the service.
PendingArchives ==
  {op[h].exp : h \in {g \in Hosts : op[g].exp # None}} \cup {r.exp : r \in wire}

\* The cloud head is one whole exported archive, unless a delta met a version
\* that had been issued twice.
Published == INSTANCE PublishedArchives
               WITH head <- cloud.head, version <- cloud.latest,
                    readings <- cloud.readings, drafts <- PendingArchives

PublishedSpec == Published!Spec

=============================================================================
