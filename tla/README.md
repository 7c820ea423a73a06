# A verification project for agent-life-adapters

`alf` keeps the memory of an AI agent in step with a cloud service: it exports a
runtime's workspace into an `.alf` archive, uploads a snapshot or a delta, and
restores the archive on another machine. An MCP server (`alf mcp`) syncs by
itself when the workspace changes. This directory holds TLA+ modules that model
the program, the configurations under which TLC checks them, and theorems about
them that TLAPS checks.

Run from this directory:

    tlc -workers 2 -config sync_two_hosts.cfg MCAlfSync.tla
    tlapm AlfSyncProofs.tla

`PROJECT.json` lists components, runs, mutants, hazards, findings and theorems,
and maps every definition to the lines of the source it models.

## 1. The system

| Component | State it keeps | Operations | Talks to |
|---|---|---|---|
| Sync (`commands/sync.rs`, `state.rs`) | per agent under `~/.alf/state`: the delta base `{id}-snapshot.alf`, the cursor in `{id}.toml`, the first-sync marker | `run`, `run_one_agent`, `sync_one`, `execute_first_sync`, `execute_delta`, `persist_local` | adapter (export), service client, lock |
| Head restore (`commands/restore.rs`) | `{id}.restore-inflight.json`, base and cursor; preview directories | `perform_restore`, `fetch_cloud_base`, `persist_cloud_base`, `pull_cloud_base`, previews | service client, adapter (import), sync (which it blocks) |
| Service client (`api_client.rs`) | none | register, snapshot, delta, restore, delete | the service |
| Sync service (external) | agent row with `latest_sequence`, latest snapshot, deltas | PUT snapshot, POST deltas with a compare-and-swap, GET restore | all hosts |
| Archive algebra (`alf-core`) | none | `AlfWriter`, `compute_delta`, `apply_delta`, `rebuild_snapshot`, `reconcile`, `chunk` | sync, restore |
| Watch scheduler (`mcp/watch/engine.rs`) | per source: dirty, dirty_count, last change, last fire; parked, backoff, recovery and budget counters | `mark_dirty`, `set_sources`, `poll`, `record_result`, `abort_in_flight`, `set_config`, `clear_park`, `park` | its driver, the MCP tools |
| Watch loop driver (`mcp/watch/mod.rs`, `rescan.rs`, `registration.rs`) | event channel, fingerprints, restore count, lock strikes | `run_loop`, `run_due`, `rescan`, `refresh_surface` | engine, locks, sync |
| Watch surface (each adapter's `watch.rs`) | none: derived from the workspace | `watch_targets` | the driver, and the export whose inputs it must cover |
| MCP server (`mcp/mod.rs`) | the in-process sync lock | `alf_sync`, `alf_restore`, `alf_watch_set`, `alf_vault_*`, `alf_track` | all of the above |
| Agent lock (`watch/lock.rs`) | one flock per agent | `try_acquire`, `acquire_timeout`, `acquire_blocking` | sync, restore, vault, watch loop |
| Vault and its migration (`vault.rs`, `vault_key.rs`, `vault_migrate.rs`) | the encrypted vault file, its key file, `<keypath>.new` | add, delete, rotate-key, migrate | agent lock, export |
| Tracked files (`alf-core/include.rs`, `add.rs`) | `.alf-include.json`, `.alf-sync-log.md` | add, remove, prune, mark inert | sync, restore |
| Discovery and mapping (`discovery.rs`, `selector.rs`, `config.rs`) | `[[agents]]` of the configuration, `.alf-agent-id` pins | discover, reconcile, persist, select, enable, disable | adapters |
| Adapters (openclaw, hermes, zeroclaw, generic) | none | export, import, watch targets | workspaces |
| Purge (`commands/purge.rs`) | deletes the cloud agent, cursor, base | `run` | service |

What makes it hard:

* **Several writers of one agent.** Hosts share only the service. A delta is
  guarded by a compare-and-swap on the sequence, a snapshot by nothing.
* **Two durable files per step, and SIGKILL as normal shutdown.** Base and
  cursor, marker and upload, import and restore guard, vault and key are written
  one after the other; the process may be killed between any two.
* **Lost and late answers.** A request may be carried out though its client
  never learns of it, now or later.
* **The workspace never stands still.** The agent writes it while `alf`
  exports, uploads or imports.
* **A scheduler with memory.** Recovery, backoff, budgets, parks and gestures of
  the operator interact over long sequences of legal calls.
* **Identity without ids.** Markdown sections have no ids: what keeps a record
  the same record through moves, edits and repeats is a matching of texts. The
  agents of a runtime are matched with the mapping's rows in much the same way.
* **Stale conclusions.** Discovery, the duplicate guard, the export's choice of
  files and the surface act on what was true when they looked.

What makes each component correct, with the property that says it:

* sync: a host whose cursor is current holds as its base an archive that this
  sequence stands for (`CursorNamesBase`), so that an accepted delta means what its
  exporter meant (`AcceptedDeltaFits`); a first sync supersedes no history but its
  own (`FirstUploadContinuesOwnHistory`); every change is uploaded in the end
  (`ChangesReachTheBase`);
* restore: a half-imported workspace is not synced (`NoSyncOfTornWorkspace`), and
  the next sync uploads local edits or what alf itself is known to have left apart
  (`UploadsOnlyLocalEdits`);
* service: the head is one exported archive, unless a delta met a sequence that had
  been given to two (`PublishedSpec`);
* scheduler: no change is forgotten (`ToldChangesStayDirty`), one automatic
  recovery and then a park (`RecoversOnceThenParks`), no hot loop
  (`NoHotLoop`), every dirty source is synced in the end;
* driver: one operation at a time, no change and no new source unnoticed;
* surface: what the export reads is watched (`ExportsAreWatched`);
* records: archives validate, the cloud agrees with the base, identities last;
* tracked files: no add is lost, no external file leaves without consent;
* vault: every record opens, no add is lost, no silent duplicate, whatever a
  restore or an import does beside the commands;
* mapping: discovery settles, and selection follows it.

## 2. The modules

| Module | Models | Uses |
|---|---|---|
| `Archive` | archives as functions from records to versions; `Diff`, `Apply`, imports | |
| `SyncService` | the service as operators on a record | `Archive` |
| `AlfSync` | sync and head restore of one agent on several hosts | `SyncService` |
| `PublishedArchives` | abstract specification of `AlfSync`: the head is one whole draft, unless its version was issued twice | |
| `AlfSyncInv` | the inductive invariants `IInv`, `HostsOK`, `FirstOK` | `AlfSync` |
| `AlfSyncProofs` | theorems about `AlfSync` | `AlfSyncInv`, TLAPS |
| `SyncScheduler` | abstract scheduler: what a driver may rely on | |
| `WatchEngine` | the scheduler, with its callers as the environment; implements `SyncScheduler` | |
| `WatchEngineProofs` | theorems about `WatchEngine` | `WatchEngine`, TLAPS |
| `WatchLoop` | the driver, the MCP tools and other processes around an abstract scheduler | `SyncScheduler` |
| `WatchLoopProofs` | theorems about `WatchLoop` | `WatchLoop`, TLAPS |
| `WatchSurface` | what each runtime watches beside what it exports | |
| `WatchSurfaceProofs` | theorems about `WatchSurface` | `WatchSurface`, TLAPS |
| `Vault` | vault commands, migration, key rotation, exports and imports, kills | |
| `VaultProofs` | theorems about `Vault` | `Vault`, TLAPS |
| `ArchiveFormat` | the archive writer, deltas, the rebuild, validation | |
| `Extraction` | sections and rows, birth ids, what a restore writes | `ArchiveFormat` |
| `Curation` | reconciliation and the records' way through syncs and restores | `Extraction` |
| `CurationProofs` | theorems about `Curation` | `Curation`, TLAPS |
| `TrackedFiles` | include list, externals, raw trees, sentinels, skills and sessions | |
| `TrackedFilesProofs` | theorems about `TrackedFiles` | `TrackedFiles`, TLAPS |
| `AgentMapping` | discovery, mapping, selection, ZeroClaw's slices | |
| `AgentMappingProofs` | theorems about `AgentMapping` | `AgentMapping`, TLAPS |
| `MC*` | values and symmetries for TLC | |

Composition: `WatchLoop` is composed with the scheduler through
`SyncScheduler`. Its driver takes exactly the abstract steps, and `WatchEngine`
is shown to take only those (`SchedulerPromises`, checked and proved), so what
`WatchLoop` shows of any scheduler holds of the engine.

### AlfSync

Per host `h`: the workspace `ws[h]`; the durable files `base`, `cursor`,
`marker`, `restoring`; and the process that holds the agent lock: `pc[h]` and
its locals `op[h]`, lost with the process. The lock makes one program counter
per host exact. `cloud` is the service, `wire` the uploads whose client gave up.
Each request and each durable write is one action, in the order of the code:

| Path | Actions |
|---|---|
| first sync | `SyncOne`, `Register`, `MarkFirstSyncInflight`, `UploadSnapshot`, `PersistLocalBase`, `PersistLocalState`, `ClearFirstSyncInflight` |
| adoption of an interrupted first sync | `SyncOne`, `Register`, `FetchCloudBase`, `PersistCloudBase`, `PersistCloudState`, `ClearFirstSyncInflight`, `ExecuteDelta`, ... |
| delta or re-snapshot | `SyncOne`, `ExecuteDelta`, `UploadDelta` or `UploadSnapshot`, `PersistLocalBase`, `PersistLocalState` |
| `--recover` | `SyncOne`, `FetchCloudBase`, `PersistCloudBase`, `PersistCloudState`, `ExecuteDelta`, ... |
| head restore | `StartRestore`, `FetchCloudBase`, `SaveRestoreInflight`, `ImportPartly`/`ImportArchive`, `MarkRestoreImported`, `PersistCloudBase`, `PersistCloudState`, `ClearRestoreInflight` |

The environment edits workspaces, kills processes (`Kill`), fails requests
(`RequestFails`), loses replies (`RegisterLost`, `UploadLost`), delays uploads
(`UploadLate`, `Arrive`), deletes a base (`LoseBase`) and empties a machine
(`Wipe`). History variables, used by properties only: `own[h]`, the records this
machine's runtime wrote since base and workspace last agreed; `left[h]`, the ones on
which alf itself has set the two apart, because an import left a record in place, or
`--recover` or the adoption of a first sync put the cloud's base under the workspace;
`torn`, the workspaces an import has half written; `founders`, the hosts that put a
first snapshot.

An import may replace a record or keep it, one by one (`ImportResults`): the file
adapters overwrite, ZeroClaw leaves the files that exist alone
(`adapter-zeroclaw/src/import.rs:484`), total and merge restores differ on what the
archive does not have.

Abstractions: a record has a few versions, `Blank` is "no record"; digests are
the archives themselves; the export is one step; a restore is asked for the
workspace it was begun in (another one is refused before it does anything).

**The service and `SnapshotSteps`.** The repository says two things about the
sequence of a snapshot. `docs/how_alf_syncs.md` section 6, `sync.rs:350` and
`1208-1209` and the rollover of `tests/common/mod.rs` write it at the current
sequence, the first one at 0; `put_snapshot` of the same mock takes the next one. The
constant `SnapshotSteps`, a set of 0 and 1, says by how much a PUT may advance the
sequence, and the theorems hold for each of its values. Where a snapshot takes no
sequence of its own, one sequence may stand for two archives, and the
compare-and-swap cannot tell them apart. `readings` of the service is the set of
archives that the latest sequence stands for: a snapshot on a taken sequence adds
one, a delta is applied to each, and a snapshot with a sequence of its own leaves one.
The properties say what is true of it:

* a current cursor's base is *a reading*, and an accepted delta takes *a reading* to
  its exporter's archive. As long as there is one reading, it is the head. The
  stricter forms fail under the documented semantics, which TLC showed when they were
  tried: for one host, between a PUT and the replacement of its base; for two, when
  one re-snapshots, the other keeps its cursor and its next delta is accepted on top
  of a snapshot it has never seen (`docs/how_alf_syncs.md` E7 expects a conflict);
* a sequence of 0 is no proof of an empty history (section 5), so a first upload is
  only sure to continue a history that its own host began.

### WatchEngine and SyncScheduler

`src` is the map of `SourceState`s (its domain is the registered surface), `inFlight`
the counts taken at the poll, `policy` the park, backoff and budget fields. Instants
are kept as elapsed times that saturate where no guard can tell the difference, so
`Elapse` is the only clock. Every method of the engine is one action, as the code
holds one mutex over each; `PollSync` and `PollRecover` are the two non-idle answers
of `poll`, and the `Record...` actions the classes of `record_result`. Between a poll
and its result the loop's own task is inside `run_due`: only tools, on other tasks,
may then mark a source (`ToolSources`, the vault), change the configuration or clear a
park. A surface says anew of each source whether it is a tracked one, and so which
interval it has (`SetSources`, `Interval`). `owed` is a history variable: the freshest
change of a source the engine was told of and that no successful sync has covered
since.

`SyncScheduler` keeps of this which sources are dirty, which of them the sync in
flight covers, and whether the engine is halted; when it answers a poll is left
open. The refinement maps `covered` to the sources of `inFlight` whose count has
not moved.

### WatchLoop

`at` is where the loop's task is: `select!`, the rescan, `run_due` before and
after the poll, the export, the upload. `queue` is the watcher's channel,
`notified` the root registrations (a dead one looks active), `seen` the complete
fingerprints, `degraded` the sources whose scan fails, with their scans since
they were dirtied, `nextSource` the round robin's cursor, `resurface` the
one-shot refresh request. `serial` is the server's `sync_lock`, `agentLock` the
flock, `restoring` the holders of a restore guard. Tools of the server and other
processes are `Tasks` with a `Kind`; each of their steps is an action, with
`agent_busy` (`Busy`), failures and kills. A source's content is a version, and
`synced` is the version in this host's base: a sync that ends writes what it
*read*, which may be older than the disk.

### WatchSurface

For each runtime the watch targets it derives from the workspace
(`ComputeSurface`) and the image its export would pack (`Image`), both from the
same files: control files, the include list, `.alfignore`, the map, stores with
their logs, directories the runtime owns, external entries. Every event of a
watched path arrives, at some time; a rescan reads everything; timing, locks and
lost events are `WatchLoop`'s. The loop's own sync follows a tick that found
something due (`due`), and no event is read in between, as `run_loop` awaits it; a
sync by hand (`ManualSync`) may come at any time and cleans no source.

### Vault

A vault is a set of records, a record is sealed under one key and has a name: a
service and a label. The duplicate guard compares both, an update goes by the label
(`LabelOf`). A process runs one command: every wait for a lock, every read and every
durable write is a step, and `Die` may come between any two. The automatic migration
precedes every command, under locks that are dropped before the command takes its
own; a copy across devices that is killed half way leaves a torn vault or a broken
key file (`DieCopying`). A rotation reads the vault before it looks for what an
interrupted one has left.

Beside the commands an export reads the vault into an archive (`Export`), without
its lock, and a restore or an import overwrites the whole vault with the archive's
(`Import`, `restore_agent_vault` of the four adapters). A restore of the head holds
the agent's lock, which is the vault's (`restore.rs:919`, `1005`); `alf import` holds
none, so it may land inside any command. The model takes the weaker of the two for
both. An archive may be as old as one likes: it is imported any number of times.
Archives made on another host are left out, as is the vault that such an archive
brings to a machine without a key.

History: `homes`, the agents a migration has moved a file to; `added`, `gone`,
`dropped`, the records reported as added, deleted or replaced, and written over by an
import; `returned`, what an import brought back; `retired`, the keys that a rotation
has replaced.

### ArchiveFormat, Extraction, Curation

`Extraction` reads sections or rows off a workspace, in the order of each
runtime; `Reconcile` (in `Curation`) carries identities from the base in the
five passes of `reconcile.rs`; `ArchiveFormat` has the writer, the delta, the
replay and what `alf validate` asks. The agent edits, retitles, inserts, removes,
moves and touches sections, adds, edits, supersedes and forgets rows, and then
syncs or restores. `base` is the archive of the last sync, `cloud` the snapshot
and the deltas the service would replay. A restore writes over the workspace's files,
except in a ZeroClaw install, where it leaves every file that is there (`Unpacked`).

### TrackedFiles

Per host the files, the include list and its log, one sync, restore or import
with its steps, and one `alf add` beside it; the pruning, the choice of the files
and their reading are steps of their own. The service is a head and a version
here: its conflicts are `AlfSync`'s. The pruning saves the list and then appends its
log: `unnoted` is a history variable that holds the files a prune killed in between
took off the list without a note (`include.rs:217-218`), and `acked` what `alf add`
reported.

### AgentMapping

The runtime's agents, the rows of `config.toml`, the pins, ZeroClaw's slices and
the archives exported under each id. A command loads the mapping (`Check`,
`LazyInit`), discovers the install and the pins by that reading (`Discover`) and
persists the outcome in a later step (`Persist`, `Seed`); another command selects a
row, and exports later. A row that a user has written by hand may name no runtime
(`HandWritten`): it is every runtime's (`config.rs:192`). A discovery with a new
agent always writes, one that finds an old row as it is does not (`Dirty`). The
agents table and the pins are read in the one step of `Discover`.

## 3. The runs

| Run | Question |
|---|---|
| `sync_two_hosts` | two hosts: does any interleaving of syncs and restores, of snapshots that take no sequence, with a process killed anywhere, a machine that comes back empty, an upload that arrives late or a forced first sync, part a base from its cursor, sync a torn workspace, supersede another's history, or mix a head from two archives though its sequence stood for one? |
| `sync_liveness` | one host, snapshots that take a sequence or none: is every change uploaded, and every interrupted restore completed, after a kill, a failure, a lost reply and a lost base? |
| `watch_policy` | does the scheduler forget a change, loop hot, recover twice, starve a source, or break a promise to its driver? |
| `watch_loop` | may two operations overlap, a change or a new source go unnoticed, or a source starve, whatever events the watcher loses? |
| `watch_surface` | each runtime: is what an export packs watched, do tracked edits keep their cadence, do refreshes end? |
| `vault_store` | three commands that are killed anywhere, beside exports and imports: is a record lost, doubled, or sealed for ever? |
| `curation` | each runtime: do archives validate, the cloud agree, ids stay unique and lasting, deltas stay smallest, restores bring the memory back? |
| `tracked_files` | two hosts: is an add lost, an external packed without consent, a head unlike its base, a restored workspace unlike its archive? |
| `agent_mapping` | does discovery settle, do both ways of matching agree, does a restored slice touch another agent's? |
| `claim_lossless_resnapshot`, `claim_rows_pair_by_id`, `claim_foreign_row` | each finds one sentence of the repository violated, see section 5 |

**Bounds, and why they are enough.** Every conflict of the sync protocol compares one
host's past with the service's present: two hosts suffice, and a third only adds
another writer. One delta-able record and one tracked file exercise both upload
channels; two versions of a record (one of them absence) distinguish create, update
and delete. A behaviour of `sync_two_hosts` has up to one edit and one kill or one
wiped machine, or no edit and one late upload or one forced first sync (`Limits`);
`MaxSequence = 2` leaves room for a delta on top of another, and snapshots take no
sequence. The liveness run has room for every upload its edits can cause (`MaxSequence
= 9`), so that the bound never blocks it. `sync_two_hosts` and
`claim_lossless_resnapshot` take the documented sequences, `SnapshotSteps = {0}`,
where sharing a sequence is possible; `sync_liveness` takes both at every PUT. What
these bounds leave out of the safety properties, two hosts with `SnapshotSteps = {1}`
among it, the proofs of section 4 cover: they hold for all hosts, records, faults and
sequences. For the scheduler, `Allowance` permits three failures, so that a budget of
three can be exhausted around a recovery; intervals and delays of 1 to 3 steps are
long enough to be inside and outside each of them; the marks cannot reach `MaxCount`;
of the two cadences of a source one equals the tracked channel's and one does not, so
that a source which becomes tracked, or ceases to be, may wait for less or for more.
In `watch_loop` one source per rescan and three sources make the round robin wrap
while the surface shrinks and grows; `RedirtyScans = 2` distinguishes the first scan
of a degradation from the next ones; two disturbances (writes, lost events, replaced
roots, errors, calls) suffice for one to overlook what the other did. In `vault_store`
two agents and one change of the mapping make a migration and a command disagree on
the scope; three processes, of which two run at a time (`MaxAtOnce`), are two
rotations or adds and a command before, between or after them, and an archive of any
of these states may be brought back at any time; `Remap` happens once, and the names
are one, so that every add is like every other (which label an update goes by is left
to the proofs). `curation` gives an agent two edits (three for ZeroClaw, which has
rows alone) and three syncs, over one whole file, one of sections, two rows, one
heading and two bodies: enough for a text to go, to come back and to be repeated.
`tracked_files` has two edits, three jobs and one kill: an add beside a sync, and a
restore of what it made. In `agent_mapping` two processes run three commands beside
two gestures of the user, of which a row written by hand is one; that row has the id
of the only state file, and the workspace that the second runtime is pointed at.

**Symmetry** is used between hosts, processes or bodies, in runs without liveness
properties only. **Deadlock** is not checked where the bounds make behaviours end
(`vault_store`, `curation`, `tracked_files`, `agent_mapping`).

**Fairness.** `AlfSync`: a process that holds the lock runs on (`WF` of its
steps); the watch loop or cron keeps asking for a sync, with `--recover` after a
conflict or a missing base as the engine does, and an interrupted restore is run
again as every refused sync asks. These two are strong: they are offered whenever
the host is idle, which another operation may interrupt. Nothing is assumed of the
environment, whose faults are finitely many. `WatchEngine`: time passes, the
ticker polls on every tick, and an authorised sync ends (`run_due` awaits it and
every branch records or aborts). `WatchLoop`: the loop's task takes its next step
and so do the tools (tokio runs what is ready); an idle answer is always possible;
`Poll` with something dirty is strongly fair, because when the engine answers
"sync" is abstracted to a choice, and the engine's own `DirtySourcesAreSynced`
says that it does in the end. `WatchSurface`, `Vault`, `Curation`, `TrackedFiles`
and `AgentMapping` have safety properties only and assume nothing.

**Mutants.** Definitions called `Faulty...` (and `StartOver`) hold one plausible
bug each. Putting one in place of the definition it precedes makes the property of
its run fail; `PROJECT.json` pairs them.

**What properties exempt.** `CursorNamesBase`, `AcceptedDeltaFits` and
`PublishedSpec`: which of two archives a sequence stands for, when a snapshot was put
on a sequence already taken (`readings`). `UploadsOnlyLocalEdits`: what an import left
in place, and what `--recover` or an adopted first sync takes back (`left`).
`FirstUploadContinuesOwnHistory`: forced first syncs, and behaviours with a late
upload; and what other hosts have pushed on top of a host's own first snapshot.
`UnsyncedIsNoticed`: sources whose first scan came after the change (`overlooked`);
`SurfaceChangeIsNoticed`: the same of the source that defines the surface (`stale`).
`ExportsAreWatched`: a store that appears at a place ZeroClaw prefers to the one it
watches, and what a sync packed of it (`StoreIsWatched`). `TrackedEditsKeepCadence`:
paths that a tracked and a plain source both watch (`Kind`). `EveryRecordOpens`:
installs whose files were migrated to two agents (`homes`), and records that an
archive brought back from before a rotation (`Locked`), as
`docs/vault-key-management.md` says. `AddsSurvive`, `NoSilentDuplicates` and
`RotationLeavesOneKey` of `Vault`: what an import itself wrote over or brought back
(`dropped`, `returned`). `AddsSurvive` and `ExternalsNeedConsent` of `TrackedFiles`:
hosts where an add ran beside an import (`crossed`); `AddsSurvive` also files that a
prune, killed between its two writes, took off the list without a note (`unnoted`).
`HeadMatchesBase`: Hermes's skills. `ArchivesValidate`: rows with an empty text.
`RestoreBringsItBack`: archives in which two records claim one row (`Clash`).
`DiscoverySettles`: pins that are the identity of another row (`Doubled`). In each of
them what is exempt is a real gap of the code, named in section 5 or among the
hazards.

The type definitions `TrackedTypeOK`, `MappingTypeOK`, `LoopTypeOK`,
`SurfaceTypeOK` and `VaultTypeOK` document their modules and were checked while
these were written; no run spends a property on them.

## 4. The proofs

Everything here holds for every value of the constants that satisfies the modules'
assumptions: every number of hosts, records, sources, tasks and faults, every
interval, budget and bound. The assumptions are the `ASSUME`s of the modules: bounds
are natural numbers, a blank is a version, the backoff has 1 to 6 steps, as in the
code, `MaxCount > 1`; names that the models keep apart are apart (`None` is no phase
of a restore, nobody is no process, the sentinels are no files of the user,
a file inside the workspace is none outside it); an install has finitely many agents;
a snapshot takes one sequence or none, and each PUT may choose (`SnapshotSteps`). Each
invariant was checked by TLC on the runs' instances before it was proved.

**`AlfSyncProofs`: what the compare-and-swap guarantees** (`Invariance`, `TypeCorrect`,
`CursorNamesBaseHolds`, `AcceptedDeltaFitsHolds`, `CursorWithinHistoryHolds`). That
the base a sync saves is a reading of its cursor depends on what the sync knew when
its upload was answered, several steps earlier and before other hosts moved: the
properties are not inductive. `IInv` says so phase by phase: a pair of a sequence and
an archive that an operation carries is out of date or one of the latest sequence's
readings (`Names`), a cursor never exceeds the sequence in hand, an exported archive
stays what it was (`PhaseOK`), and a delayed delta is refused or fits (`WireOK`). An
upload that takes a sequence puts all other pairs out of date at once; one that takes
none only adds a reading, and leaves all pairs what they were. There is one lemma per
action; lemmas about `Diff` and `Apply` carry the delta.

**`AlfSyncProofs`: what a host knows of itself, and what the world sees**
(`HostsInvariance`, `FirstInvariance` and what follows from them).
`HostsOK` ties a host's phase to its files: the restore guard is on disk from
before the import to its end, a workspace is whole from the end of the import on, a
sync never runs beside either (`GuardOK`); and whatever differs from the archive
that counts in that phase (the base, the export, what the restore brought) was
edited here or left apart by alf itself (`OwnOK`); from an export only the first, as
nothing but the runtime writes during a sync. It yields `NoSyncOfTornWorkspace` and
`UploadsOnlyLocalEdits`, and it is inductive only together with `IInv`, which says
what the base is at the end of a restore. `FirstOK` follows the claim to the first
snapshot from the registration that created the agent through the marker to the
upload: unless somebody forces, one host at most holds it, and it is the one that put the
first snapshot if there is any (`founders`), which yields
`FirstUploadContinuesOwnHistory`. `PublishedSpecHolds` is the refinement: an export
drafts an archive, a snapshot publishes a draft under a new sequence or reissues the
current one, a delta amends it, everything else stutters; that a delta publishes a
*whole* draft while the version stands for one archive is `IInv` again.

**`WatchEngineProofs`: the scheduler** (`Invariance`, `TypeCorrect`,
`ToldChangesStayDirtyHolds`, `RecoversOnceThenParksHolds`, `NoHotLoopHolds`).
`EngineInv` adds what the properties leave unsaid: a dirty source has a positive
count and one marked since the poll a higher count than the poll saw (`FlightOK`,
without which a success could clear a change it did not carry), a running sync is
neither parked nor waiting, a budget that is used up parks (`BudgetsLeft`), a
recovery that was tried is remembered while it counts, and what a failure leaves
behind until time passes. `SchedulerPromisesHold` is the refinement of
`SyncScheduler`, one step at a time: marks, surface changes, polls, successes,
failures and gestures map to its actions, clocks and counters to stutters.

**`WatchLoopProofs`: the loop, the tools and other processes** (`LocksInvariance`,
`OneOperationAtATimeHolds`, `NoticeInvariance`, `UnsyncedIsNoticedHolds`,
`SurfaceChangeIsNoticedHolds`). `LocksInv` ties each place of the loop and each stage
of a task to the lock it holds. `NoticeInv` compares the four versions of a source
that the model keeps: what is on disk, what was last seen, what an operation has
read and what is in the base. None is ahead of the disk and the base is never ahead
of what is being read (`VersionsGrow`); what the loop's sync covers is what it read,
unless it changed since (`LoopReads`), and a sync or a restore by hand, which cleans
nothing, leaves dirty or unseen whatever changed under it (`TaskReads`). The last two
need that there is one reader, so `LocksInv` comes first. Nothing is assumed of the
scheduler's cadence, the watcher or the budget of a rescan.

**`VaultProofs`: no credential is lost and none is locked away** (`VaultInvariance`,
`EveryRecordOpensHolds`, `AddsSurviveHolds`, `NoSilentDuplicatesHolds`,
`RotationLeavesOneKeyHolds`). The argument is rely and guarantee. `ProcInv(p)` says
what process p relies on where it is: the locks it holds, that what it has read is
still in the file, that the two sides of a migration agree, that the key it staged is
the one that waits. `Frame(p)` says what a step of p leaves alone: every file whose
lock p does not hold, and the end of the migration, which never comes undone; so the
steps of others keep each `ProcInv` (`OthersKeep`), and every action owes only its
own. `KeysInv` is about the files: each record of an agent opens with the agent's key,
with its pending key, or, if the agent is where the install-scoped vault went, with the
install's key (`HasKey`); that it must be one agent is the hypothesis of
`EveryRecordOpens`. An import obeys no lock, so it has no `Frame`: it has to keep every
`ProcInv` itself. What a command has read is then in the file, or the difference was
brought back (`returned`) or written over (`dropped`), and that is all that `ReadInv`,
`RotateInv` and `GuardInv` claim. That what it brings back opens needs an invariant of
archives: a record of one has a key in reach or one that a rotation has retired
(`ArchiveKeys`), and it is in the vault still unless it was deleted, replaced or
overwritten (`ArchiveInv`).

**`TrackedFilesProofs`: adds, consent and archives** (`FilesInvariance`,
`AddsSurviveHolds`, `ExternalsNeedConsentHolds`, `HeadMatchesBaseHolds`,
`RestoreRoundTripsHolds`). `HostInv(h)` is what holds of one host; a step of another
one changes nothing of it but the service's version, which only grows (`OthersKeep`),
so each action owes only its own host's. `LockInv` says who holds the list's lock, and
that what its holder has read is still the list, unless an add ran beside an import,
which takes no lock: that host is `crossed`, and the hypothesis of the first two
theorems is that it is not. What leaves the list is noted in the log or about to be,
or its prune was killed between the two writes (`unnoted`). `ConsentInv` follows an
external entry through an import: entries may lack consent while the import goes on,
or its mark is there, and no sync runs then. `BaseInv` ties cursor, base and head; a
delta is rebuilt to the archive that it was made from (`RebuiltFacts`) because only a
host whose base is the head has its delta accepted. `FreshInv` says how much of an
archive a new machine holds after each step of its import, and `Tidy` that an
archive's tree holds nothing its own list would not make an export take. Two
properties were corrected on the way: what a restore replaces includes the log, with
the notes about pruned files, and a machine is new only until a restore finds
something on it.

**`AgentMappingProofs`: slices** (`StoreInvariance`, `RestoreTouchesOneSliceHolds`).
The id a slice lands on is decided by the agents table and the archive, not by the
mapping, so `StoreInv` is about the store alone: ids of agents and rows are given
once (`Roster`, `Memories`), aliases name one agent, and archives carry ids that were
given (`Carried`). With it, an id that is no agent's, or the alias's own, is nobody
else's (`TargetIsNobodyElses`), and neither way of writing a slice touches the rows
of another owner (`TotalRestore`, `MergeRestore`). An import that gives an agent an
id of its own must not give one again, which is the guard the proof asked for.

**`AgentMappingProofs`: the mapping** (`MappingTypeOKHolds`,
`SelectionFollowsDiscoveryHolds`). `TypeInv` adds to `StoreInv` what the mapping, the
pins and the processes may hold, `Held` for a command that has read and not yet
written. One part of it is no type: a mapping gives an id to one row (`OnePerId`),
which both ways of writing it back preserve, because they replace by id. Discovery's
passes over the rows are recursive functions of how many rows have been taken; each is
unrolled once, from well-founded induction (`FoldExists`, `FoldUnrolls`), and what
every step of a pass keeps the pass keeps (`FoldKeeps`), so the types of a discovery
are facts about single steps. For the second theorem, a discovery with nothing to
write has found the row refreshed to itself, so the row names the binding's workspace
and id, and the first binding that fits such a row is that one, as a binding is known
by either (`SameBinding`, `SelectedAsMatched`).

**`WatchSurfaceProofs`: what an export reads is watched** (`SurfaceInvHolds`,
`ExportsAreWatchedHolds`, `TrackedEditsKeepCadenceHolds`, `RefreshesSettleHolds`,
`SurfaceTypeHolds`). A surface depends on the control files (the include list, the
map or the configuration) and, for ZeroClaw, on which store there is. `SurfaceInv`
says that the surface in use is that of some disk, and that for each control that
disk has in another version there is an event, or it has been read, its source is
dirty and a refresh comes before the sync: `due` is what makes that inductive. The
static half is one lemma per runtime: what its sources cover (`OpenClawCovers`, ...),
and that an export reads no other path (`ReadsSuffice`, `UnwatchedIsUnread`), so a
write nobody watches changes no archive. Which source an event dirties is a maximum
over a finite set of ranks (`CoveredIsWatched`, `OwnSourceWins`). `CadenceInv` says of
a time in which only tracked files were written that nothing else is pending, dirty
or different from the last scan, and that a refresh would find every untracked source
as it is (`SameUntracked`, `UntrackedMiss`). The first attempt corrected the model:
the loop syncs only at the end of a tick, and a store that comes, is synced and goes
again is part of the gap that `StoreIsWatched` names.

**`CurationProofs`: records, archives and what the cloud replays**
(`CurationInvHolds`, `NoSyncIsRefusedHolds`, `CloudAgreesHolds`,
`ArchivesValidateHolds`, `HeadingKeepsIdentityHolds`). The induction over data that
this needs is over indices. `Keep`, `Grouped`, `AddMemoryPartitions`, `Replayed`,
`CountOf` and the library's `FlattenSeq` are recursive functions on `0..n`; each is
unrolled once, from well-founded induction (`RecursionExists`, `RecursionUnrolls`),
and what it returns is then shown for a set of indices (`Induction`). From there:

1. the writer. Grouping by quarter loses no record and shares none (`GroupFacts`,
   `GroupsDisjoint`), so a sequence without a repeated id is accepted, and what is
   written is `Sound`: it counts right, is in order, and gives the records back
   (`WriterAccepts`, `WriteSound`);
2. the delta. What `compute_delta` makes of two archives without repeated ids,
   `apply_delta` makes of the first the second, as a set (`DeltaApplies`), and
   likewise trees and documents (`RawApplies`, `ReplayAgrees`); the order is the
   replay's own, so that the next delta is computed from the base and applied to
   something that agrees with it;
3. reconciliation. The passes are one matching: each takes what the ones before have
   left, no record is paired twice (`RankedFacts`, `MatchingGrows`), what is paired
   has the other's id, and what is left gets one that no record of the base has and
   no earlier leftover was given, one of the first `Cardinality(taken) + 1`
   (`FreshFacts`, `TakenUnrolls`). That no id comes twice is `ReconcileFacts` and
   `ReconciledFacts`, and it needs that an id's scope is its record's (`RecordOK`),
   since identities are carried across files by the passes that look at ids alone;
4. the export. Births are told apart by file, text and the number of equal texts
   before (`FileRecordsFacts`), rows by their native id, files and rows by scope
   (`ExtractedFacts`).

`CurationInv` puts them together: the memory has its shape (`MemoryOK`), nothing was
refused, and if there is a base it is `Proper` (sound, its records what an export
can give) and the cloud `Holds` it. It is not the conjunction of the properties: that
a sync is accepted needs what the base's records look like, and that the cloud agrees
after a restore needs that what was rebuilt is proper in its turn. For
`HeadingKeepsIdentity` the second pass has to meet the heading: the passes before can
take its record only together with its partner (`SlotsMeet`, `IdentityKept`). Assumed
are finitely many files and rows (an export lists them), that a native row id is no
birth id (they come from different namespaces), and that absence is no number.

**Only model-checked**, and why:

* Liveness (`ChangesReachTheBase`, `InterruptedRestoreCompletes`,
  `DirtySourcesAreSynced`, `ChangesGetSynced`): fairness and
  `ENABLED` are out of the provers' reach.
* `SmallestDelta` and `RestoreBringsItBack` of `Curation`: they compare a whole
  memory with what it was at the last sync, edit by edit, through how many equal
  sections stand before each (the first) and through hashes of rows that may clash
  (the second); both count, which the sets of ids that `CurationProofs` works with
  do not.
* `DiscoverySettles` of `AgentMapping`: it compares two discoveries in a row, each of
  whose passes is a fold, row by row; the lemmas that `AgentMappingProofs` has of the
  folds say what each pass returns, not yet what a second one makes of it.
* The three properties of the `claim_...` runs are false, as section 5 says.



## 5. Where the documentation and the code disagree

Shown by a run:

| Run | Statement | What the code does |
|---|---|---|
| `claim_lossless_resnapshot` | `docs/how_alf_syncs.md:115`: a re-snapshot is lossless; `sync.rs:421`: cross-machine races are the compare-and-swap's job | a re-snapshot carries no base sequence, so it drops what another host pushed since |
| `claim_rows_pair_by_id` | `reconcile.rs:44-47`: rows can only pair by id | pass P1 pairs by scope and content, and all rows of an agent share a scope: a row that takes another's old text takes its id and stash |
| `claim_foreign_row` | `discovery.rs:39-42`, `249-250`: an adoption across runtimes must never happen; a new id was derived | the derivation reads the same pin, derives the foreign id, and `upsert_agent` replaces the other runtime's row |

Met while modelling, without a run of their own:

* `docs/cli-reference.md:888`: a killed sync leaves old base and old state, or
  both new. A kill between the base's rename and the state's save leaves the new
  base with the old cursor; `CursorNamesBase` holds because that cursor is old.
* `sync.rs:198`: sequence 0 with a marker means no history. Where the first
  snapshot is written at 0 (`docs/how_alf_syncs.md:102`, `108`) a resumed first sync
  uploads over a history: its own, which is what
  `FirstUploadContinuesOwnHistory` still promises.
* `docs/how_alf_syncs.md:231`, E7: of two hosts that sync in parallel one is
  refused. With section 6's sequences a re-snapshot takes none, so the other host's
  next delta is accepted, against a base that the head no longer has.
* `api_client.rs:320`: a snapshot PUT carries no base, so one that arrives late puts
  an old archive at the head; to the protocol it is one more publication.
* `sync.rs:184`: a park means that the cloud has a history this machine never
  wrote. A first sync killed between registration and marker is parked though there
  is no history.
* `engine.rs:349`: consecutive auth failures; failures of other classes in between
  do not reset the count (nor that of panics).
* `engine.rs:679`: the recovery attempt itself failed. A recovery that fails on the
  key is dropped, and a plain sync's conflict parks the loop.
* `vault.rs:968`: no key material is ever lost. When a migration was killed between
  its legs and resumed with another target, a rotation replaces the key.
* `docs/hermes-alf-user-guide.md:83` counts skills among what a sync carries; a
  delta leaves them behind.
* `docs/cli-reference.md:560`: discovery never flips an agent's switch. It persists
  the row it read, so a toggle in between is undone.
* `adapter.rs:229-239`, openclaw `watch.rs:7-9`: tracked edits wait for the tracked
  interval. An edit of OpenClaw's include list redefines the workspace source,
  which is not tracked, and marks it.
* `skills/agent-life/SKILL.md:295,307`, openclaw `watch.rs:19-23`: `.alfignore`
  keeps files out. Memory and identity files it names are still parsed and uploaded.
* hermes `watch.rs:6`: `.git` is never watched; a nested one is.
* Two entries of a generic map with the same id are one watch source, redefined,
  and so dirty, at every refresh.
* `mod.rs:925-928`: an overflow marks every source and asks for no refresh.
* `mod.rs:503-505`: the rescan of a directory source marks it for a tracked file
  below it, with the untracked cadence.
* zeroclaw `watch.rs:38-40`: a store created lazily is picked up; it is not, when it
  appears at a preferred place while an older one is watched.
* A record whose metadata alone changed keeps the base's raw source: a restore
  writes the old one. A row without a stash is named after what it supersedes.
  Entries of Hermes's curated files with equal texts collide.
* `manifest.rs:257` against `docs/how_alf_syncs.md:142`: sealed partitions are
  advisory; a carried record may change one.
* `skills/agent-life/SKILL.md:258`: after a conflict, restore and sync again. ZeroClaw's
  restore skips the files that exist (`import.rs:484`) and takes the head for its base:
  that sync uploads the old files over what the other host pushed.
* Rows with empty cells make archives that `alf validate` rejects; labels of
  partitions before the year 1000 sort in the wrong order.

## 6. Not modelled

Purge: it deletes the cloud agent, the cursor and the base without the agent lock,
and lets sequences start again, which needs a service with generations. Previews
and point-in-time restores: they write a preview directory only. `check`, `help`,
`docs`, `login`, `configure`: reports and one-shot writes. Explicit vault paths,
`keygen`, `encrypt`, `decrypt`: they share no lock. The rediscovery of profile
roots in the watch loop: it asks for one more refresh. Parsing and rendering beyond
sections and rows, cryptography, zip containers, attachments, terminal and JSON
output, installation: no protocol state. `PROJECT.json` lists every component.

## 7. What remains

* `AlfPurge` over `AlfSync`: purge without the lock, the markers it leaves, and
  sequences that start again.
* An export that is not one step, so that an archive may mix two workspaces.
