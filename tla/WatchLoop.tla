----------------------------- MODULE WatchLoop -----------------------------
(***************************************************************************)
(* The driver of the watch scheduler, the tools of the MCP server that run *)
(* beside it and other alf processes on the same agent                     *)
(* (alf-cli/src/commands/mcp/watch/{mod,rescan,registration,lock}.rs,      *)
(* alf-cli/src/commands/mcp/mod.rs).                                       *)
(*                                                                         *)
(* The scheduler is SyncScheduler: when a poll answers "sync" is left open *)
(* (but it answers in the end), so the properties hold for every cadence.  *)
(* The content of a source is a version, and a write makes a new one.      *)
(* A definition called Faulty... is the one after it with a plausible bug. *)
(***************************************************************************)
EXTENDS SyncScheduler, Naturals, FiniteSets, Sequences

CONSTANTS
  ScanOrder,     \* the sources in the order of their ids
  Surfaces,      \* the sets of sources a workspace may ask for
  Resurfacing,   \* sources whose change re-derives the surface
  VaultSource,   \* VAULT_SOURCE_ID
  Tasks,         \* tools of this server and other processes
  Kind,          \* what each task does, see Kinds
  ScansPerTick,  \* a rescan starts on this many sources before its deadline
  RedirtyScans,  \* DEGRADED_REDIRTY_SCANS
  MaxVersion,    \* bound: versions of a source
  Disturbances   \* bound: writes, faults, calls and gestures in a behaviour

Syncs == {"sync", "cli_sync"}
Restores == {"restore", "cli_restore"}
Kinds == Syncs \cup Restores \cup {"vault_add", "track"}
Serialized == {"sync", "restore"}  \* the tools that take sync_lock

Loop == "loop"
Nobody == "nobody"
Overflow == "overflow"

ASSUME LoopAssumption ==
  /\ IsFiniteSet(Sources)
  /\ ScanOrder \in Seq(Sources)
  /\ \A s \in Sources : \E i \in DOMAIN ScanOrder : ScanOrder[i] = s
  /\ \A i, j \in DOMAIN ScanOrder : ScanOrder[i] = ScanOrder[j] => i = j
  /\ Surfaces # {}
  /\ \A ids \in Surfaces : ids \subseteq Sources /\ Resurfacing \cup {VaultSource} \subseteq ids
  /\ Kind \in [Tasks -> Kinds]
  /\ Loop \notin Tasks /\ Nobody \notin Tasks /\ Overflow \notin Sources
  /\ {ScansPerTick, RedirtyScans, MaxVersion} \subseteq Nat \ {0}
  /\ Disturbances \in Nat

VARIABLES
  content,    \* per source: the version on disk
  synced,     \* per source: the version in this host's base
  wanted,     \* the surface the workspace asks for
  at,         \* where the loop's task is
  queue,      \* messages of the watcher
  notified,   \* per source: its registration, see Registrations
  seen,       \* per source: the last complete fingerprint
  degraded,   \* per degraded source: scans since it was dirtied
  tooLarge,   \* sources a scan of which fails
  nextSource, \* where the next rescan starts
  resurface,  \* the one-shot request
  serial,     \* who holds sync_lock
  agentLock,  \* who holds the agent's flock
  restoring,  \* tasks that hold a restore guard
  task,       \* per task: where it is
  reading,    \* what the holder of the agent lock exported or imported
  overlooked, \* history: sources first scanned after a change that no sync has
  stale,      \* history: a source that defines the surface was, after a change of it
  left        \* what remains of Disturbances

disk == <<content, wanted>>
polling == <<seen, degraded, nextSource, stale>>
locks == <<serial, agentLock, restoring>>
base == <<synced, overlooked>>
vars == <<scheduler, disk, base, at, queue, notified, polling, tooLarge,
          resurface, locks, task, reading, left>>

Disturb == left > 0 /\ left' = left - 1

Versions == 0..MaxVersion
Unseen == MaxVersion + 1  \* no complete fingerprint yet

\* A dead registration looks active; without a watcher there is none.
Registrations == {"waiting", "active", "dead", "none"}

Places == {"select", "rescan", "due", "polled", "export", "upload"}
Stages == {"idle", "serial", "lock", "inside", "read", "note"}

LoopTypeOK ==
  /\ dirty \subseteq registered /\ registered \in Surfaces /\ covered \subseteq dirty
  /\ running \in BOOLEAN /\ halted \in BOOLEAN
  /\ content \in [Sources -> Versions] /\ synced \in [Sources -> Versions]
  /\ wanted \in Surfaces
  /\ at \in Places /\ (running <=> at \in {"polled", "export", "upload"})
  /\ queue \subseteq Sources \cup {Overflow}
  /\ notified \in [Sources -> Registrations]
  /\ seen \in [Sources -> 0..Unseen]
  /\ DOMAIN degraded \subseteq registered
  /\ \A s \in DOMAIN degraded : degraded[s] \in 0..(RedirtyScans - 1)
  /\ tooLarge \subseteq Sources
  /\ nextSource \in 1..Cardinality(registered) /\ resurface \in BOOLEAN
  /\ serial \in Tasks \cup {Loop, Nobody} /\ agentLock \in Tasks \cup {Loop, Nobody}
  /\ restoring \subseteq Tasks /\ task \in [Tasks -> Stages]
  /\ reading \in [Sources -> Versions] /\ overlooked \subseteq Sources /\ stale \in BOOLEAN
  /\ left \in 0..Disturbances

NoneDegraded == [s \in {} |-> 0]

\* run_loop registers the surface and marks it dirty, to catch up with what
\* was written while no server ran.
Init ==
  /\ wanted \in Surfaces /\ registered = wanted
  /\ SchedulerInit
  /\ content = [s \in Sources |-> 0] /\ synced = content /\ overlooked = {} /\ stale = FALSE
  /\ at = "select" /\ queue = {}
  /\ notified \in {[s \in Sources |-> "waiting"], [s \in Sources |-> "none"]}
  /\ seen = [s \in Sources |-> Unseen] /\ degraded = NoneDegraded /\ nextSource = 1
  /\ tooLarge = {} /\ resurface = FALSE
  /\ serial = Nobody /\ agentLock = Nobody /\ restoring = {}
  /\ task = [t \in Tasks |-> "idle"] /\ reading = [s \in Sources |-> 0]
  /\ left = Disturbances

-----------------------------------------------------------------------------
(***************************************************************************)
(* The disk and its watcher                                                *)
(***************************************************************************)
\* The watcher reports a change below a root it is registered for.
Report(changed) ==
  queue' = queue \cup {s \in changed : notified[s] = "active"}

\* A change of a surface-defining source may ask for another surface.
Change(s, version) ==
  /\ content' = [content EXCEPT ![s] = version]
  /\ IF s \in Resurfacing THEN wanted' \in Surfaces ELSE UNCHANGED wanted
  /\ Report({s})

\* The agent writes, under no lock of alf's.
Write(s) ==
  /\ content[s] < MaxVersion
  /\ Disturb
  /\ Change(s, content[s] + 1)
  /\ UNCHANGED <<scheduler, base, at, notified, polling, tooLarge, resurface,
                 locks, task, reading>>

\* The root is replaced between two ticks: the target still exists and its
\* registration looks active, but nothing is reported any more. Or it goes, and
\* comes back before a tick: its registration is made anew.
ReplaceRoot(s) ==
  /\ notified[s] = "active"
  /\ Disturb
  /\ \E now \in {"dead", "waiting"} : notified' = [notified EXCEPT ![s] = now]
  /\ UNCHANGED <<scheduler, disk, base, at, queue, polling, tooLarge, resurface,
                 locks, task, reading>>

\* The kernel's queue overflows.
LoseEvents ==
  /\ queue # {}
  /\ Disturb
  /\ queue' = {Overflow}
  /\ UNCHANGED <<scheduler, disk, base, at, notified, polling, tooLarge, resurface,
                 locks, task, reading>>

\* A source grows past the limits of a scan, or shrinks again.
Outgrow(s) ==
  /\ Disturb
  /\ tooLarge' = (tooLarge \ {s}) \cup ({s} \ tooLarge)
  /\ UNCHANGED <<scheduler, disk, base, at, queue, notified, polling, resurface,
                 locks, task, reading>>

-----------------------------------------------------------------------------
(***************************************************************************)
(* One turn of the loop                                                    *)
(***************************************************************************)
FaultyMarkSources(marked) ==  \* no refresh is asked for
  /\ Mark(marked)
  /\ UNCHANGED resurface

\* A mark of a surface-defining source asks for a refresh too.
MarkSources(marked) ==
  /\ Mark(marked)
  /\ resurface' = (resurface \/ marked \cap Resurfacing # {})

Drain(message) ==
  /\ at = "select"
  /\ message \in queue
  /\ queue' = queue \ {message}
  /\ IF message = Overflow
     THEN /\ Mark(registered)
          /\ UNCHANGED resurface
     ELSE MarkSources({message})
  /\ UNCHANGED <<disk, base, at, notified, polling, tooLarge, locks, task,
                 reading, left>>

StartOver(next, ids) == 1  \* every rescan starts from the first source

\* The surface has shrunk, or the round is over.
Cursor(next, ids) == ((next - 1) % Cardinality(ids)) + 1

\* A tick takes the refresh request, derives the surface again and reconciles
\* the baselines and the registrations with it. What is new has no baseline.
TickRefresh ==
  LET ids == IF resurface THEN wanted ELSE registered
      new == ids \ registered
  IN /\ at = "select"
     /\ at' = "rescan"
     /\ IF resurface THEN Register(wanted) ELSE UNCHANGED scheduler
     /\ resurface' = (resurface /\ new \cap Resurfacing # {})
     /\ seen' = [s \in Sources |-> IF s \in ids \ new THEN seen[s] ELSE Unseen]
     /\ degraded' = [s \in DOMAIN degraded \cap (ids \ new) |-> degraded[s]]
     /\ nextSource' = Cursor(nextSource, ids)
     /\ notified' = [s \in Sources |->
          CASE notified[s] = "none"                 -> "none"
            [] notified[s] # "none" /\ s \notin ids -> "waiting"
            [] notified[s] = "waiting" /\ s \in ids -> "active"
            [] OTHER                                -> notified[s]]
     /\ overlooked' = overlooked \cap ids /\ stale' = (stale /\ ~resurface)
     /\ UNCHANGED <<disk, synced, queue, tooLarge, locks, task, reading, left>>

\* The n sources from the cursor on, round and round.
FromCursor(n) ==
  LET ids == SelectSeq(ScanOrder, LAMBDA s : s \in registered)
  IN [k \in 1..n |-> ids[((nextSource + k - 2) % Len(ids)) + 1]]

FaultyScanNews(complete, failed) ==  \* the end of a degradation goes unreported
  {s \in complete : seen[s] \notin {Unseen, content[s]} /\ s \notin DOMAIN degraded}
  \cup {s \in failed : s \in DOMAIN degraded => degraded[s] + 1 = RedirtyScans}

\* A first baseline dirties nothing, unless it ends a degradation; a source that
\* stays degraded is dirtied now and then. (All failures are of one kind here: in
\* the code a source that fails for another reason is dirtied at once.)
ScanNews(complete, failed) ==
  {s \in complete : IF seen[s] = Unseen THEN s \in DOMAIN degraded ELSE seen[s] # content[s]}
  \cup {s \in failed : s \in DOMAIN degraded => degraded[s] + 1 = RedirtyScans}

\* Round robin until the deadline, which may cut the last scan short. Only a
\* complete scan is a baseline.
Rescan(cut) ==
  LET n == IF ScansPerTick < Cardinality(registered) THEN ScansPerTick ELSE Cardinality(registered)
      scanned == FromCursor(n)
      failed == {scanned[k] : k \in {k \in 1..n : scanned[k] \in tooLarge \/ (cut /\ k = n)}}
      complete == {scanned[k] : k \in 1..n} \ failed
      news == ScanNews(complete, failed)
  IN /\ at = "rescan"
     /\ IF cut THEN Disturb ELSE UNCHANGED left
     /\ at' = "due"
     /\ seen' = [s \in Sources |-> IF s \in complete THEN content[s] ELSE seen[s]]
     /\ degraded' = [s \in (DOMAIN degraded \ complete) \cup failed |->
                       IF s \in news THEN 0
                       ELSE IF s \in failed THEN degraded[s] + 1 ELSE degraded[s]]
     /\ nextSource' = Cursor(nextSource + n, registered)
     /\ MarkSources(news)
     /\ LET first == {s \in complete \ news : seen[s] = Unseen}
        IN /\ overlooked' = overlooked \cup {s \in first \ dirty : content[s] # synced[s]}
           /\ stale' = (stale \/ (first \cap Resurfacing # {} /\ wanted # registered))
     /\ UNCHANGED <<disk, synced, queue, notified, tooLarge, locks, task, reading>>

\* run_due: the pause hook is looked at once, before the poll.
Poll ==
  /\ at = "due"
  /\ restoring = {}
  /\ Begin
  /\ at' = "polled"
  /\ UNCHANGED <<disk, base, queue, notified, polling, tooLarge, resurface,
                 locks, task, reading, left>>

PollIdle ==
  /\ at = "due"
  /\ at' = "select"
  /\ UNCHANGED <<scheduler, disk, base, queue, notified, polling, tooLarge, resurface,
                 locks, task, reading, left>>

\* The base is what was read, which may be older than the workspace by now.
TakeBase ==
  /\ synced' = reading
  /\ overlooked' = {s \in overlooked : content[s] # reading[s]}

Abort == GiveUp /\ halted' = halted /\ at' = "select"

\* The loop waits for neither lock: contention skips the tick.
TryLocks ==
  /\ at = "polled"
  /\ IF serial = Nobody /\ agentLock = Nobody
     THEN /\ serial' = Loop /\ agentLock' = Loop /\ at' = "export"
          /\ UNCHANGED scheduler
     ELSE /\ Abort
          /\ UNCHANGED <<serial, agentLock>>
  /\ UNCHANGED <<disk, base, queue, notified, polling, tooLarge, resurface,
                 restoring, task, reading, left>>

\* The lock file cannot be opened or locked: a series of these parks the loop.
LockError ==
  /\ at = "polled" /\ serial = Nobody
  /\ Disturb
  /\ GiveUp
  /\ at' = "select"
  /\ UNCHANGED <<disk, base, queue, notified, polling, tooLarge, resurface,
                 locks, task, reading>>

Export ==
  /\ at = "export"
  /\ at' = "upload"
  /\ reading' = content
  /\ UNCHANGED <<scheduler, disk, base, queue, notified, polling, tooLarge, resurface,
                 locks, task, left>>

ReleaseBoth == serial' = Nobody /\ agentLock' = Nobody

RecordOk ==
  /\ at = "upload"
  /\ at' = "select"
  /\ Succeed
  /\ TakeBase
  /\ ReleaseBoth
  /\ UNCHANGED <<disk, queue, notified, polling, tooLarge, resurface,
                 restoring, task, reading, left>>

RecordError ==
  /\ at = "upload"
  /\ at' = "select"
  /\ Disturb
  /\ GiveUp
  /\ ReleaseBoth
  /\ UNCHANGED <<disk, base, queue, notified, polling, tooLarge, resurface,
                 restoring, task, reading>>

-----------------------------------------------------------------------------
(***************************************************************************)
(* Tools of the server and other processes                                 *)
(***************************************************************************)
Goto(t, stage) == task' = [task EXCEPT ![t] = stage]

Alone == <<at, notified, polling, tooLarge>>

Call(t) ==
  /\ task[t] = "idle" /\ Kind[t] # "track"
  /\ Disturb
  /\ Goto(t, IF Kind[t] \in Serialized THEN "serial" ELSE "lock")
  /\ UNCHANGED <<scheduler, disk, base, queue, resurface, locks, reading, Alone>>

\* A restore raises its guard before it waits for the agent lock.
TakeSerial(t) ==
  /\ task[t] = "serial" /\ serial = Nobody
  /\ serial' = t
  /\ restoring' = IF Kind[t] = "restore" THEN restoring \cup {t} ELSE restoring
  /\ Goto(t, "lock")
  /\ UNCHANGED <<scheduler, disk, base, queue, resurface, agentLock, reading, left, Alone>>

FaultyTakeAgentLock(t) ==  \* a tool does not wait for the loop of its own server
  /\ task[t] = "lock" /\ agentLock \in {Nobody, Loop}
  /\ agentLock' = t
  /\ Goto(t, "inside")
  /\ UNCHANGED <<scheduler, disk, base, queue, resurface, serial, restoring, reading,
                 left, Alone>>

TakeAgentLock(t) ==
  /\ task[t] = "lock" /\ agentLock = Nobody
  /\ agentLock' = t
  /\ Goto(t, "inside")
  /\ UNCHANGED <<scheduler, disk, base, queue, resurface, serial, restoring, reading,
                 left, Alone>>

\* What t holds ends with it.
ReleaseLocks(t) ==
  /\ serial' = IF serial = t THEN Nobody ELSE serial
  /\ agentLock' = IF agentLock = t THEN Nobody ELSE agentLock
  /\ restoring' = restoring \ {t}
  /\ Goto(t, "idle")

\* agent_busy: a bounded wait ends without the lock.
Busy(t) ==
  /\ \/ task[t] = "serial" /\ serial # Nobody
     \/ task[t] = "lock" /\ agentLock # Nobody
  /\ ReleaseLocks(t)
  /\ UNCHANGED <<scheduler, disk, base, queue, resurface, reading, left, Alone>>

TaskExport(t) ==
  /\ task[t] = "inside" /\ Kind[t] \in Syncs
  /\ reading' = content
  /\ Goto(t, "read")
  /\ UNCHANGED <<scheduler, disk, base, queue, resurface, locks, left, Alone>>

\* The import writes whatever the cloud has more than the workspace.
TaskImport(t) ==
  /\ task[t] = "inside" /\ Kind[t] \in Restores
  /\ \E changed \in SUBSET {s \in Sources \ Resurfacing : content[s] < MaxVersion} :
       /\ content' = [s \in Sources |-> IF s \in changed THEN content[s] + 1 ELSE content[s]]
       /\ Report(changed)
  /\ reading' = content'
  /\ Goto(t, "read")
  /\ UNCHANGED <<scheduler, wanted, base, resurface, locks, left, Alone>>

\* A sync by hand ends a park, not a pause.
TaskDone(t) ==
  /\ task[t] = "read"
  /\ TakeBase
  /\ halted' \in IF Kind[t] = "sync" THEN {halted, FALSE} ELSE {halted}
  /\ ReleaseLocks(t)
  /\ UNCHANGED <<registered, dirty, covered, running, disk, queue, resurface,
                 reading, left, Alone>>

TaskFails(t) ==
  /\ task[t] = "read"
  /\ Disturb
  /\ ReleaseLocks(t)
  /\ UNCHANGED <<scheduler, disk, base, queue, resurface, reading, Alone>>

\* The vault file is written under the agent lock, the mark follows without it.
VaultWrite(t) ==
  /\ task[t] = "inside" /\ Kind[t] = "vault_add"
  /\ content[VaultSource] < MaxVersion
  /\ Change(VaultSource, content[VaultSource] + 1)
  /\ agentLock' = Nobody
  /\ Goto(t, "note")
  /\ UNCHANGED <<scheduler, base, resurface, serial, restoring, reading, left, Alone>>

VaultRefused(t) ==
  /\ task[t] = "inside" /\ Kind[t] = "vault_add"
  /\ ReleaseLocks(t)
  /\ UNCHANGED <<scheduler, disk, base, queue, resurface, reading, left, Alone>>

\* alf_track writes the include list, under no agent lock, then asks for a refresh.
TrackWrite(t, s) ==
  /\ task[t] = "idle" /\ Kind[t] = "track" /\ s \in Resurfacing
  /\ content[s] < MaxVersion
  /\ Disturb
  /\ Change(s, content[s] + 1)
  /\ Goto(t, "note")
  /\ UNCHANGED <<scheduler, base, resurface, locks, reading, Alone>>

Note(t) ==
  /\ task[t] = "note"
  /\ IF Kind[t] = "track"
     THEN /\ resurface' = TRUE
          /\ UNCHANGED scheduler
     ELSE /\ Mark({VaultSource})
          /\ UNCHANGED resurface
  /\ Goto(t, "idle")
  /\ UNCHANGED <<disk, base, at, queue, notified, polling, tooLarge, locks, reading, left>>

\* alf_watch_set, or whatever else ends a park.
Steer ==
  /\ Disturb
  /\ Gesture
  /\ UNCHANGED <<disk, base, at, queue, notified, polling, tooLarge, resurface,
                 locks, task, reading>>

-----------------------------------------------------------------------------
LoopStep ==
  \/ TickRefresh
  \/ Rescan(FALSE)
  \/ TryLocks
  \/ Export
  \/ RecordOk

TaskStep(t) ==
  \/ TakeSerial(t) \/ TakeAgentLock(t) \/ Busy(t)
  \/ TaskExport(t) \/ TaskImport(t) \/ TaskDone(t) \/ VaultWrite(t) \/ VaultRefused(t)
  \/ Note(t)

Environment ==
  \/ \E s \in Sources : Write(s) \/ ReplaceRoot(s) \/ Outgrow(s)
  \/ LoseEvents
  \/ Rescan(TRUE)
  \/ LockError
  \/ RecordError
  \/ Steer
  \/ \E t \in Tasks : Call(t) \/ TaskFails(t) \/ \E s \in Sources : TrackWrite(t, s)

Next ==
  \/ LoopStep
  \/ Poll
  \/ PollIdle
  \/ \E message \in Sources \cup {Overflow} : Drain(message)
  \/ \E t \in Tasks : TaskStep(t)
  \/ Environment

Spec == Init /\ [][Next]_vars

\* The loop's task and the tools run on. An idle answer is always possible, but
\* the scheduler answers "sync" in the end: see DirtySourcesAreSynced there.
Fairness ==
  /\ WF_vars(LoopStep)
  /\ WF_vars(PollIdle)
  /\ SF_vars(Poll /\ dirty # {})
  /\ \A t \in Tasks : WF_vars(TaskStep(t))

FairSpec == Spec /\ Fairness

-----------------------------------------------------------------------------
(***************************************************************************)
(* Properties                                                              *)
(***************************************************************************)

\* One whole-workspace operation at a time: neither the loop's sync, nor a tool,
\* nor another process reads or writes the workspace while a restore writes it
\* or another sync has its export in flight.
OneOperationAtATime ==
  LET inside == {t \in Tasks : task[t] \in {"inside", "read"}}
                \cup (IF at \in {"export", "upload"} THEN {Loop} ELSE {})
  IN Cardinality(inside) <= 1

\* A change that no sync has is noticed: its source is dirty, or its next scan
\* will tell, whatever the watcher misses and the deadline cuts off (rescan.rs:
\* "the correctness backstop for missed or unavailable OS notifications"): no
\* message of the watcher is needed. But a source whose first scan comes after
\* the change may be overlooked.
UnsyncedIsNoticed ==
  \A s \in registered \ overlooked :
    content[s] # synced[s] => s \in dirty \/ seen[s] # content[s]

\* Every change is synced in the end while the scheduler may run: no source
\* starves in the round robin, and one too large to scan is not forgotten.
ChangesGetSynced ==
  \A s \in Sources :
    s \in registered /\ content[s] # synced[s]
      ~> content[s] = synced[s] \/ halted \/ s \notin registered \ overlooked

\* A surface that lags behind the workspace is caught up: a refresh is asked for,
\* or a scan of the source that defines it will ask, even if no message comes.
\* That an overflow marks every source dirty does not count, it asks for no
\* refresh. A change before the first scan of that source may be missed.
SurfaceChangeIsNoticed ==
  wanted # registered =>
    resurface \/ stale \/ \E s \in Resurfacing : seen[s] # content[s]

=============================================================================
