-------------------------- MODULE WatchLoopProofs --------------------------
(***************************************************************************)
(* The watch loop's safety, for every set of sources, tools and surfaces   *)
(* and whatever the watcher loses: one operation at a time, and nothing    *)
(* that changes goes unnoticed.                                            *)
(***************************************************************************)
EXTENDS WatchLoop, FiniteSetTheorems, TLAPS

-----------------------------------------------------------------------------
(***************************************************************************)
(* One operation at a time                                                 *)
(***************************************************************************)
\* Whoever is inside the agent lock holds it.
LocksInv ==
  /\ task \in [Tasks -> Stages]
  /\ at \in {"export", "upload"} => agentLock = Loop
  /\ \A t \in Tasks : task[t] \in {"inside", "read"} => agentLock = t

\* A step of the loop that takes or keeps no lock.
LEMMA NoLockStep ==
  ASSUME LocksInv, UNCHANGED <<task, agentLock>>,
         at' \in {"export", "upload"} => at \in {"export", "upload"}
  PROVE  LocksInv'
BY DEF LocksInv

\* A task that ends, or gives up a wait, takes nothing of the others'.
LEMMA ReleaseStep ==
  ASSUME LocksInv, NEW t \in Tasks, ReleaseLocks(t), UNCHANGED at
  PROVE  LocksInv'
<1>1. Loop # t /\ Nobody \notin Tasks
  BY LoopAssumption
<1>2. agentLock # t => agentLock' = agentLock
  BY DEF ReleaseLocks
<1>3. task' \in [Tasks -> Stages] /\ task'[t] = "idle"
  BY DEF ReleaseLocks, Goto, LocksInv, Stages
<1>4. \A u \in Tasks \ {t} : task'[u] = task[u]
  BY DEF ReleaseLocks, Goto, LocksInv
<1> QED
  BY <1>1, <1>2, <1>3, <1>4 DEF LocksInv

\* A task that moves on with the locks as they are, inside only from inside.
LEMMA GotoStep ==
  ASSUME LocksInv, NEW t \in Tasks, NEW stage \in Stages, Goto(t, stage),
         UNCHANGED <<at, agentLock>>,
         stage \in {"inside", "read"} => task[t] \in {"inside", "read"}
  PROVE  LocksInv'
BY DEF LocksInv, Goto

\* A step of the tools and of other processes.
LEMMA TaskLocks ==
  ASSUME LocksInv, NEW t \in Tasks, TaskStep(t)
  PROVE  LocksInv'
<1>1. CASE TakeSerial(t)
  BY <1>1, GotoStep DEF TakeSerial, Alone, Stages
<1>2. CASE TakeAgentLock(t)
  <2>1. agentLock = Nobody /\ agentLock' = t /\ UNCHANGED at /\ Goto(t, "inside")
    BY <1>2 DEF TakeAgentLock, Alone
  <2>2. at \notin {"export", "upload"} /\ \A u \in Tasks : task[u] \notin {"inside", "read"}
    BY <2>1, LoopAssumption DEF LocksInv, Loop, Nobody
  <2> QED
    BY <2>1, <2>2 DEF LocksInv, Goto, Stages
<1>3. CASE Busy(t)
  BY <1>3, ReleaseStep DEF Busy, Alone
<1>4. CASE TaskExport(t)
  BY <1>4, GotoStep DEF TaskExport, Alone, locks, Stages
<1>5. CASE TaskImport(t)
  BY <1>5, GotoStep DEF TaskImport, Alone, locks, Stages
<1>6. CASE TaskDone(t)
  BY <1>6, ReleaseStep DEF TaskDone, Alone
<1>7. CASE VaultWrite(t)
  <2>1. task[t] = "inside" /\ agentLock' = Nobody /\ UNCHANGED at /\ Goto(t, "note")
    BY <1>7 DEF VaultWrite, Alone
  <2>2. agentLock = t
    BY <2>1 DEF LocksInv
  <2>3. at \notin {"export", "upload"} /\ \A u \in Tasks \ {t} : task[u] \notin {"inside", "read"}
    BY <2>2, LoopAssumption DEF LocksInv
  <2> QED
    BY <2>1, <2>3 DEF LocksInv, Goto, Stages
<1>8. CASE VaultRefused(t)
  BY <1>8, ReleaseStep DEF VaultRefused, Alone
<1>9. CASE Note(t)
  BY <1>9, GotoStep DEF Note, locks, Stages
<1> QED
  BY <1>1, <1>2, <1>3, <1>4, <1>5, <1>6, <1>7, <1>8, <1>9 DEF TaskStep

\* A step of the loop's own task.
LEMMA LoopLocks ==
  ASSUME LocksInv,
         \/ LoopStep \/ Poll \/ PollIdle \/ Rescan(TRUE) \/ LockError \/ RecordError
         \/ \E message \in Sources \cup {Overflow} : Drain(message)
  PROVE  LocksInv'
<1>1. CASE TickRefresh
  BY <1>1, NoLockStep DEF TickRefresh, locks
<1>2. ASSUME NEW cut \in BOOLEAN, Rescan(cut)
      PROVE  LocksInv'
  BY <1>2, NoLockStep DEF Rescan, locks
<1>3. CASE TryLocks
  <2>1. CASE serial = Nobody /\ agentLock = Nobody
    BY <1>3, <2>1, LoopAssumption DEF TryLocks, LocksInv, Loop, Nobody
  <2>2. CASE ~(serial = Nobody /\ agentLock = Nobody)
    BY <1>3, <2>2, NoLockStep DEF TryLocks, Abort
  <2> QED
    BY <2>1, <2>2
<1>4. CASE Export
  BY <1>4, NoLockStep DEF Export, locks
<1>5. CASE RecordOk \/ RecordError
  <2>1. at = "upload" /\ at' = "select" /\ agentLock' = Nobody /\ UNCHANGED task
    BY <1>5 DEF RecordOk, RecordError, ReleaseBoth
  <2>2. \A u \in Tasks : task[u] \notin {"inside", "read"}
    BY <2>1, LoopAssumption DEF LocksInv
  <2> QED
    BY <2>1, <2>2 DEF LocksInv
<1>6. CASE Poll \/ PollIdle
  BY <1>6, NoLockStep DEF Poll, PollIdle, locks
<1>7. CASE LockError
  BY <1>7, NoLockStep DEF LockError, locks
<1>8. ASSUME NEW message \in Sources \cup {Overflow}, Drain(message)
      PROVE  LocksInv'
  BY <1>8, NoLockStep DEF Drain, locks
<1> QED
  BY <1>1, <1>2, <1>3, <1>4, <1>5, <1>6, <1>7, <1>8 DEF LoopStep

\* A step of the workspace, the watcher, the operator or a caller.
LEMMA EnvironmentLocks ==
  ASSUME LocksInv, Environment
  PROVE  LocksInv'
<1>1. ASSUME NEW s \in Sources, Write(s) \/ ReplaceRoot(s) \/ Outgrow(s)
      PROVE  LocksInv'
  BY <1>1, NoLockStep DEF Write, ReplaceRoot, Outgrow, locks
<1>2. CASE LoseEvents \/ Steer
  BY <1>2, NoLockStep DEF LoseEvents, Steer, locks
<1>3. CASE Rescan(TRUE) \/ LockError \/ RecordError
  BY <1>3, LoopLocks
<1>4. ASSUME NEW t \in Tasks, Call(t)
      PROVE  LocksInv'
  <2> DEFINE stage == IF Kind[t] \in Serialized THEN "serial" ELSE "lock"
  <2>1. stage \in Stages /\ stage \notin {"inside", "read"}
    BY DEF Stages
  <2>2. Goto(t, stage) /\ UNCHANGED <<at, agentLock>>
    BY <1>4 DEF Call, Alone, locks
  <2> HIDE DEF stage
  <2> QED
    BY <2>1, <2>2, GotoStep
<1>5. ASSUME NEW t \in Tasks, TaskFails(t)
      PROVE  LocksInv'
  BY <1>5, ReleaseStep DEF TaskFails, Alone
<1>6. ASSUME NEW t \in Tasks, NEW s \in Sources, TrackWrite(t, s)
      PROVE  LocksInv'
  BY <1>6, GotoStep DEF TrackWrite, Alone, locks, Stages
<1> QED
  BY <1>1, <1>2, <1>3, <1>4, <1>5, <1>6 DEF Environment

\* Every step keeps the locks with those inside.
LEMMA LocksStep ==
  ASSUME LocksInv, [Next]_vars
  PROVE  LocksInv'
<1>1. CASE UNCHANGED vars
  BY <1>1 DEF vars, locks, LocksInv
<1>2. CASE \E t \in Tasks : TaskStep(t)
  BY <1>2, TaskLocks
<1>3. CASE Environment
  BY <1>3, EnvironmentLocks
<1>4. CASE \/ LoopStep \/ Poll \/ PollIdle
           \/ \E message \in Sources \cup {Overflow} : Drain(message)
  BY <1>4, LoopLocks
<1> QED
  BY <1>1, <1>2, <1>3, <1>4 DEF Next

\* The holder of the agent lock is the only one inside, in every behaviour.
THEOREM LocksInvariance == Spec => []LocksInv
<1>1. Init => LocksInv
  BY DEF Init, LocksInv, Stages
<1> QED
  BY <1>1, LocksStep, PTL DEF Spec

\* run_due, the tools and other processes: whatever fails, waits in vain or is
\* restored, no two operations on the whole workspace overlap.
THEOREM OneOperationAtATimeHolds == Spec => []OneOperationAtATime
<1>1. LocksInv => OneOperationAtATime
  <2> SUFFICES ASSUME LocksInv PROVE OneOperationAtATime
    OBVIOUS
  <2> DEFINE inside == {t \in Tasks : task[t] \in {"inside", "read"}}
                         \cup (IF at \in {"export", "upload"} THEN {Loop} ELSE {})
  <2>1. inside \subseteq {agentLock}
    BY DEF LocksInv
  <2>2. Cardinality({agentLock}) = 1 /\ IsFiniteSet({agentLock})
    BY FS_Singleton
  <2>3. Cardinality(inside) <= 1
    BY <2>1, <2>2, FS_Subset
  <2> QED
    BY <2>3 DEF OneOperationAtATime
<1> QED
  BY <1>1, LocksInvariance, PTL

-----------------------------------------------------------------------------
(***************************************************************************)
(* Nothing goes unnoticed                                                  *)
(***************************************************************************)
LoopTypes ==
  /\ registered \in Surfaces /\ wanted \in Surfaces
  /\ content \in [Sources -> Versions] /\ synced \in [Sources -> Versions]
  /\ reading \in [Sources -> Versions] /\ seen \in [Sources -> 0..Unseen]

InFlight == at = "upload" \/ \E t \in Tasks : task[t] = "read"

\* Versions grow, from the base to what is read for the next one and on.
VersionsGrow ==
  \A s \in Sources :
    /\ synced[s] <= content[s] /\ reading[s] <= content[s]
    /\ seen[s] # Unseen => seen[s] <= content[s]
    /\ InFlight => synced[s] <= reading[s]

\* A change after the reading is noticed, and a success does not clean it.
LoopReads ==
  at = "upload" =>
    \A s \in registered : content[s] # reading[s] => s \in dirty \ covered \/ seen[s] # content[s]

\* The same of a tool's sync or restore, which cleans nothing.
TaskReads ==
  (\E t \in Tasks : task[t] = "read") =>
    \A s \in registered \ overlooked :
      content[s] # reading[s] => s \in dirty \/ seen[s] # content[s]

NoticeInv ==
  /\ LoopTypes
  /\ VersionsGrow
  /\ LoopReads
  /\ TaskReads
  /\ UnsyncedIsNoticed
  /\ SurfaceChangeIsNoticed

\* A surface is a set of sources that has the sources which define it.
LEMMA SurfaceFacts ==
  ASSUME NEW ids \in Surfaces
  PROVE  ids \subseteq Sources /\ Resurfacing \subseteq ids /\ VaultSource \in ids
BY LoopAssumption

\* A version is a number, and no version is Unseen.
LEMMA VersionFacts ==
  /\ MaxVersion \in Nat /\ Unseen \in Nat
  /\ \A v \in Versions : v \in Nat /\ v <= MaxVersion /\ v # Unseen /\ v < Unseen
  /\ \A v \in 0..Unseen : v \in Nat
<1>1. MaxVersion \in Nat
  BY LoopAssumption
<1> QED
  BY <1>1 DEF Versions, Unseen

\* What a source's versions are.
LEMMA SourceVersions ==
  ASSUME LoopTypes, NEW s \in Sources
  PROVE  /\ content[s] \in Versions /\ synced[s] \in Versions /\ reading[s] \in Versions
         /\ content[s] \in Nat /\ synced[s] \in Nat /\ reading[s] \in Nat /\ seen[s] \in Nat
<1>1. content[s] \in Versions /\ synced[s] \in Versions /\ reading[s] \in Versions /\ seen[s] \in 0..Unseen
  BY DEF LoopTypes
<1> QED
  BY <1>1, VersionFacts

\* A step that touches neither the workspace nor what was seen of it, and cleans
\* no source.
LEMMA NoNoticeStep ==
  ASSUME NoticeInv,
         UNCHANGED <<disk, base, seen, stale, reading, registered>>,
         dirty \subseteq dirty', resurface => resurface',
         at' = "upload" => at = "upload" /\ covered' \cap dirty \subseteq covered,
         \A t \in Tasks : task'[t] = "read" => task[t] = "read"
  PROVE  NoticeInv'
<1>1. InFlight' => InFlight
  BY DEF InFlight
<1>2. LoopTypes' /\ VersionsGrow'
  BY <1>1 DEF NoticeInv, LoopTypes, VersionsGrow, disk, base
<1>3. LoopReads'
  BY DEF NoticeInv, LoopReads, disk
<1>4. TaskReads'
  BY DEF NoticeInv, TaskReads, disk, base
<1>5. UnsyncedIsNoticed'
  BY DEF NoticeInv, UnsyncedIsNoticed, disk, base
<1>6. SurfaceChangeIsNoticed'
  BY DEF NoticeInv, SurfaceChangeIsNoticed, disk
<1> QED
  BY <1>2, <1>3, <1>4, <1>5, <1>6 DEF NoticeInv

\* A new version of some sources: none of them is what any scan has seen.
LEMMA ChangeStep ==
  ASSUME NoticeInv, NEW changed \in SUBSET Sources,
         content' \in [Sources -> Versions],
         \A s \in changed : content'[s] = content[s] + 1,
         \A s \in Sources \ changed : content'[s] = content[s],
         wanted' \in Surfaces, wanted' # wanted => changed \cap Resurfacing # {},
         UNCHANGED <<scheduler, base, seen, stale, reading, resurface, at>>,
         \A t \in Tasks : task'[t] = "read" => task[t] = "read"
  PROVE  NoticeInv'
<1>1. InFlight' => InFlight
  BY DEF InFlight
<1>2. \A s \in changed : content[s] \in Nat /\ content'[s] \in Versions /\ s \in Sources
  BY SourceVersions DEF NoticeInv
<1>3. \A s \in changed : seen'[s] # content'[s]
  <2> SUFFICES ASSUME NEW s \in changed PROVE seen'[s] # content'[s]
    OBVIOUS
  <2>1. seen'[s] = seen[s] /\ content'[s] = content[s] + 1 /\ content[s] \in Nat /\ seen[s] \in Nat
    BY <1>2, SourceVersions DEF NoticeInv
  <2>2. content'[s] # Unseen
    BY <1>2, VersionFacts
  <2>3. seen[s] # Unseen => seen[s] <= content[s]
    BY <1>2 DEF NoticeInv, VersionsGrow
  <2> QED
    BY <2>1, <2>2, <2>3
<1>4. LoopTypes'
  BY DEF NoticeInv, LoopTypes, scheduler, base
<1>5. VersionsGrow'
  <2> SUFFICES ASSUME NEW s \in Sources
               PROVE  /\ synced'[s] <= content'[s] /\ reading'[s] <= content'[s]
                      /\ seen'[s] # Unseen => seen'[s] <= content'[s]
                      /\ InFlight' => synced'[s] <= reading'[s]
    BY DEF VersionsGrow
  <2>1. content[s] <= content'[s]
    BY <1>2, SourceVersions DEF NoticeInv
  <2>2. {content[s], content'[s], synced[s], reading[s], seen[s], Unseen} \subseteq Nat
    BY <1>2, SourceVersions, VersionFacts DEF NoticeInv
  <2> QED
    BY <1>1, <2>1, <2>2 DEF NoticeInv, VersionsGrow, base
<1>6. registered' = registered /\ dirty' = dirty /\ covered' = covered /\ registered \subseteq Sources
  BY SurfaceFacts DEF NoticeInv, LoopTypes, scheduler
<1>7. LoopReads'
  BY <1>3, <1>6 DEF NoticeInv, LoopReads
<1>8. TaskReads'
  BY <1>3, <1>6 DEF NoticeInv, TaskReads, base
<1>9. UnsyncedIsNoticed'
  BY <1>3, <1>6 DEF NoticeInv, UnsyncedIsNoticed, base
<1>10. SurfaceChangeIsNoticed'
  <2>1. CASE changed \cap Resurfacing # {}
    BY <1>3, <2>1 DEF SurfaceChangeIsNoticed
  <2>2. CASE changed \cap Resurfacing = {}
    <3>1. \A s \in Resurfacing : s \in Sources /\ content'[s] = content[s]
      BY <2>2, <1>6, SurfaceFacts DEF NoticeInv, LoopTypes
    <3> QED
      BY <2>2, <1>6, <3>1 DEF NoticeInv, SurfaceChangeIsNoticed
  <2> QED
    BY <2>1, <2>2
<1> QED
  BY <1>4, <1>5, <1>7, <1>8, <1>9, <1>10 DEF NoticeInv

\* Something is read, and nobody else is reading.
LEMMA ReadStep ==
  ASSUME NoticeInv, UNCHANGED <<scheduler, disk, base, seen, stale, resurface>>,
         reading' = content
  PROVE  NoticeInv'
<1>1. LoopTypes'
  BY DEF NoticeInv, LoopTypes, scheduler, base, disk
<1>2. VersionsGrow'
  BY DEF NoticeInv, LoopTypes, VersionsGrow, Versions, base, disk
<1>3. LoopReads' /\ TaskReads'
  BY SurfaceFacts DEF NoticeInv, LoopReads, TaskReads, disk
<1> QED
  BY <1>1, <1>2, <1>3
     DEF NoticeInv, UnsyncedIsNoticed, SurfaceChangeIsNoticed, scheduler, disk, base

\* The base becomes what was read, and nobody reads any more. What the loop's
\* sync covered is clean, what was read by a tool stays dirty.
LEMMA BaseStep ==
  ASSUME NoticeInv, TakeBase, ~InFlight',
         UNCHANGED <<registered, disk, seen, stale, reading, resurface>>,
         \/ at = "upload" /\ dirty' = dirty \ covered
         \/ (\E t \in Tasks : task[t] = "read") /\ dirty' = dirty
  PROVE  NoticeInv'
<1>1. LoopTypes'
  BY DEF NoticeInv, LoopTypes, TakeBase, disk
<1>2. VersionsGrow'
  BY DEF NoticeInv, VersionsGrow, TakeBase, disk
<1>3. LoopReads' /\ TaskReads'
  BY DEF InFlight, LoopReads, TaskReads
<1>4. UnsyncedIsNoticed'
  <2> SUFFICES ASSUME NEW s \in registered', s \notin overlooked', content'[s] # synced'[s]
               PROVE  s \in dirty' \/ seen'[s] # content'[s]
    BY DEF UnsyncedIsNoticed
  <2>1. s \in registered /\ content[s] # reading[s] /\ content' = content /\ seen' = seen
    BY DEF TakeBase, disk
  <2>2. s \notin overlooked
    BY <2>1 DEF TakeBase
  <2>3. CASE at = "upload" /\ dirty' = dirty \ covered
    BY <2>1, <2>3 DEF NoticeInv, LoopReads
  <2>4. CASE (\E t \in Tasks : task[t] = "read") /\ dirty' = dirty
    BY <2>1, <2>2, <2>4 DEF NoticeInv, TaskReads
  <2> QED
    BY <2>3, <2>4
<1> QED
  BY <1>1, <1>2, <1>3, <1>4 DEF NoticeInv, SurfaceChangeIsNoticed, disk

\* A restore writes some sources, none of which defines the surface, and knows
\* what it wrote.
LEMMA ImportStep ==
  ASSUME NoticeInv, NEW t \in Tasks, TaskImport(t)
  PROVE  NoticeInv'
<1>1. PICK changed \in SUBSET {s \in Sources \ Resurfacing : content[s] < MaxVersion} :
        content' = [s \in Sources |-> IF s \in changed THEN content[s] + 1 ELSE content[s]]
  BY DEF TaskImport
<1>2. /\ reading' = content'
      /\ UNCHANGED <<scheduler, wanted, base, seen, stale, resurface>>
  BY DEF TaskImport, Alone, polling
<1>3. content' \in [Sources -> Versions]
  <2>1. ASSUME NEW s \in changed
        PROVE  content[s] + 1 \in Versions
    <3>1. s \in Sources /\ content[s] < MaxVersion
      OBVIOUS
    <3>2. content[s] \in Nat /\ MaxVersion \in Nat
      BY <3>1, SourceVersions, VersionFacts DEF NoticeInv
    <3> QED
      BY <3>1, <3>2 DEF Versions
  <2> QED
    BY <1>1, <2>1 DEF NoticeInv, LoopTypes
<1>4. /\ \A s \in changed : content'[s] = content[s] + 1
      /\ \A s \in Sources \ changed : content'[s] = content[s]
  BY <1>1
<1>5. \A s \in changed : seen'[s] # content'[s]
  <2> SUFFICES ASSUME NEW s \in changed PROVE seen'[s] # content'[s]
    OBVIOUS
  <2>1. /\ s \in Sources /\ seen'[s] = seen[s] /\ content'[s] = content[s] + 1
        /\ content[s] \in Nat /\ seen[s] \in Nat
    BY <1>2, <1>4, SourceVersions DEF NoticeInv
  <2>2. content'[s] # Unseen
    BY <1>3, <2>1, VersionFacts
  <2>3. seen[s] # Unseen => seen[s] <= content[s]
    BY <2>1 DEF NoticeInv, VersionsGrow
  <2> QED
    BY <2>1, <2>2, <2>3
<1>6. LoopTypes'
  BY <1>2, <1>3 DEF NoticeInv, LoopTypes, scheduler, base
<1>7. VersionsGrow'
  <2> SUFFICES ASSUME NEW s \in Sources
               PROVE  /\ synced'[s] <= content'[s] /\ reading'[s] <= content'[s]
                      /\ seen'[s] # Unseen => seen'[s] <= content'[s]
                      /\ InFlight' => synced'[s] <= reading'[s]
    BY DEF VersionsGrow
  <2>1. {content[s], content'[s], synced[s], seen[s], Unseen} \subseteq Nat
    BY <1>3, SourceVersions, VersionFacts DEF NoticeInv
  <2>2. content[s] <= content'[s]
    BY <1>4, <2>1
  <2> QED
    BY <1>2, <2>1, <2>2 DEF NoticeInv, VersionsGrow, base
<1>8. registered' = registered /\ dirty' = dirty /\ registered \subseteq Sources
  BY <1>2, SurfaceFacts DEF NoticeInv, LoopTypes, scheduler
<1>9. LoopReads' /\ TaskReads'
  BY <1>2, <1>8 DEF LoopReads, TaskReads
<1>10. UnsyncedIsNoticed'
  BY <1>2, <1>4, <1>5, <1>8 DEF NoticeInv, UnsyncedIsNoticed, base
<1>11. \A s \in Resurfacing : content'[s] = content[s]
  BY <1>1, <1>4, <1>8, SurfaceFacts DEF NoticeInv, LoopTypes
<1>12. SurfaceChangeIsNoticed'
  BY <1>2, <1>8, <1>11 DEF NoticeInv, SurfaceChangeIsNoticed
<1> QED
  BY <1>6, <1>7, <1>9, <1>10, <1>12 DEF NoticeInv

\* A tick: what stays keeps its baseline and its marks, what is new is dirty.
LEMMA RefreshStep ==
  ASSUME NoticeInv, TickRefresh
  PROVE  NoticeInv'
<1> DEFINE ids == IF resurface THEN wanted ELSE registered
           new == ids \ registered
<1>1. /\ at' = "rescan"
      /\ seen' = [s \in Sources |-> IF s \in ids \ new THEN seen[s] ELSE Unseen]
      /\ overlooked' = overlooked \cap ids
      /\ UNCHANGED <<disk, synced, task, reading>>
      /\ stale' = (stale /\ ~resurface)
  BY DEF TickRefresh
<1>2. registered' = ids /\ dirty \cap ids \subseteq dirty' /\ new \subseteq dirty'
  BY DEF TickRefresh, Register, scheduler
<1>3. wanted \in Surfaces
  BY DEF NoticeInv, LoopTypes
<1>4. ids \in Surfaces /\ ids \subseteq Sources /\ Resurfacing \subseteq registered
  BY <1>3, SurfaceFacts DEF NoticeInv, LoopTypes
<1>5. \A s \in registered' \ new : s \in registered /\ s \in Sources /\ seen'[s] = seen[s]
  BY <1>1, <1>2, <1>4
<1>6. \A s \in Sources : seen'[s] # Unseen => seen'[s] = seen[s]
  BY <1>1
<1> HIDE DEF ids, new
<1>7. LoopTypes'
  BY <1>1, <1>2, <1>3, <1>4, LoopAssumption DEF NoticeInv, LoopTypes, disk, Unseen
<1>8. VersionsGrow'
  <2>1. InFlight' => InFlight
    BY <1>1 DEF InFlight
  <2> QED
    BY <1>1, <1>6, <2>1 DEF NoticeInv, VersionsGrow, disk
<1>9. LoopReads'
  BY <1>1 DEF LoopReads
<1>10. TaskReads'
  BY <1>1, <1>2, <1>5 DEF NoticeInv, TaskReads, disk, new
<1>11. UnsyncedIsNoticed'
  BY <1>1, <1>2, <1>5 DEF NoticeInv, UnsyncedIsNoticed, disk, new
<1>12. SurfaceChangeIsNoticed'
  <2>1. CASE resurface
    BY <1>1, <1>2, <2>1 DEF SurfaceChangeIsNoticed, disk, ids
  <2>2. CASE ~resurface
    <3>1. registered' = registered /\ new = {} /\ (stale => stale')
      BY <1>1, <1>2, <2>2 DEF ids, new
    <3>2. \A s \in Resurfacing : seen'[s] = seen[s]
      BY <1>4, <1>5, <3>1
    <3>3. wanted' = wanted /\ content' = content
      BY <1>1 DEF disk
    <3>4. ~stale => (wanted # registered => \E s \in Resurfacing : seen[s] # content[s])
      BY <2>2 DEF NoticeInv, SurfaceChangeIsNoticed
    <3> QED
      BY <3>1, <3>2, <3>3, <3>4 DEF SurfaceChangeIsNoticed
  <2> QED
    BY <2>1, <2>2
<1> QED
  BY <1>7, <1>8, <1>9, <1>10, <1>11, <1>12 DEF NoticeInv

\* A scan: what it finds changed is marked, and asks for a refresh when it
\* defines the surface; a first baseline is remembered as such.
LEMMA RescanStep ==
  ASSUME NoticeInv, NEW cut \in BOOLEAN, Rescan(cut)
  PROVE  NoticeInv'
<1>1. PICK complete, failed :
        LET news == ScanNews(complete, failed)
            first == {s \in complete \ news : seen[s] = Unseen}
        IN /\ seen' = [s \in Sources |-> IF s \in complete THEN content[s] ELSE seen[s]]
           /\ MarkSources(news)
           /\ overlooked' = overlooked \cup {s \in first \ dirty : content[s] # synced[s]}
           /\ stale' = (stale \/ (first \cap Resurfacing # {} /\ wanted # registered))
  BY DEF Rescan
<1> DEFINE news == ScanNews(complete, failed)
           first == {s \in complete \ news : seen[s] = Unseen}
<1>2. /\ dirty' = dirty \cup (news \cap registered) /\ registered' = registered
      /\ resurface' = (resurface \/ news \cap Resurfacing # {})
  BY <1>1 DEF MarkSources, Mark
<1>3. at' = "due" /\ UNCHANGED <<disk, synced, task, reading>>
  BY DEF Rescan
<1>4. \A s \in Sources \cap complete :
         seen[s] # content[s] => s \in news \/ (s \in first /\ seen[s] = Unseen)
  BY DEF ScanNews
<1>5. \A s \in Sources : seen'[s] = IF s \in complete THEN content[s] ELSE seen[s]
  BY <1>1
<1>6. registered \subseteq Sources /\ Resurfacing \subseteq registered
  BY SurfaceFacts DEF NoticeInv, LoopTypes
<1>7. /\ overlooked' = overlooked \cup {s \in first \ dirty : content[s] # synced[s]}
      /\ stale' = (stale \/ (first \cap Resurfacing # {} /\ wanted # registered))
  BY <1>1
<1> HIDE DEF news, first
<1>8. LoopTypes'
  <2>1. \A s \in Sources : content[s] \in 0..Unseen /\ seen[s] \in 0..Unseen
    <3>1. \A v \in Versions : v \in 0..Unseen
      BY VersionFacts
    <3> QED
      BY <3>1, SourceVersions DEF NoticeInv, LoopTypes
  <2> QED
    BY <1>1, <1>2, <1>3, <2>1 DEF NoticeInv, LoopTypes, disk
<1>9. VersionsGrow'
  <2> SUFFICES ASSUME NEW s \in Sources
               PROVE  /\ synced'[s] <= content'[s] /\ reading'[s] <= content'[s]
                      /\ seen'[s] # Unseen => seen'[s] <= content'[s]
                      /\ InFlight' => synced'[s] <= reading'[s]
    BY DEF VersionsGrow
  <2>1. InFlight' => InFlight
    BY <1>3 DEF InFlight
  <2>2. content[s] \in Nat
    BY DEF NoticeInv, LoopTypes, Versions
  <2> QED
    BY <1>3, <1>5, <2>1, <2>2 DEF NoticeInv, VersionsGrow, disk
<1>10. LoopReads'
  BY <1>3 DEF LoopReads
<1>11. TaskReads'
  <2> SUFFICES ASSUME NEW t \in Tasks, task'[t] = "read",
                      NEW s \in registered', s \notin overlooked', content'[s] # reading'[s]
               PROVE  s \in dirty' \/ seen'[s] # content'[s]
    BY DEF TaskReads
  <2>1. /\ s \in registered /\ s \in Sources /\ s \notin overlooked
        /\ content'[s] = content[s] /\ content[s] # reading[s]
    BY <1>2, <1>3, <1>6, <1>7 DEF disk
  <2>2. s \in dirty \/ seen[s] # content[s]
    BY <1>3, <2>1 DEF NoticeInv, TaskReads
  <2>3. content[s] # synced[s]
    <3>1. synced[s] <= reading[s] /\ reading[s] <= content[s]
      BY <1>3, <2>1 DEF NoticeInv, VersionsGrow, InFlight
    <3>2. {synced[s], reading[s], content[s]} \subseteq Nat
      BY <2>1 DEF NoticeInv, LoopTypes, Versions
    <3> QED
      BY <2>1, <3>1, <3>2
  <2> QED
    BY <1>2, <1>4, <1>5, <1>7, <2>1, <2>2, <2>3
<1>12. UnsyncedIsNoticed'
  <2> SUFFICES ASSUME NEW s \in registered', s \notin overlooked', content'[s] # synced'[s]
               PROVE  s \in dirty' \/ seen'[s] # content'[s]
    BY DEF UnsyncedIsNoticed
  <2>1. /\ s \in registered /\ s \in Sources /\ s \notin overlooked
        /\ content'[s] = content[s] /\ content[s] # synced[s]
    BY <1>2, <1>3, <1>6, <1>7 DEF disk
  <2>2. s \in dirty \/ seen[s] # content[s]
    BY <2>1 DEF NoticeInv, UnsyncedIsNoticed
  <2> QED
    BY <1>2, <1>4, <1>5, <1>7, <2>1, <2>2
<1>13. SurfaceChangeIsNoticed'
  <2> SUFFICES ASSUME wanted' # registered', ~resurface', ~stale'
               PROVE  \E s \in Resurfacing : seen'[s] # content'[s]
    BY DEF SurfaceChangeIsNoticed
  <2>1. wanted # registered /\ ~resurface /\ ~stale /\ content' = content
    BY <1>2, <1>3, <1>7 DEF disk
  <2>2. PICK s \in Resurfacing : seen[s] # content[s]
    BY <2>1 DEF NoticeInv, SurfaceChangeIsNoticed
  <2>3. s \notin news /\ s \notin first
    BY <1>2, <1>7, <2>1
  <2>4. s \notin complete /\ s \in Sources
    BY <1>4, <1>6, <2>2, <2>3
  <2> QED
    BY <1>5, <2>1, <2>2, <2>4
<1> QED
  BY <1>8, <1>9, <1>10, <1>11, <1>12, <1>13 DEF NoticeInv

\* A write of one source, by whomever.
LEMMA WriteStep ==
  ASSUME NoticeInv, NEW s \in Sources, content[s] < MaxVersion, Change(s, content[s] + 1),
         UNCHANGED <<scheduler, base, seen, stale, reading, resurface, at>>,
         \A t \in Tasks : task'[t] = "read" => task[t] = "read"
  PROVE  NoticeInv'
<1>1. content[s] + 1 \in Versions
  BY SourceVersions, VersionFacts DEF NoticeInv, Versions
<1>2. content' = [content EXCEPT ![s] = content[s] + 1]
  BY DEF Change
<1>3. content' \in [Sources -> Versions] /\ {s} \in SUBSET Sources
  BY <1>1, <1>2 DEF NoticeInv, LoopTypes
<1>4. /\ \A r \in {s} : content'[r] = content[r] + 1
      /\ \A r \in Sources \ {s} : content'[r] = content[r]
  BY <1>2 DEF NoticeInv, LoopTypes
<1>5. wanted' \in Surfaces /\ (wanted' # wanted => {s} \cap Resurfacing # {})
  BY DEF Change, NoticeInv, LoopTypes
<1> QED
  BY <1>3, <1>4, <1>5, ChangeStep

\* A task that ends reads no more; the others are where they were.
LEMMA TaskMoves ==
  ASSUME LocksInv, NEW t \in Tasks, NEW stage, stage # "read",
         Goto(t, stage)
  PROVE  \A u \in Tasks : task'[u] = "read" => task[u] = "read" /\ u # t
BY DEF LocksInv, Goto

\* A step of the tools and of other processes.
LEMMA TaskNotices ==
  ASSUME LocksInv, NoticeInv, NEW t \in Tasks, TaskStep(t)
  PROVE  NoticeInv'
<1>1. CASE TakeSerial(t) \/ TakeAgentLock(t)
  <2>1. /\ \A u \in Tasks : task'[u] = "read" => task[u] = "read"
        /\ UNCHANGED <<disk, base, seen, stale, reading, scheduler, at, resurface>>
    BY <1>1, TaskMoves DEF TakeSerial, TakeAgentLock, Alone, polling
  <2> QED
    BY <2>1, NoNoticeStep DEF scheduler
<1>2. CASE Busy(t) \/ VaultRefused(t)
  <2>1. /\ \A u \in Tasks : task'[u] = "read" => task[u] = "read"
        /\ UNCHANGED <<disk, base, seen, stale, reading, scheduler, at, resurface>>
    BY <1>2, TaskMoves DEF Busy, VaultRefused, ReleaseLocks, Alone, polling
  <2> QED
    BY <2>1, NoNoticeStep DEF scheduler
<1>3. CASE TaskExport(t)
  BY <1>3, ReadStep DEF TaskExport, Alone, polling
<1>4. CASE TaskImport(t)
  BY <1>4, ImportStep
<1>5. CASE TaskDone(t)
  <2>1. agentLock = t /\ task[t] = "read"
    BY <1>5 DEF TaskDone, LocksInv
  <2>2. at # "upload" /\ \A u \in Tasks \ {t} : task[u] # "read"
    BY <2>1, LoopAssumption DEF LocksInv
  <2>3. \A u \in Tasks : task'[u] = "read" => task[u] = "read" /\ u # t
    BY <1>5, TaskMoves DEF TaskDone, ReleaseLocks
  <2>4. ~InFlight'
    BY <1>5, <2>2, <2>3 DEF TaskDone, Alone, InFlight
  <2>5. /\ TakeBase /\ dirty' = dirty
        /\ UNCHANGED <<registered, disk, seen, stale, reading, resurface>>
    BY <1>5 DEF TaskDone, Alone, polling
  <2> QED
    BY <2>1, <2>4, <2>5, BaseStep
<1>6. CASE VaultWrite(t)
  <2>1. \A u \in Tasks : task'[u] = "read" => task[u] = "read"
    BY <1>6, TaskMoves DEF VaultWrite
  <2>2. VaultSource \in Sources
    BY LoopAssumption
  <2> QED
    BY <1>6, <2>1, <2>2, WriteStep DEF VaultWrite, Alone, polling
<1>7. CASE Note(t)
  <2>1. /\ \A u \in Tasks : task'[u] = "read" => task[u] = "read"
        /\ UNCHANGED <<disk, base, seen, stale, reading, at>>
    BY <1>7, TaskMoves DEF Note, polling
  <2>2. /\ registered' = registered /\ dirty \subseteq dirty' /\ covered' \subseteq covered
        /\ (resurface => resurface')
    BY <1>7 DEF Note, Mark, scheduler
  <2> QED
    BY <2>1, <2>2, NoNoticeStep
<1> QED
  BY <1>1, <1>2, <1>3, <1>4, <1>5, <1>6, <1>7 DEF TaskStep

\* A step of the loop's own task.
LEMMA LoopNotices ==
  ASSUME LocksInv, NoticeInv,
         \/ LoopStep \/ Poll \/ PollIdle \/ Rescan(TRUE) \/ LockError \/ RecordError
         \/ \E message \in Sources \cup {Overflow} : Drain(message)
  PROVE  NoticeInv'
<1>1. CASE TickRefresh
  BY <1>1, RefreshStep
<1>2. CASE Rescan(FALSE) \/ Rescan(TRUE)
  BY <1>2, RescanStep
<1>3. CASE Poll \/ PollIdle
  BY <1>3, NoNoticeStep DEF Poll, PollIdle, Begin, scheduler, polling
<1>4. CASE TryLocks \/ LockError
  <2>1. registered' = registered /\ dirty' = dirty /\ at' \in {"export", "select"}
    BY <1>4 DEF TryLocks, LockError, Abort, GiveUp, scheduler
  <2>2. UNCHANGED <<disk, base, seen, stale, reading, resurface, task>>
    BY <1>4 DEF TryLocks, LockError, polling
  <2> QED
    BY <2>1, <2>2, NoNoticeStep
<1>5. CASE Export
  BY <1>5, ReadStep DEF Export, polling
<1>6. CASE RecordOk
  <2>1. at = "upload" /\ at' = "select" /\ agentLock = Loop /\ UNCHANGED task
    BY <1>6 DEF RecordOk, LocksInv
  <2>2. ~InFlight'
    BY <2>1, LoopAssumption DEF InFlight, LocksInv
  <2>3. /\ TakeBase /\ dirty' = dirty \ covered
        /\ UNCHANGED <<registered, disk, seen, stale, reading, resurface>>
    BY <1>6 DEF RecordOk, Succeed, polling
  <2> QED
    BY <2>1, <2>2, <2>3, BaseStep
<1>7. CASE RecordError
  BY <1>7, NoNoticeStep DEF RecordError, GiveUp, polling
<1>8. ASSUME NEW message \in Sources \cup {Overflow}, Drain(message)
      PROVE  NoticeInv'
  <2>1. /\ registered' = registered /\ dirty \subseteq dirty' /\ covered' \subseteq covered
        /\ (resurface => resurface')
    BY <1>8 DEF Drain, MarkSources, Mark
  <2> QED
    BY <1>8, <2>1, NoNoticeStep DEF Drain, polling
<1> QED
  BY <1>1, <1>2, <1>3, <1>4, <1>5, <1>6, <1>7, <1>8 DEF LoopStep

\* A step of the workspace, the watcher, the operator or a caller.
LEMMA EnvironmentNotices ==
  ASSUME LocksInv, NoticeInv, Environment
  PROVE  NoticeInv'
<1>1. ASSUME NEW s \in Sources, Write(s)
      PROVE  NoticeInv'
  BY <1>1, WriteStep DEF Write, polling
<1>2. ASSUME NEW s \in Sources, ReplaceRoot(s) \/ Outgrow(s)
      PROVE  NoticeInv'
  BY <1>2, NoNoticeStep DEF ReplaceRoot, Outgrow, polling, scheduler
<1>3. CASE LoseEvents
  BY <1>3, NoNoticeStep DEF LoseEvents, polling, scheduler
<1>4. CASE Steer
  BY <1>4, NoNoticeStep DEF Steer, Gesture, polling
<1>5. CASE Rescan(TRUE) \/ LockError \/ RecordError
  BY <1>5, LoopNotices
<1>6. ASSUME NEW t \in Tasks, Call(t) \/ TaskFails(t)
      PROVE  NoticeInv'
  <2>1. /\ \A u \in Tasks : task'[u] = "read" => task[u] = "read"
        /\ UNCHANGED <<disk, base, seen, stale, reading, scheduler, at, resurface>>
    BY <1>6, TaskMoves DEF Call, TaskFails, ReleaseLocks, Alone, polling
  <2> QED
    BY <2>1, NoNoticeStep DEF scheduler
<1>7. ASSUME NEW t \in Tasks, NEW s \in Sources, TrackWrite(t, s)
      PROVE  NoticeInv'
  <2>1. \A u \in Tasks : task'[u] = "read" => task[u] = "read"
    BY <1>7, TaskMoves DEF TrackWrite
  <2> QED
    BY <1>7, <2>1, WriteStep DEF TrackWrite, Alone, polling
<1> QED
  BY <1>1, <1>2, <1>3, <1>4, <1>5, <1>6, <1>7 DEF Environment

\* Every step notices.
LEMMA NoticeStep ==
  ASSUME LocksInv, NoticeInv, [Next]_vars
  PROVE  NoticeInv'
<1>1. CASE UNCHANGED vars
  BY <1>1, NoNoticeStep DEF vars, scheduler, polling
<1>2. CASE \E t \in Tasks : TaskStep(t)
  BY <1>2, TaskNotices
<1>3. CASE Environment
  BY <1>3, EnvironmentNotices
<1>4. CASE \/ LoopStep \/ Poll \/ PollIdle
           \/ \E message \in Sources \cup {Overflow} : Drain(message)
  BY <1>4, LoopNotices
<1> QED
  BY <1>1, <1>2, <1>3, <1>4 DEF Next

\* At the start everything is dirty and nothing has been seen.
LEMMA NoticeInit == Init => NoticeInv
<1> SUFFICES ASSUME Init PROVE NoticeInv
  OBVIOUS
<1>1. LoopTypes
  BY VersionFacts DEF Init, LoopTypes, Versions
<1>2. VersionsGrow
  <2>1. \A s \in Sources : /\ content[s] = 0 /\ synced[s] = 0 /\ reading[s] = 0
                           /\ seen[s] = Unseen
    BY DEF Init
  <2>2. \A s \in Sources : /\ synced[s] <= content[s] /\ reading[s] <= content[s]
                           /\ synced[s] <= reading[s]
    <3>1. 0 <= 0
      OBVIOUS
    <3> QED
      BY <2>1, <3>1, Zenon
  <2> QED
    BY <2>1, <2>2, Zenon DEF VersionsGrow
<1>3. LoopReads /\ TaskReads
  BY DEF Init, LoopReads, TaskReads
<1>4. UnsyncedIsNoticed /\ SurfaceChangeIsNoticed
  BY DEF Init, UnsyncedIsNoticed, SurfaceChangeIsNoticed
<1> QED
  BY <1>1, <1>2, <1>3, <1>4 DEF NoticeInv

\* What is read, what is in the base and what was seen stay in step with the
\* workspace, in every behaviour.
THEOREM NoticeInvariance == Spec => []NoticeInv
BY NoticeInit, NoticeStep, LocksInvariance, PTL DEF Spec

\* The rescan is a backstop: whatever the watcher misses or loses, and whatever
\* runs beside the loop, a change that no sync has is dirty or will be scanned.
THEOREM UnsyncedIsNoticedHolds == Spec => []UnsyncedIsNoticed
<1>1. NoticeInv => UnsyncedIsNoticed
  BY DEF NoticeInv
<1> QED
  BY <1>1, NoticeInvariance, PTL

\* refresh_surface: no request for a refresh is lost, also when alf_track asks
\* for one while a tick takes one.
THEOREM SurfaceChangeIsNoticedHolds == Spec => []SurfaceChangeIsNoticed
<1>1. NoticeInv => SurfaceChangeIsNoticed
  BY DEF NoticeInv
<1> QED
  BY <1>1, NoticeInvariance, PTL

=============================================================================
