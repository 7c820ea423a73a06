---------------------------- MODULE WatchEngine ----------------------------
(***************************************************************************)
(* The scheduler of the MCP server's watch loop                            *)
(* (alf-cli/src/commands/mcp/watch/engine.rs), driven by run_loop, run_due *)
(* and the MCP tools (watch/mod.rs, mcp/mod.rs).                           *)
(*                                                                         *)
(* The engine is behind one mutex, so each of its methods is one step.     *)
(* Between poll and record_result the loop's own task is inside run_due:   *)
(* only the tools, on other tasks, reach the engine then.                  *)
(*                                                                         *)
(* Time is counted in steps of Elapse; instants are kept as the time since *)
(* them, which stops counting where no guard can tell the difference.      *)
(* A definition called Faulty... is the one after it with a plausible bug. *)
(***************************************************************************)
EXTENDS Naturals, FiniteSets

CONSTANTS
  Sources,        \* ids of watch sources
  TrackedSources, \* those that may be on the tracked-file channel
  ToolSources,    \* those a tool marks from its own task (the vault source)
  Window,         \* quiesce_window
  Cadences,       \* the interval settings an operator chooses from
  MaxInterval,    \* no cadence is longer
  BackoffBase,    \* the first delay
  BackoffCap,     \* the longest delay
  BackoffSteps,   \* attempts past this one do not double the delay
  AuthBudget,     \* AUTH_ATTEMPT_BUDGET
  PanicBudget,    \* PANIC_ATTEMPT_BUDGET
  MaxCount,       \* bound: a source is marked while its dirty_count is below
  Allowance       \* bound: how often each kind of event may happen

EventKinds == {"mark", "failure", "abort", "gesture"}

ASSUME EngineAssumption ==
  /\ IsFiniteSet(Sources)
  /\ TrackedSources \subseteq Sources
  /\ ToolSources \subseteq Sources
  /\ {Window, MaxInterval, BackoffBase, BackoffCap, AuthBudget, PanicBudget} \subseteq Nat \ {0}
  /\ BackoffSteps \in 1..6
  /\ MaxCount \in Nat /\ MaxCount > 1
  /\ Cadences \subseteq [own : [Sources -> 1..MaxInterval], tracked : 1..MaxInterval]
  /\ Allowance \in [EventKinds -> Nat]

VARIABLES
  src,        \* the registered sources: a SourceState for each
  cadence,    \* the intervals of the sources, and that of the tracked-file channel
  tracked,    \* the sources on that channel
  paused,     \* config.paused
  syncing,    \* between a Tick::Sync or Tick::Recover and its result
  inFlight,   \* the dirty_count each source had at the poll
  inFlightRecover,
  policy,     \* parked, backoff, recover and budget counters
  \* history
  owed,       \* per source: the freshest change the engine was told of
  recoverables, \* recoverable failures since a success or a gesture
  justFailed, \* a sync failed, and no time has passed since
  left        \* what remains of Allowance

schedule == <<src, cadence, tracked, paused>>
flight == <<syncing, inFlight, inFlightRecover>>
past == <<owed, recoverables, justFailed>>
vars == <<schedule, flight, policy, past, left>>

Smaller(a, b) == IF a < b THEN a ELSE b

Recoverable == {"Conflict", "MissingBase", "Poisoned"}
Terminal == {"Fork", "RestoreIncomplete", "Fatal"}

ParkCode == [c \in Recoverable \cup Terminal \cup {"Auth", "Panicked"} |->
  CASE c = "Conflict"          -> "sync_conflict_unresolved"
    [] c = "MissingBase"       -> "sync_missing_base_unresolved"
    [] c = "Poisoned"          -> "sync_poisoned_base_unresolved"
    [] c = "Fork"              -> "sync_first_sync_conflict"
    [] c = "RestoreIncomplete" -> "restore_incomplete"
    [] c = "Fatal"             -> "watch_parked"
    [] c = "Auth"              -> "auth_failed"
    [] c = "Panicked"          -> "watch_panicked"]

Unresolved == {ParkCode[c] : c \in Recoverable}

Codes == {"none", "lock_unavailable", "sync_conflict_unresolved",
          "sync_missing_base_unresolved", "sync_poisoned_base_unresolved",
          "sync_first_sync_conflict", "restore_incomplete", "watch_parked",
          "auth_failed", "watch_panicked"}

\* quiet and rested: the time since last_change and since last_fire.
SourceStates == [dirty : BOOLEAN, count : 0..MaxCount,
                 quiet : 0..Window, rested : 0..MaxInterval]

\* attempts = 0 is backoff: None; wait is the time to backoff.until.
Policies == [parked : Codes,
             wait : 0..BackoffCap, attempts : 0..BackoffSteps,
             recoverAttempted : BOOLEAN, recoverPending : BOOLEAN,
             auth : 0..AuthBudget, panics : 0..PanicBudget]

\* What a success resets, and clear_park too.
Untroubled == [parked |-> "none", wait |-> 0, attempts |-> 0,
               recoverAttempted |-> FALSE, recoverPending |-> FALSE,
               auth |-> 0, panics |-> 0]

NoFlight == [s \in {} |-> 0]

Registered == DOMAIN src

TypeOK ==
  /\ Registered \subseteq Sources /\ src \in [Registered -> SourceStates]
  /\ cadence \in Cadences /\ tracked \subseteq TrackedSources
  /\ paused \in BOOLEAN /\ syncing \in BOOLEAN /\ inFlightRecover \in BOOLEAN
  /\ DOMAIN inFlight \subseteq Sources
  /\ \A s \in DOMAIN inFlight : inFlight[s] \in 1..MaxCount
  /\ policy \in Policies
  /\ owed \in [Sources -> {"nothing", "polled", "news"}]
  /\ recoverables \in 0..3 /\ justFailed \in BOOLEAN
  /\ left \in [EventKinds -> Nat]

\* A source that was never changed nor synced passes both gates.
NewSource == [dirty |-> TRUE, count |-> 1, quiet |-> Window, rested |-> MaxInterval]

Marked(state) == [state EXCEPT !.dirty = TRUE, !.count = @ + 1, !.quiet = 0]

\* run_loop registers the surface and marks it dirty to catch up.
Init ==
  /\ src = [s \in Sources |-> Marked(NewSource)]
  /\ cadence \in Cadences /\ tracked = TrackedSources
  /\ paused = FALSE
  /\ syncing = FALSE /\ inFlight = NoFlight /\ inFlightRecover = FALSE
  /\ policy = Untroubled
  /\ owed = [s \in Sources |-> "news"]
  /\ recoverables = 0 /\ justFailed = FALSE
  /\ left = Allowance

Use(kind) == left[kind] > 0 /\ left' = [left EXCEPT ![kind] = @ - 1]

-----------------------------------------------------------------------------
(***************************************************************************)
(* Time and changes                                                        *)
(***************************************************************************)
Elapse ==
  /\ src' = [s \in Registered |->
               [src[s] EXCEPT !.quiet = Smaller(@ + 1, Window),
                              !.rested = Smaller(@ + 1, MaxInterval)]]
  /\ policy' = [policy EXCEPT !.wait = IF @ = 0 THEN 0 ELSE @ - 1]
  /\ justFailed' = FALSE
  /\ UNCHANGED <<cadence, tracked, paused, flight, owed, recoverables, left>>

\* A notify event or a rescan reports s, or a vault tool changed it.
MarkDirty(s) ==
  /\ syncing => s \in ToolSources
  /\ s \in Registered
  /\ src[s].count < MaxCount
  /\ Use("mark")
  /\ src' = [src EXCEPT ![s] = Marked(@)]
  /\ owed' = [owed EXCEPT ![s] = "news"]
  /\ UNCHANGED <<cadence, tracked, paused, flight, policy, recoverables, justFailed>>

\* The watcher lost events.
MarkAllDirty ==
  /\ ~syncing
  /\ \A s \in Registered : src[s].count < MaxCount
  /\ Use("mark")
  /\ src' = [s \in Registered |-> Marked(src[s])]
  /\ owed' = [s \in Sources |-> IF s \in Registered THEN "news" ELSE owed[s]]
  /\ UNCHANGED <<cadence, tracked, paused, flight, policy, recoverables, justFailed>>

\* The surface is derived again: known ids keep their state, new ones are dirty.
\* Any of them may be on another channel now.
SetSources(ids, channel) ==
  /\ ~syncing
  /\ ids # Registered \/ channel # tracked
  /\ Use("mark")
  /\ src' = [s \in ids |-> IF s \in Registered THEN src[s] ELSE NewSource]
  /\ tracked' = channel
  /\ owed' = [s \in Sources |-> IF s \notin ids THEN "nothing"
                                ELSE IF s \in Registered THEN owed[s] ELSE "news"]
  /\ UNCHANGED <<cadence, paused, flight, policy, recoverables, justFailed>>

-----------------------------------------------------------------------------
(***************************************************************************)
(* poll                                                                    *)
(***************************************************************************)
Dirty == {s \in Registered : src[s].dirty}
Quiesced(s) == src[s].quiet = Window

\* interval_for
Interval(s) == IF s \in tracked THEN cadence.tracked ELSE cadence.own[s]

CooledDown(s) == src[s].rested >= Interval(s)

BeginSync(kind) ==
  /\ syncing' = TRUE
  /\ inFlight' = [s \in Dirty |-> src[s].count]
  /\ inFlightRecover' = (kind = "recover")
  /\ owed' = [s \in Sources |-> IF s \in Dirty THEN "polled" ELSE owed[s]]

FaultyMayRun ==  \* a backoff blocks though its time has passed
  /\ ~syncing /\ ~paused
  /\ policy.parked = "none"
  /\ policy.attempts = 0
  /\ \A s \in Dirty : Quiesced(s)

\* No sync runs, nothing forbids one and no dirty source is in the middle of a write.
MayRun ==
  /\ ~syncing /\ ~paused
  /\ policy.parked = "none"
  /\ policy.wait = 0
  /\ \A s \in Dirty : Quiesced(s)

PollSync ==
  /\ MayRun
  /\ ~policy.recoverPending
  /\ \E s \in Dirty : CooledDown(s)
  /\ \A s \in Dirty \cap tracked : CooledDown(s)
  /\ BeginSync("sync")
  /\ UNCHANGED <<schedule, policy, recoverables, justFailed, left>>

\* Cooldown and the tracked floor do not apply, and nothing need be dirty.
PollRecover ==
  /\ MayRun
  /\ policy.recoverPending
  /\ BeginSync("recover")
  /\ UNCHANGED <<schedule, policy, recoverables, justFailed, left>>

-----------------------------------------------------------------------------
(***************************************************************************)
(* The end of the authorised sync                                          *)
(***************************************************************************)
EndFlight ==
  /\ syncing
  /\ syncing' = FALSE
  /\ inFlight' = NoFlight

FaultyRecordOk ==  \* every source the sync covered is clean
  /\ EndFlight
  /\ inFlightRecover' = FALSE
  /\ src' = [s \in Registered |->
               IF s \in DOMAIN inFlight
               THEN [src[s] EXCEPT !.rested = 0, !.dirty = FALSE, !.count = 0]
               ELSE src[s]]
  /\ policy' = [Untroubled EXCEPT !.parked = policy.parked]
  /\ owed' = [s \in Sources |-> IF owed[s] = "polled" THEN "nothing" ELSE owed[s]]
  /\ recoverables' = 0
  /\ justFailed' = FALSE
  /\ UNCHANGED <<cadence, tracked, paused, left>>

\* A source stays dirty when it was marked again since the poll.
RecordOk ==
  LET covered == DOMAIN inFlight \cap Registered
      unchanged == {s \in covered : src[s].count = inFlight[s]}
  IN /\ EndFlight
     /\ inFlightRecover' = FALSE
     /\ src' = [s \in Registered |->
                  CASE s \in unchanged -> [src[s] EXCEPT !.rested = 0, !.dirty = FALSE, !.count = 0]
                    [] s \in covered \ unchanged -> [src[s] EXCEPT !.rested = 0]
                    [] OTHER -> src[s]]
     /\ policy' = [Untroubled EXCEPT !.parked = policy.parked]
     /\ owed' = [s \in Sources |-> IF owed[s] = "polled" THEN "nothing" ELSE owed[s]]
     /\ recoverables' = 0
     /\ justFailed' = FALSE
     /\ UNCHANGED <<cadence, tracked, paused, left>>

\* What every failure does first.
RecordFailure ==
  /\ EndFlight
  /\ Use("failure")
  /\ inFlightRecover' = FALSE
  /\ justFailed' = TRUE
  /\ UNCHANGED <<schedule, owed>>

FaultyDelay(attempts) == BackoffBase * 2 ^ attempts  \* no cap

\* Delays double from BackoffBase up to BackoffCap.
Delay(attempts) == Smaller(BackoffBase * 2 ^ attempts, BackoffCap)

Backoff(p) == [p EXCEPT !.wait = Delay(p.attempts),
                        !.attempts = Smaller(@ + 1, BackoffSteps)]

Parked(p, code) == [p EXCEPT !.parked = code]

RecordTransient ==
  /\ RecordFailure
  /\ policy' = Backoff([policy EXCEPT !.recoverPending = inFlightRecover])
  /\ UNCHANGED recoverables

RecordAuth ==
  LET p == [policy EXCEPT !.recoverPending = FALSE, !.auth = @ + 1]
  IN /\ RecordFailure
     /\ policy' = IF p.auth >= AuthBudget THEN Parked(p, ParkCode["Auth"]) ELSE Backoff(p)
     /\ UNCHANGED recoverables

FaultyRecordPanicked ==  \* no wait below the budget
  LET p == [policy EXCEPT !.recoverPending = FALSE, !.panics = @ + 1]
  IN /\ RecordFailure
     /\ policy' = IF p.panics >= PanicBudget THEN Parked(p, ParkCode["Panicked"]) ELSE p
     /\ UNCHANGED recoverables

RecordPanicked ==
  LET p == [policy EXCEPT !.recoverPending = FALSE, !.panics = @ + 1]
  IN /\ RecordFailure
     /\ policy' = IF p.panics >= PanicBudget THEN Parked(p, ParkCode["Panicked"]) ELSE Backoff(p)
     /\ UNCHANGED recoverables

RecordTerminal(class) ==
  /\ RecordFailure
  /\ policy' = Parked([policy EXCEPT !.recoverPending = FALSE], ParkCode[class])
  /\ UNCHANGED recoverables

FaultyRecordRecoverable(class) ==  \* the attempt is not remembered
  /\ RecordFailure
  /\ policy' = IF policy.recoverAttempted
               THEN Parked([policy EXCEPT !.recoverPending = FALSE], ParkCode[class])
               ELSE [policy EXCEPT !.recoverPending = TRUE]
  /\ recoverables' = recoverables + 1

\* One automatic recovery, then park.
RecordRecoverable(class) ==
  /\ RecordFailure
  /\ policy' = IF policy.recoverAttempted
               THEN Parked([policy EXCEPT !.recoverPending = FALSE], ParkCode[class])
               ELSE [policy EXCEPT !.recoverAttempted = TRUE, !.recoverPending = TRUE]
  /\ recoverables' = recoverables + 1

\* run_due could not take the in-process or the advisory lock.
AbortInFlight ==
  /\ EndFlight
  /\ Use("abort")
  /\ UNCHANGED <<schedule, inFlightRecover, policy, past>>

\* The advisory lock file could not be opened three times in a row.
ParkLockUnavailable ==
  /\ EndFlight
  /\ Use("failure")
  /\ policy' = Parked(policy, "lock_unavailable")
  /\ UNCHANGED <<schedule, inFlightRecover, past>>

-----------------------------------------------------------------------------
(***************************************************************************)
(* The operator's gestures, from the tools' own tasks                      *)
(***************************************************************************)
\* What happened before the gesture counts no more.
ForgetTroubles == recoverables' = 0 /\ justFailed' = FALSE

\* alf_watch_set: set_config, then note_explicit_unpause when it says so.
\* Leaving a pause forgets all but a pending recovery.
WatchSet(pause, chosen) ==
  LET resumed == [Untroubled EXCEPT !.recoverPending = policy.recoverPending]
      afterConfig == IF paused /\ ~pause THEN resumed ELSE policy
      unparks == ~pause /\ afterConfig.parked # "none"
  IN /\ Use("gesture")
     /\ paused' = pause
     /\ cadence' = chosen
     /\ policy' = IF unparks THEN Untroubled ELSE afterConfig
     /\ IF policy' # policy THEN ForgetTroubles ELSE UNCHANGED <<recoverables, justFailed>>
     /\ UNCHANGED <<src, tracked, flight, owed>>

\* alf_watch_set without a pause field.
WatchSetCadence(chosen) ==
  /\ Use("gesture")
  /\ cadence' = chosen
  /\ UNCHANGED <<src, tracked, paused, flight, policy, past>>

\* A manual alf_sync succeeded: a park ends.
NoteManualSyncOk ==
  /\ policy.parked # "none"
  /\ Use("gesture")
  /\ policy' = Untroubled
  /\ ForgetTroubles
  /\ UNCHANGED <<schedule, flight, owed>>

-----------------------------------------------------------------------------
RecordResult ==
  \/ RecordOk
  \/ RecordTransient
  \/ RecordAuth
  \/ RecordPanicked
  \/ \E class \in Terminal : RecordTerminal(class)
  \/ \E class \in Recoverable : RecordRecoverable(class)

Next ==
  \/ Elapse
  \/ \E s \in Sources : MarkDirty(s)
  \/ MarkAllDirty
  \/ \E ids \in SUBSET Sources, channel \in SUBSET TrackedSources : SetSources(ids, channel)
  \/ PollSync
  \/ PollRecover
  \/ RecordResult
  \/ AbortInFlight
  \/ ParkLockUnavailable
  \/ \E pause \in BOOLEAN, chosen \in Cadences : WatchSet(pause, chosen)
  \/ \E chosen \in Cadences : WatchSetCadence(chosen)
  \/ NoteManualSyncOk

Spec == Init /\ [][Next]_vars

\* Time passes, the ticker polls on every tick, and a sync that runs ends.
Fairness ==
  /\ WF_vars(Elapse)
  /\ WF_vars(PollSync \/ PollRecover)
  /\ WF_vars(RecordResult)

FairSpec == Spec /\ Fairness

-----------------------------------------------------------------------------
(***************************************************************************)
(* Properties                                                              *)
(***************************************************************************)

\* No change the engine was told of is forgotten before a sync that was
\* authorised after it has succeeded: whatever fails, is aborted, or is marked
\* while a sync runs, its source stays dirty.
ToldChangesStayDirty ==
  \A s \in Sources : owed[s] # "nothing" => s \in Registered /\ src[s].dirty

\* "Auto-recover once, then park": between two successes or gestures of the
\* operator a second recoverable failure parks the loop, however many other
\* failures, waits and aborted attempts lie between the two.
RecoversOnceThenParks ==
  recoverables <= 2 /\ (recoverables = 2 => policy.parked # "none")

\* After a failed sync the engine never authorises another one at the same
\* instant, but for the one recovery: every other failure waits or parks.
NoHotLoop ==
  syncing /\ justFailed => inFlightRecover /\ recoverables = 1

\* A dirty source is eventually synced, unless the loop stops asking.
DirtySourcesAreSynced ==
  \A s \in Sources :
    owed[s] # "nothing" ~> owed[s] = "nothing" \/ policy.parked # "none" \/ paused

\* The scheduler keeps the promises its driver is built on: the state seen by
\* the driver moves as SyncScheduler allows, whatever the timing decides.
Promises == INSTANCE SyncScheduler WITH
  registered <- Registered,
  dirty <- Dirty,
  covered <- {s \in DOMAIN inFlight \cap Registered : src[s].count = inFlight[s]},
  running <- syncing,
  halted <- paused \/ policy.parked # "none"

SchedulerPromises == Promises!SchedulerSpec

=============================================================================
