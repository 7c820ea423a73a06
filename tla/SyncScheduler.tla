--------------------------- MODULE SyncScheduler ---------------------------
(***************************************************************************)
(* What the watch scheduler promises its driver, whatever its timing: one  *)
(* sync at a time, none while parked or paused, and a source is clean only *)
(* after a successful sync that was authorised after its last mark.        *)
(*                                                                         *)
(* WatchEngine implements this specification; WatchLoop is built on it, so *)
(* that what holds of the loop holds for every cadence and backoff.        *)
(***************************************************************************)
CONSTANT Sources

VARIABLES
  registered,  \* the sources of the surface
  dirty,       \* those with a change that is not synced
  covered,     \* while a sync runs: those it will clean, if it succeeds
  running,     \* a sync is authorised and its result is not recorded
  halted       \* parked or paused

scheduler == <<registered, dirty, covered, running, halted>>

SchedulerInit ==
  /\ registered \subseteq Sources
  /\ dirty = registered
  /\ covered = {} /\ running = FALSE /\ halted = FALSE

\* A mark of an unknown source is ignored.
Mark(marked) ==
  /\ dirty' = dirty \cup (marked \cap registered)
  /\ covered' = covered \ marked
  /\ UNCHANGED <<registered, running, halted>>

\* Known sources keep their state, new ones are dirty.
Register(ids) ==
  /\ ~running
  /\ registered' = ids
  /\ dirty' = (dirty \cap ids) \cup (ids \ registered)
  /\ UNCHANGED <<covered, running, halted>>

\* A recovery may run with nothing dirty.
Begin ==
  /\ ~running /\ ~halted
  /\ running' = TRUE
  /\ covered' = dirty
  /\ UNCHANGED <<registered, dirty, halted>>

Succeed ==
  /\ running
  /\ running' = FALSE
  /\ dirty' = dirty \ covered
  /\ covered' = {}
  /\ UNCHANGED <<registered, halted>>

\* A failure or an abort; the former may park.
GiveUp ==
  /\ running
  /\ running' = FALSE
  /\ covered' = {}
  /\ halted' \in {halted, TRUE}
  /\ UNCHANGED <<registered, dirty>>

\* The operator pauses, resumes or clears a park.
Gesture ==
  /\ halted' \in BOOLEAN
  /\ UNCHANGED <<registered, dirty, covered, running>>

SchedulerNext ==
  \/ \E marked \in SUBSET Sources : Mark(marked)
  \/ \E ids \in SUBSET Sources : Register(ids)
  \/ Begin
  \/ Succeed
  \/ GiveUp
  \/ Gesture

SchedulerSpec == SchedulerInit /\ [][SchedulerNext]_scheduler

=============================================================================
