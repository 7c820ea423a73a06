--------------------------- MODULE MCWatchEngine ---------------------------
(***************************************************************************)
(* Instances of WatchEngine for TLC.                                       *)
(***************************************************************************)
EXTENDS WatchEngine

\* The sources at 1 or at 2, the tracked channel at 2.
FastOrSlow == {[own |-> [s \in Sources |-> i], tracked |-> 2] : i \in 1..2}

Allow(marks, failures, aborts, gestures) ==
  [k \in EventKinds |-> CASE k = "mark"    -> marks
                          [] k = "failure" -> failures
                          [] k = "abort"   -> aborts
                          [] k = "gesture" -> gestures]

\* Enough failures to exhaust a budget, or to fail a recovery.
AllowSome == Allow(2, 3, 1, 1)

=============================================================================
