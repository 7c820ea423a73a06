------------------------- MODULE PublishedArchives -------------------------
(***************************************************************************)
(* What synchronisation promises a reader of the cloud.  A version number  *)
(* is issued with a complete archive that some host exported, and may be   *)
(* issued again with another one.  As long as the current version stands   *)
(* for one archive only, that archive is the head and the next head is     *)
(* again one complete exported archive; a mixture of two can only come of  *)
(* a change made to a version that had been issued twice.                  *)
(*                                                                         *)
(* drafts holds the archives hosts have exported and may still publish.    *)
(***************************************************************************)
EXTENDS Naturals

CONSTANTS
  Archives,  \* complete archives
  None       \* nothing published yet

VARIABLES
  head,      \* the published archive
  version,   \* its version
  readings,  \* the archives that version may stand for
  drafts     \* archives on their way

vars == <<head, version, readings, drafts>>

Init == head = None /\ version = 0 /\ readings = {} /\ drafts = {}

\* A host exports a workspace.
Draft(a) ==
  /\ drafts' = drafts \cup {a}
  /\ UNCHANGED <<head, version, readings>>

\* Drafts that were given up, or are no longer needed, disappear.
Discard ==
  /\ drafts' \subseteq drafts
  /\ UNCHANGED <<head, version, readings>>

\* One draft becomes the head, as a whole, under a new version ...
Publish(a) ==
  /\ a \in drafts
  /\ head' = a
  /\ version' = version + 1
  /\ readings' = {a}
  /\ drafts' \subseteq drafts

\* ... or under the current one, which then stands for both.
Reissue(a) ==
  /\ a \in drafts
  /\ head' = a
  /\ version' = version
  /\ readings' = readings \cup {a}
  /\ drafts' \subseteq drafts

\* A change takes one reading of the version to a draft.  The head becomes that
\* draft if it was the reading the change was made to, and another one only if
\* the version had several.
Amend(a) ==
  /\ a \in drafts \cap readings'
  /\ head \in readings
  /\ head' \in readings'
  /\ readings = {head} => readings' = {a}
  /\ version' = version + 1
  /\ drafts' \subseteq drafts

Next ==
  \/ \E a \in Archives : Draft(a) \/ Publish(a) \/ Reissue(a) \/ Amend(a)
  \/ Discard

Spec == Init /\ [][Next]_vars

=============================================================================
