------------------------------ MODULE Archive ------------------------------
(***************************************************************************)
(* What an .alf archive holds, as far as synchronisation can tell: for     *)
(* every record (a memory record, a credential, a principal, the identity  *)
(* or one raw source file) either a version or nothing.  An archive is a   *)
(* function from record keys to versions; Blank means "no such record".    *)
(*                                                                         *)
(* Keys in Tracked are the opaque workspace files an agent opted into with *)
(* `alf add`: a delta cannot carry them.                                   *)
(***************************************************************************)

CONSTANTS
  Keys,      \* record identities of one agent
  Tracked,   \* the keys that are tracked files
  Vals,      \* versions a record can have
  Blank      \* the record does not exist

ASSUME ArchiveAssumption ==
  /\ Tracked \subseteq Keys
  /\ Blank \in Vals

Archives == [Keys -> Vals]

EmptyArchive == [k \in Keys |-> Blank]

\* A delta: the new version of every key it mentions (Blank deletes it).
Deltas == UNION {[S -> Vals] : S \in SUBSET Keys}

\* The keys on which two archives disagree.
ChangedKeys(prev, curr) == {k \in Keys : prev[k] # curr[k]}

FaultyDiff(prev, curr) ==  \* deletions are not sent
  [k \in {c \in ChangedKeys(prev, curr) : curr[c] # Blank} |-> curr[k]]

\* The entries a sync puts in a delta: creates, updates and deletes by key.
Diff(prev, curr) == [k \in ChangedKeys(prev, curr) |-> curr[k]]

FaultyApply(delta, archive) ==  \* deletions are not replayed
  [k \in Keys |-> IF k \in DOMAIN delta /\ delta[k] # Blank THEN delta[k] ELSE archive[k]]

\* Replaying a delta on an archive: the mentioned keys are replaced.
Apply(delta, archive) ==
  [k \in Keys |-> IF k \in DOMAIN delta THEN delta[k] ELSE archive[k]]

\* Some tracked file differs, so that a delta cannot express the change.
TrackedFilesChanged(prev, curr) == ChangedKeys(prev, curr) \cap Tracked # {}

(***************************************************************************)
(* What an adapter's import may leave in the workspace.  A record of the   *)
(* archive replaces the workspace's, or leaves it alone where the importer *)
(* keeps what exists (ZeroClaw's raw files); none is missing afterwards.  A *)
(* local-only record survives (merge mode, and the file adapters, which    *)
(* delete nothing) or is dropped (total mode).                             *)
(***************************************************************************)
ImportResults(archive, workspace) ==
  {w \in Archives :
     \A k \in Keys : /\ w[k] \in {archive[k], workspace[k]}
                     /\ archive[k] # Blank => w[k] # Blank}

\* A workspace caught in the middle of an import.
TornImports(archive, workspace) ==
  {w \in Archives : \A k \in Keys : w[k] \in {archive[k], workspace[k]}}

=============================================================================
