------------------------------- MODULE Vault -------------------------------
(***************************************************************************)
(* The credentials vault: alf processes and MCP servers that add, delete   *)
(* and rotate under the advisory locks, the migration of an install-scoped *)
(* vault to its agent, the archives made of a vault and the restores and   *)
(* imports that write one back over it, and processes killed between any   *)
(* two of their steps (alf-cli/src/commands/vault.rs, vault_migrate.rs,    *)
(* vault_key.rs, the vault tools of commands/mcp/mod.rs, dispatch_vault of *)
(* main.rs, restore_agent_vault and load_agent_vault of the adapters).     *)
(*                                                                         *)
(* A vault file is a set of records, a record is sealed under one key. A   *)
(* flock is freed when its holder dies. One runtime; every command uses    *)
(* the default paths, which are the ones the commands share.               *)
(* A definition called Faulty... is the one after it with a plausible bug. *)
(***************************************************************************)
EXTENDS Naturals, FiniteSets

CONSTANTS
  Agents,
  Legacy,       \* the install-scoped vault, its key and its lock
  Derived,      \* the agent a server derives from its workspace
  Procs,        \* processes, each of which runs one command
  Names,        \* what an add calls its credential: a service and a label
  LabelOf,      \* of a name: the label, or the service when it has no label
  OtherRuntime, \* there is evidence of another runtime on this install
  CrossDevice,  \* the legacy files are on another file system
  Nobody,
  Pins,         \* what --agent or the pin of a server says, or Nobody
  MaxRemaps,    \* bound: changes of the mapping
  MaxAtOnce     \* bound: commands that run at the same time

ASSUME VaultAssumption ==
  /\ IsFiniteSet(Agents) /\ Derived \in Agents /\ Legacy \notin Agents /\ Names # {}
  /\ Nobody \notin Procs \cup Agents /\ Pins \subseteq Agents \cup {Nobody}
  /\ {"first", "absent", "broken"} \cap Procs = {}
  /\ {OtherRuntime, CrossDevice} \subseteq BOOLEAN
  /\ {MaxRemaps, MaxAtOnce} \subseteq Nat

Places == Agents \cup {Legacy}
Kinds == {"mcp_add", "cli_add", "delete", "rotate", "migrate"}

\* Keys are named after the process that made them, and records after the one
\* that added them; "first" is the key and the record of the legacy install.
Makers == Procs \cup {"first"}
Records == [id : Makers, name : Names, key : Makers]
KeyFiles == Makers \cup {"absent", "broken"}

VARIABLES
  enabled,  \* the enabled agents of the mapping
  vault,    \* per place: the records of its file
  present,  \* places that have a vault file
  keyFile,  \* per place: its key file
  pending,  \* per place: <keypath>.new
  torn,     \* agents whose vault file is the beginning of a copy, no document
  lock,     \* per place: the holder of its advisory lock
  pc,       \* per process: where it is
  view,     \* per process: its command and what it has read
  archived, \* per agent: the vault in the archive that was made of it
  remaps,   \* history: changes of the mapping
  homes,    \* history: agents that a migration has moved a file to
  added,    \* history: records whose add was reported a success
  gone,     \* history: records deleted or replaced
  returned, \* history, per agent: records that a restore or import brought back
  dropped,  \* history: records that a restore or import wrote over
  retired   \* history: keys that a rotation has replaced or thrown away

files == <<vault, present, keyFile, pending, torn>>
procs == <<pc, view>>
restores == <<archived, returned, dropped>>
past == <<remaps, homes, added, gone, restores, retired>>
vars == <<enabled, files, lock, procs, past>>

Ids(records) == {r.id : r \in records}

\* wish: --agent, or the agent a server is pinned to.
Views == [kind : Kinds, wish : Agents \cup {Nobody}, scope : Places, target : Agents,
          doc : SUBSET Records, key : Makers, name : Names, update : BOOLEAN]

NewView == [kind |-> "migrate", wish |-> Nobody, scope |-> Legacy, target |-> Derived,
            doc |-> {}, key |-> "first", name |-> CHOOSE n \in Names : TRUE, update |-> FALSE]

Steps == {"start", "legacy_lock", "target_lock", "move_vault", "unlink_vault", "move_key",
          "unlink_key", "lock", "guard", "key", "read", "write", "check", "stage",
          "rewrite", "replace", "ended"}

VaultTypeOK ==
  /\ enabled \subseteq Agents
  /\ vault \in [Places -> SUBSET Records] /\ present \subseteq Places
  /\ \A at \in Places : at \notin present => vault[at] = {}
  /\ torn \subseteq Agents /\ archived \in [Agents -> SUBSET Records]
  /\ keyFile \in [Places -> KeyFiles] /\ pending \in [Places -> KeyFiles]
  /\ lock \in [Places -> Procs \cup {Nobody}]
  /\ pc \in [Procs -> Steps] /\ view \in [Procs -> Views]
  /\ remaps \in 0..MaxRemaps /\ homes \subseteq Agents
  /\ added \subseteq Makers /\ gone \subseteq Makers
  /\ returned \in [Agents -> SUBSET Records]
  /\ dropped \subseteq Makers /\ retired \subseteq KeyFiles

OldInstall == {[id |-> "first", name |-> n, key |-> "first"] : n \in Names}

\* A fresh install, or one from before vaults were kept per agent.
Init ==
  /\ enabled \in SUBSET Agents
  /\ \/ /\ present = {} /\ vault = [at \in Places |-> {}]
        /\ keyFile = [at \in Places |-> "absent"]
        /\ added = {}
     \/ /\ present = {Legacy}
        /\ \E old \in OldInstall :
             vault = [at \in Places |-> IF at = Legacy THEN {old} ELSE {}]
        /\ keyFile = [at \in Places |-> IF at = Legacy THEN "first" ELSE "absent"]
        /\ added = {"first"}
  /\ pending = [at \in Places |-> "absent"]
  /\ lock = [at \in Places |-> Nobody]
  /\ pc = [p \in Procs |-> "start"]
  /\ view = [p \in Procs |-> NewView]
  /\ torn = {} /\ archived = [a \in Agents |-> {}]
  /\ remaps = 0 /\ homes = {} /\ gone = {}
  /\ returned = [a \in Agents |-> {}] /\ dropped = {} /\ retired = {}

At(p, step) == pc[p] = step
Goto(p, step) == pc' = [pc EXCEPT ![p] = step]
Release(p) == lock' = [at \in Places |-> IF lock[at] = p THEN Nobody ELSE lock[at]]

\* A process that has ended, whatever the reason, holds no lock.
End(p) ==
  /\ Goto(p, "ended")
  /\ view' = [view EXCEPT ![p] = NewView]
  /\ Release(p)

Fail(p) == End(p) /\ UNCHANGED <<enabled, files, past>>

-----------------------------------------------------------------------------
(***************************************************************************)
(* Migration                                                               *)
(***************************************************************************)
\* decide_target: no row, no enabled row, evidence of another runtime and
\* several enabled rows all block. A human's choice is taken as it is.
Targets(kind, rows) ==
  IF kind = "migrate" THEN Agents
  ELSE IF Cardinality(rows) = 1 /\ ~(Legacy \in present /\ OtherRuntime) THEN rows ELSE {}

NothingToMove == Legacy \notin present /\ keyFile[Legacy] = "absent"

\* Files that differ on both sides block. Records are named by their ids here:
\* two vaults are byte-identical when they hold the same ones.
Diverged(to) ==
  \/ Legacy \in present /\ to \in present /\ (to \in torn \/ vault[to] # vault[Legacy])
  \/ "absent" \notin {keyFile[Legacy], keyFile[to]} /\ keyFile[to] # keyFile[Legacy]

MayMove(to) == ~NothingToMove /\ ~Diverged(to)

\* The scope is chosen with the migration, from one reading of the mapping. A
\* server without a row falls back on its workspace, a command on the install.
RowScope(rows, wish, fallback) ==
  CASE wish \in Agents                             -> wish
    [] wish = Nobody /\ Cardinality(rows) = 1       -> CHOOSE a \in Agents : rows = {a}
    [] OTHER                                        -> fallback

ServerScope(rows, wish) == RowScope(rows, wish, Derived)
CommandScope(rows, wish) == RowScope(rows, wish, Legacy)

ScopeOf(kind, rows, wish) ==
  IF kind = "mcp_add" THEN ServerScope(rows, wish) ELSE CommandScope(rows, wish)

\* require_migrated_locked plans without a lock first. What cannot be planned,
\* or a mapping with several enabled agents and no choice, is an error.
Start(p) ==
  /\ At(p, "start")
  /\ Cardinality({q \in Procs : pc[q] \notin {"start", "ended"}}) < MaxAtOnce
  /\ \E kind \in Kinds, wish \in Pins, target \in Agents, name \in Names, update \in BOOLEAN :
       LET scope == ScopeOf(kind, enabled, wish)
       IN /\ wish \in Agents \/ Cardinality(enabled) <= 1
          /\ update => kind \in {"mcp_add", "cli_add"}
          /\ \/ /\ NothingToMove /\ kind # "migrate"
                /\ target = Derived
                /\ Goto(p, "lock")
             \/ /\ MayMove(target) /\ target \in Targets(kind, enabled)
                /\ Goto(p, "legacy_lock")
          /\ view' = [view EXCEPT ![p] = [@ EXCEPT !.kind = kind, !.wish = wish, !.scope = scope,
                                                   !.target = target, !.name = name,
                                                   !.update = update]]
  /\ UNCHANGED <<enabled, files, lock, past>>

\* A plan that is blocked ends the command before it has changed anything; so
\* does a mapping that cannot be read, and a second plan, made under the locks,
\* that finds files which differ.
Refused(p) ==
  /\ pc[p] \in {"start", "move_vault"}
  /\ At(p, "move_vault") => Diverged(view[p].target)
  /\ Fail(p)

Take(p, place) == lock[place] = Nobody /\ lock' = [lock EXCEPT ![place] = p]

\* The legacy lock comes first, always.
TakeLegacyLock(p) ==
  /\ At(p, "legacy_lock")
  /\ Take(p, Legacy)
  /\ Goto(p, "target_lock")
  /\ UNCHANGED <<enabled, files, view, past>>

TakeTargetLock(p) ==
  /\ At(p, "target_lock")
  /\ Take(p, view[p].target)
  /\ Goto(p, "move_vault")
  /\ UNCHANGED <<enabled, files, view, past>>

\* The plan is made again under the locks: another process may have moved the
\* files already. A rename, or a copy whose source is removed afterwards.
MoveVault(p) ==
  LET to == view[p].target
      copied == [vault EXCEPT ![to] = vault[Legacy]]
  IN /\ At(p, "move_vault")
     /\ MayMove(to)
     /\ IF Legacy \notin present
        THEN Goto(p, "move_key") /\ UNCHANGED <<vault, present>>
        ELSE IF CrossDevice \/ to \in present
        THEN Goto(p, "unlink_vault") /\ vault' = copied /\ present' = present \cup {to}
        ELSE /\ Goto(p, "move_key")
             /\ vault' = [copied EXCEPT ![Legacy] = {}]
             /\ present' = (present \cup {to}) \ {Legacy}
     /\ homes' = IF Legacy \in present THEN homes \cup {to} ELSE homes
     /\ UNCHANGED <<enabled, keyFile, pending, torn, lock, view,
                    remaps, added, gone, restores, retired>>

UnlinkVault(p) ==
  /\ At(p, "unlink_vault")
  /\ vault' = [vault EXCEPT ![Legacy] = {}] /\ present' = present \ {Legacy}
  /\ Goto(p, "move_key")
  /\ UNCHANGED <<enabled, keyFile, pending, torn, lock, view, past>>

\* Its locks are dropped before the command takes its own.
AfterMigration(p) ==
  IF view[p].kind = "migrate" THEN End(p)
  ELSE Goto(p, "lock") /\ Release(p) /\ UNCHANGED view

MoveKey(p) ==
  LET to == view[p].target
      copied == [keyFile EXCEPT ![to] = keyFile[Legacy]]
  IN /\ At(p, "move_key")
     /\ IF keyFile[Legacy] = "absent"
        THEN AfterMigration(p) /\ UNCHANGED keyFile
        ELSE IF CrossDevice \/ keyFile[to] # "absent"
        THEN Goto(p, "unlink_key") /\ keyFile' = copied /\ UNCHANGED <<lock, view>>
        ELSE AfterMigration(p) /\ keyFile' = [copied EXCEPT ![Legacy] = "absent"]
     /\ homes' = IF keyFile[Legacy] # "absent" THEN homes \cup {to} ELSE homes
     /\ UNCHANGED <<enabled, vault, present, pending, torn, remaps, added, gone, restores, retired>>

UnlinkKey(p) ==
  /\ At(p, "unlink_key")
  /\ keyFile' = [keyFile EXCEPT ![Legacy] = "absent"]
  /\ AfterMigration(p)
  /\ UNCHANGED <<enabled, vault, present, pending, torn, past>>

\* copy_private_verified truncates, writes and reads back. Killed in between,
\* the copy differs from the file it was made of, which is still there.
DieCopying(p) ==
  LET to == view[p].target
  IN /\ CrossDevice
     /\ \/ /\ At(p, "move_vault") /\ MayMove(to)
           /\ Legacy \in present /\ to \notin present
           /\ present' = present \cup {to} /\ torn' = torn \cup {to}
           /\ UNCHANGED keyFile
        \/ /\ At(p, "move_key")
           /\ keyFile[Legacy] # "absent" /\ keyFile[to] = "absent"
           /\ keyFile' = [keyFile EXCEPT ![to] = "broken"]
           /\ UNCHANGED <<present, torn>>
     /\ End(p)
     /\ UNCHANGED <<enabled, vault, pending, past>>

\* The files have gone, and the rest of the command goes on.
NothingLeftToMove(p) ==
  /\ At(p, "move_vault")
  /\ NothingToMove
  /\ AfterMigration(p)
  /\ UNCHANGED <<enabled, files, past>>

-----------------------------------------------------------------------------
(***************************************************************************)
(* Add and delete                                                          *)
(***************************************************************************)
FaultyTakeVaultLock(p) ==  \* the vault is read before its lock is waited for
  /\ At(p, "lock")
  /\ UNCHANGED lock
  /\ Goto(p, CASE view[p].kind = "mcp_add" -> "guard"
               [] view[p].kind = "cli_add" -> "key"
               [] view[p].kind \in {"delete", "rotate"} -> "read")
  /\ UNCHANGED <<enabled, files, view, past>>

TakeVaultLock(p) ==
  /\ At(p, "lock")
  /\ Take(p, view[p].scope)
  /\ Goto(p, CASE view[p].kind = "mcp_add" -> "guard"
               [] view[p].kind = "cli_add" -> "key"
               [] view[p].kind \in {"delete", "rotate"} -> "read")
  /\ UNCHANGED <<enabled, files, view, past>>

\* agent_busy
WaitEnds(p) ==
  /\ \/ At(p, "legacy_lock") /\ lock[Legacy] # Nobody
     \/ At(p, "target_lock") /\ lock[view[p].target] # Nobody
     \/ At(p, "lock") /\ lock[view[p].scope] # Nobody
  /\ Fail(p)

Like(p, record) == record.name = view[p].name

\* The duplicate guard lists the vault the way a command of its own would,
\* migration included, from a fresh reading of the mapping. It passes when that
\* fails: no vault yet, an ambiguous mapping, a legacy file that cannot be
\* moved because this process itself holds the lock of its target.
Guard(p) ==
  LET place == ScopeOf(view[p].kind, enabled, view[p].wish)
  IN /\ At(p, "guard")
     /\ \/ view[p].update
        \/ ~NothingToMove
        \/ Cardinality(enabled) > 1 /\ view[p].wish = Nobody
        \/ \A r \in vault[place] : ~Like(p, r)
     /\ Goto(p, "key")
     /\ UNCHANGED <<enabled, files, lock, view, past>>

Duplicate(p) ==
  /\ At(p, "guard")
  /\ ~view[p].update
  /\ \E r \in vault[ScopeOf(view[p].kind, enabled, view[p].wish)] : Like(p, r)
  /\ Fail(p)

\* resolve_or_generate_vault_key: the file is created exclusively. The vault is
\* read afterwards.
ResolveKey(p) ==
  LET at == view[p].scope
  IN /\ At(p, "key")
     /\ at \notin torn
     /\ \/ /\ keyFile[at] \in Makers
           /\ view' = [view EXCEPT ![p] = [@ EXCEPT !.key = keyFile[at], !.doc = vault[at]]]
           /\ UNCHANGED keyFile
        \/ /\ keyFile[at] = "absent" /\ view[p].kind = "mcp_add"
           /\ keyFile' = [keyFile EXCEPT ![at] = p]
           /\ view' = [view EXCEPT ![p] = [@ EXCEPT !.key = p, !.doc = vault[at]]]
     /\ Goto(p, "write")
     /\ UNCHANGED <<enabled, vault, present, pending, torn, lock, past>>

\* Killed between the creation of the key file and the writing of the key.
DieWritingKey(p) ==
  LET at == view[p].scope
  IN /\ \/ /\ At(p, "key") /\ keyFile[at] = "absent" /\ view[p].kind = "mcp_add"
           /\ keyFile' = [keyFile EXCEPT ![at] = "broken"]
           /\ UNCHANGED pending
        \/ /\ At(p, "stage")
           /\ pending' = [pending EXCEPT ![at] = "broken"]
           /\ UNCHANGED keyFile
     /\ End(p)
     /\ UNCHANGED <<enabled, vault, present, torn, past>>

NoKey(p) ==
  /\ At(p, "key")
  /\ \/ keyFile[view[p].scope] = "broken"
     \/ keyFile[view[p].scope] = "absent" /\ view[p].kind # "mcp_add"
  /\ Fail(p)

\* load_credentials_document: a delete needs no key, a rotation reads the vault
\* before it looks at what an interrupted one has left.
ReadVault(p) ==
  LET at == view[p].scope
  IN /\ At(p, "read")
     /\ at \notin torn /\ (view[p].kind = "rotate" => at \in present)
     /\ view' = [view EXCEPT ![p].doc = vault[at]]
     /\ Goto(p, IF view[p].kind = "rotate" THEN "check" ELSE "write")
     /\ UNCHANGED <<enabled, files, lock, past>>

\* No vault to rotate, or one that cannot be parsed: an add has made its key
\* by then.
Unreadable(p) ==
  LET at == view[p].scope
  IN /\ \/ /\ At(p, "read")
           /\ at \in torn \/ (view[p].kind = "rotate" /\ at \notin present)
           /\ UNCHANGED keyFile
        \/ /\ At(p, "key") /\ at \in torn
           /\ \/ keyFile[at] \in Makers /\ UNCHANGED keyFile
              \/ /\ keyFile[at] = "absent" /\ view[p].kind = "mcp_add"
                 /\ keyFile' = [keyFile EXCEPT ![at] = p]
     /\ End(p)
     /\ UNCHANGED <<enabled, vault, present, pending, torn, past>>

WriteVault(p, records) ==
  /\ vault' = [vault EXCEPT ![view[p].scope] = records]
  /\ present' = present \cup {view[p].scope}
  /\ End(p)
  /\ UNCHANGED <<enabled, keyFile, pending, torn, remaps, homes, restores, retired>>

\* add_prepared_core: an update goes by the label alone, and by the service only
\* where there is none. It replaces such a record; anything else is appended.
WriteAdd(p) ==
  LET new == [id |-> p, name |-> view[p].name, key |-> view[p].key]
      replaced == {r \in view[p].doc : view[p].update /\ LabelOf[r.name] = LabelOf[view[p].name]}
  IN /\ At(p, "write") /\ view[p].kind \in {"mcp_add", "cli_add"}
     /\ added' = added \cup {p}
     /\ \/ replaced = {} /\ gone' = gone /\ WriteVault(p, view[p].doc \cup {new})
        \/ \E old \in replaced :
             /\ gone' = gone \cup {old.id}
             /\ WriteVault(p, (view[p].doc \ {old}) \cup {new})

WriteDelete(p) ==
  /\ At(p, "write") /\ view[p].kind = "delete"
  /\ \E old \in view[p].doc :
       /\ gone' = gone \cup {old.id}
       /\ WriteVault(p, view[p].doc \ {old})
  /\ UNCHANGED added

NothingToDelete(p) ==
  /\ At(p, "write") /\ view[p].kind = "delete" /\ view[p].doc = {}
  /\ Fail(p)

-----------------------------------------------------------------------------
(***************************************************************************)
(* rotate-key                                                              *)
(***************************************************************************)
Opened(records, key) == {r \in records : r.key = key}

\* classify_pending_key, of a key an interrupted rotation has left behind.
PendingState(key, records) ==
  LET opened == Opened(records, key)
  IN CASE key = "broken" \/ (opened = {} /\ records # {}) -> "stale"
       [] key # "broken" /\ opened = records /\ records # {} -> "opens_all"
       [] OTHER -> "indeterminate"

\* What it leaves is completed or discarded; what cannot be told is an error.
Recover(p) ==
  LET at == view[p].scope
      state == PendingState(pending[at], view[p].doc)
  IN /\ At(p, "check") /\ pending[at] # "absent"
     /\ state # "indeterminate"
     /\ keyFile' = IF state = "opens_all" THEN [keyFile EXCEPT ![at] = pending[at]] ELSE keyFile
     /\ pending' = [pending EXCEPT ![at] = "absent"]
     /\ retired' = retired \cup {IF state = "opens_all" THEN keyFile[at] ELSE pending[at]}
     /\ UNCHANGED <<enabled, vault, present, torn, lock, procs,
                    remaps, homes, added, gone, restores>>

\* One record that does not open under the old key aborts it all.
Check(p) ==
  LET at == view[p].scope
  IN /\ At(p, "check") /\ pending[at] = "absent"
     /\ keyFile[at] \in Makers /\ Opened(view[p].doc, keyFile[at]) = view[p].doc
     /\ Goto(p, "stage")
     /\ UNCHANGED <<enabled, files, lock, view, past>>

RotateFails(p) ==
  LET at == view[p].scope
  IN /\ At(p, "check")
     /\ \/ pending[at] # "absent" /\ PendingState(pending[at], view[p].doc) = "indeterminate"
        \/ pending[at] = "absent" /\ keyFile[at] \notin Makers
        \/ pending[at] = "absent" /\ Opened(view[p].doc, keyFile[at]) # view[p].doc
     /\ Fail(p)

FaultyStageKey(p) ==  \* the new key takes the place of the old one at once
  /\ At(p, "stage")
  /\ keyFile' = [keyFile EXCEPT ![view[p].scope] = p]
  /\ Goto(p, "rewrite")
  /\ UNCHANGED <<enabled, vault, present, pending, torn, lock, view, past>>

StageKey(p) ==  \* (1)
  /\ At(p, "stage")
  /\ pending' = [pending EXCEPT ![view[p].scope] = p]
  /\ Goto(p, "rewrite")
  /\ UNCHANGED <<enabled, vault, present, keyFile, torn, lock, view, past>>

FaultyRewrite(p) ==  \* records are sealed again when they are next written
  /\ At(p, "rewrite")
  /\ Goto(p, "replace")
  /\ UNCHANGED <<enabled, files, lock, view, past>>

Rewrite(p) ==  \* (2)
  LET at == view[p].scope
      old == keyFile[at]
  IN /\ At(p, "rewrite")
     /\ vault' = [vault EXCEPT ![at] =
                    {IF r.key = old THEN [r EXCEPT !.key = p] ELSE r : r \in view[p].doc}]
     /\ Goto(p, "replace")
     /\ UNCHANGED <<enabled, present, keyFile, pending, torn, lock, view, past>>

ReplaceKey(p) ==  \* (3)
  LET at == view[p].scope
  IN /\ At(p, "replace")
     /\ keyFile' = [keyFile EXCEPT ![at] = pending[at]]
     /\ pending' = [pending EXCEPT ![at] = "absent"]
     /\ retired' = retired \cup {keyFile[at]}
     /\ End(p)
     /\ UNCHANGED <<enabled, vault, present, torn, remaps, homes, added, gone, restores>>

-----------------------------------------------------------------------------
(***************************************************************************)
(* Archives                                                                *)
(***************************************************************************)
\* load_agent_vault, of a sync or an export: it reads without the vault's lock,
\* and a vault that is missing, torn or empty is left out of the archive.
Export(a) ==
  /\ archived' = [archived EXCEPT ![a] = vault[a]]
  /\ UNCHANGED <<enabled, files, lock, procs,
                 remaps, homes, added, gone, returned, dropped, retired>>

\* restore_agent_vault: the vault is overwritten by the one of the archive, when
\* it has records, and no key is looked at. alf import does it with no lock, any
\* time after its migration has found nothing to move; a restore of the head
\* holds the agent's lock (restore.rs:919, 1005) and is a case of it.
Import(a) ==
  /\ NothingToMove
  /\ archived[a] # {}
  /\ vault' = [vault EXCEPT ![a] = archived[a]]
  /\ present' = present \cup {a} /\ torn' = torn \ {a}
  /\ returned' = [returned EXCEPT ![a] = @ \cup (archived[a] \ vault[a])]
  /\ dropped' = dropped \cup (Ids(vault[a]) \ Ids(archived[a]))
  /\ UNCHANGED <<enabled, keyFile, pending, lock, procs,
                 archived, remaps, homes, added, gone, retired>>

-----------------------------------------------------------------------------
\* Killed between two steps.
Die(p) ==
  /\ pc[p] \notin {"start", "ended"}
  /\ Fail(p)

\* alf check, alf agents enable and disable: rows are not removed, and a mapping
\* without an enabled row is left out (every command refuses it).
Remap ==
  /\ remaps < MaxRemaps
  /\ remaps' = remaps + 1
  /\ enabled' \in (SUBSET Agents) \ {{}, enabled}
  /\ UNCHANGED <<files, lock, procs, homes, added, gone, restores, retired>>

Migration(p) ==
  \/ Start(p) \/ Refused(p) \/ TakeLegacyLock(p) \/ TakeTargetLock(p)
  \/ MoveVault(p) \/ UnlinkVault(p) \/ MoveKey(p) \/ UnlinkKey(p)
  \/ NothingLeftToMove(p) \/ DieCopying(p)

Mutation(p) ==
  \/ TakeVaultLock(p) \/ WaitEnds(p) \/ Guard(p) \/ Duplicate(p) \/ ResolveKey(p) \/ NoKey(p)
  \/ ReadVault(p) \/ Unreadable(p) \/ WriteAdd(p) \/ WriteDelete(p) \/ NothingToDelete(p)

Rotation(p) ==
  Recover(p) \/ Check(p) \/ RotateFails(p) \/ StageKey(p) \/ Rewrite(p) \/ ReplaceKey(p)

Next ==
  \/ \E p \in Procs : Migration(p) \/ Mutation(p) \/ Rotation(p) \/ DieWritingKey(p) \/ Die(p)
  \/ \E a \in Agents : Export(a) \/ Import(a)
  \/ Remap

Spec == Init /\ [][Next]_vars

-----------------------------------------------------------------------------
(***************************************************************************)
(* Properties                                                              *)
(***************************************************************************)
KeysOnDisk == {keyFile[at] : at \in Places} \cup {pending[at] : at \in Places}

Opens(r) == r.key \in KeysOnDisk

\* A rotation has replaced the key of a record that an archive brought back:
\* "old snapshots remain decryptable only with the old key"
\* (docs/vault-key-management.md, Rotation and recovery).
Locked(at, r) == at \in Agents /\ r \in returned[at] /\ r.key \in retired

\* Whichever commands race, and wherever one of them is killed, every record
\* of every vault is sealed under a key that is still in some key file: the
\* three writes of a rotation, the two legs of a migration and the exclusive
\* creation of a key never leave one without. Nothing else may be locked than
\* what a restore or an import brought back from before a rotation. All
\* migrations of the install have the same target: a record and its key that
\* were moved to two different agents may be parted by the next rotation.
EveryRecordOpens ==
  Cardinality(homes) <= 1 => \A at \in Places : \A r \in vault[at] : Opens(r) \/ Locked(at, r)

\* A record whose add succeeded is in some vault until it is deleted, replaced,
\* or overwritten by an archive that does not have it: no update is lost between
\* two commands, to a migration, or between a command and an import that ran
\* beside it.
AddsSurvive ==
  \A id \in added \ (gone \cup dropped) : \E at \in Places : \E r \in vault[at] : r.id = id

\* A rotation that succeeds leaves one key: its records open with the key file
\* of the vault, and no other key waits. alf import takes no lock: what it
\* brings back beside the rotation is under the key it had.
RotationLeavesOneKey ==
  [][\A p \in Procs :
       pc[p] = "replace" /\ keyFile'[view[p].scope] # keyFile[view[p].scope] =>
         /\ pending'[view[p].scope] = "absent"
         /\ \A r \in vault'[view[p].scope] :
              r.key = keyFile'[view[p].scope] \/ r \in returned'[view[p].scope]]_vars

\* manual, alf_vault_add: without update:true an add whose service and label
\* match an existing record is rejected: a server about to write one finds none
\* like it, on an install whose mapping does not change. Only an import, which
\* takes no lock, may have brought one back since it looked.
NoSilentDuplicates ==
  remaps = 0 =>
    \A p \in Procs :
      At(p, "write") /\ view[p].kind = "mcp_add" /\ ~view[p].update =>
        \A r \in vault[view[p].scope] : Like(p, r) => r \in returned[view[p].scope]

=============================================================================
