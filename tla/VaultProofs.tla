---------------------------- MODULE VaultProofs ----------------------------
(***************************************************************************)
(* Theorems about Vault: any number of commands, agents and services, and  *)
(* a process killed between any two steps.                                 *)
(*                                                                         *)
(* ProcInv says what a process may rely on where it is: the locks it       *)
(* holds, and that the files those locks protect are as it read or wrote   *)
(* them. Frame says what a step of another process leaves alone, which is  *)
(* every file p has locked, so that each ProcInv survives the steps of the *)
(* others. An import respects no lock: what p has read is then the file    *)
(* but for what was brought back or written over, and that is recorded.    *)
(* FilesInv is about the files and the archives alone.                     *)
(***************************************************************************)
EXTENDS Vault, FiniteSetTheorems, TLAPS

Moved == {"move_vault", "unlink_vault", "move_key", "unlink_key"}
Moving == Moved \cup {"target_lock"}
Inside == {"guard", "key", "read", "write", "check", "stage", "rewrite", "replace"}
Command == Inside \cup {"lock"}

KeysAgree(to) ==
  keyFile[Legacy] = "absent" \/ keyFile[to] = "absent" \/ keyFile[to] = keyFile[Legacy]

Holding(p) ==
  /\ pc[p] \in Moving => lock[Legacy] = p
  /\ pc[p] \in Moved => lock[view[p].target] = p
  /\ pc[p] \in Inside => lock[view[p].scope] = p

\* A command goes on only after the migration.
AfterMove(p) ==
  /\ pc[p] \in Command => NothingToMove /\ view[p].kind # "migrate"
  /\ pc[p] = "read" => view[p].kind \in {"delete", "rotate"}
  /\ view[p].kind = "mcp_add" => view[p].scope \in Agents

\* Between the legs of a migration.
MoveInv(p) ==
  LET to == view[p].target
  IN /\ pc[p] = "unlink_vault" => vault[to] = vault[Legacy] /\ Legacy \in present
     /\ pc[p] \in {"unlink_vault", "move_key"} => KeysAgree(to)
     /\ pc[p] \in {"move_key", "unlink_key"} => Legacy \notin present
     /\ pc[p] = "unlink_key" => keyFile[to] = keyFile[Legacy] /\ to \in homes

\* A key file has the key k for records of this agent, or had it before its
\* migration, or will have it when a rotation is recovered.
HasKey(at, k) ==
  \/ k = keyFile[at] \/ k = pending[at]
  \/ at \in homes /\ k = keyFile[Legacy]

OneHome == \A a, b \in homes : a = b

\* The records of a vault are among those that are written over it, but for the
\* ones that were deleted or overwritten.
Kept(before, after) ==
  \A r \in before : r.id \in gone \cup dropped \/ \E s \in after : s.id = r.id

\* What a command has read is what the file holds, unless an import ran beside it.
ReadInv(p) ==
  LET scope == view[p].scope
      doc == view[p].doc
  IN /\ pc[p] \in {"write", "check", "stage", "rewrite"} =>
          /\ scope = Legacy => doc = {}
          /\ \A r \in vault[scope] : r \in doc \/ r \in returned[scope]
          /\ Kept(vault[scope], doc)
          /\ OneHome => \A r \in doc : \/ r.key = keyFile[scope] \/ r.key = pending[scope]
                                       \/ Locked(scope, r)
     /\ pc[p] = "write" /\ view[p].kind \in {"mcp_add", "cli_add"} =>
          keyFile[scope] \in Makers /\ view[p].key = keyFile[scope]

\* Between the three writes of a rotation.
RotateInv(p) ==
  LET scope == view[p].scope
  IN /\ pc[p] \in {"check", "stage", "rewrite", "replace"} => scope \in present
     /\ pc[p] = "stage" => pending[scope] = "absent"
     /\ pc[p] \in {"stage", "rewrite"} => \A r \in view[p].doc : r.key = keyFile[scope]
     /\ pc[p] \in {"rewrite", "replace"} => pending[scope] = p
     /\ pc[p] = "replace" => \A r \in vault[scope] : r.key = p \/ r \in returned[scope]

\* What the duplicate guard looked at is the vault that is written.
GuardInv(p) ==
  remaps = 0 =>
    /\ pc[p] \notin {"start", "ended"} =>
         /\ view[p].scope = ScopeOf(view[p].kind, enabled, view[p].wish)
         /\ view[p].wish \in Agents \/ Cardinality(enabled) <= 1
    /\ pc[p] \in {"key", "write"} /\ view[p].kind = "mcp_add" /\ ~view[p].update =>
         \A r \in vault[view[p].scope] : Like(p, r) => r \in returned[view[p].scope]

ProcInv(p) ==
  Holding(p) /\ AfterMove(p) /\ MoveInv(p) /\ ReadInv(p) /\ RotateInv(p) /\ GuardInv(p)

\* The install-scoped files are the old ones until they are moved.
LegacyInv ==
  /\ keyFile[Legacy] \in {"first", "absent"}
  /\ \A r \in vault[Legacy] : r.key = "first" /\ keyFile[Legacy] = "first"

\* Each record opens with a key of its own agent, or with the one that its
\* migration has not moved yet, or was brought back from before a rotation. In an
\* archive, it opens or a rotation has been since.
VaultKeys ==
  OneHome => \A at \in Agents : \A r \in vault[at] : HasKey(at, r.key) \/ Locked(at, r)

ArchiveKeys ==
  OneHome => \A at \in Agents : \A r \in archived[at] : HasKey(at, r.key) \/ r.key \in retired

KeysInv == VaultKeys /\ ArchiveKeys

\* What an archive has, its vault has, unless it was deleted or overwritten since.
ArchiveInv == \A a \in Agents : Kept(archived[a], vault[a])

VaultInv ==
  /\ VaultTypeOK
  /\ \A p \in Procs : ProcInv(p)
  /\ LegacyInv /\ KeysInv /\ ArchiveInv /\ AddsSurvive

-----------------------------------------------------------------------------
(***************************************************************************)
(* Types                                                                   *)
(***************************************************************************)
LEMMA ViewFacts ==
  ASSUME VaultTypeOK, NEW p \in Procs
  PROVE  /\ view[p] \in Views
         /\ view[p].scope \in Places /\ view[p].target \in Agents
         /\ view[p].target \in Places /\ view[p].target # Legacy /\ Legacy \in Places
         /\ view[p].doc \in SUBSET Records /\ view[p].key \in Makers
         /\ view[p].kind \in Kinds /\ view[p].name \in Names
         /\ view[p].wish \in Agents \cup {Nobody} /\ view[p].update \in BOOLEAN
         /\ p \in Makers /\ p \in KeyFiles
<1>1. view[p] \in Views
  BY DEF VaultTypeOK
<1> QED
  BY <1>1, VaultAssumption DEF Views, Places, Makers, KeyFiles

LEMMA NewViewType == NewView \in Views
BY VaultAssumption DEF NewView, Views, Kinds, Places, Makers

\* Keys and the marks of a missing or a torn key file are different things.
LEMMA KeyNames ==
  /\ "absent" \notin Makers /\ "broken" \notin Makers /\ "absent" # "broken"
  /\ "absent" \in KeyFiles /\ "broken" \in KeyFiles /\ "first" \in Makers
  /\ Makers \subseteq KeyFiles /\ KeyFiles = Makers \cup {"absent", "broken"}
  /\ "first" # "absent" /\ Nobody \notin Procs /\ Nobody \notin Agents /\ Legacy \notin Agents
BY VaultAssumption DEF Makers, KeyFiles

LEMMA ScopeFacts ==
  ASSUME NEW rows \in SUBSET Agents, NEW wish \in Agents \cup {Nobody}, NEW kind
  PROVE  /\ ScopeOf(kind, rows, wish) \in Places
         /\ kind = "mcp_add" => ScopeOf(kind, rows, wish) \in Agents
<1>1. Cardinality(rows) = 1 => \E a \in Agents : rows = {a}
  <2>1. IsFiniteSet(rows)
    BY VaultAssumption, FS_Subset
  <2> QED
    BY <2>1, FS_Singleton
<1> DEFINE only == CHOOSE a \in Agents : rows = {a}
<1>2. Cardinality(rows) = 1 => only \in Agents
  BY <1>1
<1>3. Derived \in Agents
  BY VaultAssumption
<1> HIDE DEF only
<1>4. Nobody \notin Agents
  BY VaultAssumption
<1>5. \A fallback : /\ wish \in Agents => RowScope(rows, wish, fallback) = wish
                    /\ wish \notin Agents /\ Cardinality(rows) = 1 =>
                         RowScope(rows, wish, fallback) = only
                    /\ wish \notin Agents /\ Cardinality(rows) # 1 =>
                         RowScope(rows, wish, fallback) = fallback
  BY <1>4 DEF RowScope, only
<1> QED
  BY <1>2, <1>3, <1>5 DEF ScopeOf, ServerScope, CommandScope, Places

\* A process that ends lets go of its own locks only.
LEMMA EndFacts ==
  ASSUME VaultTypeOK, NEW p \in Procs, End(p)
  PROVE  /\ pc' \in [Procs -> Steps] /\ view' \in [Procs -> Views]
         /\ lock' \in [Places -> Procs \cup {Nobody}]
         /\ pc'[p] = "ended" /\ view'[p] = NewView
         /\ \A q \in Procs \ {p} : pc'[q] = pc[q] /\ view'[q] = view[q]
         /\ \A q \in Procs \ {p}, at \in Places : lock[at] = q => lock'[at] = q
<1>1. pc' = [pc EXCEPT ![p] = "ended"] /\ view' = [view EXCEPT ![p] = NewView]
  BY DEF End, Goto
<1>2. lock' = [at \in Places |-> IF lock[at] = p THEN Nobody ELSE lock[at]]
  BY DEF End, Release
<1>3. "ended" \in Steps
  BY DEF Steps
<1> QED
  BY <1>1, <1>2, <1>3, NewViewType DEF VaultTypeOK

LEMMA GotoFacts ==
  ASSUME VaultTypeOK, NEW p \in Procs, NEW step \in Steps, Goto(p, step)
  PROVE  /\ pc' \in [Procs -> Steps] /\ pc'[p] = step
         /\ \A q \in Procs \ {p} : pc'[q] = pc[q]
BY DEF VaultTypeOK, Goto

LEMMA ReleaseFacts ==
  ASSUME VaultTypeOK, NEW p \in Procs, Release(p)
  PROVE  /\ lock' \in [Places -> Procs \cup {Nobody}]
         /\ \A q \in Procs \ {p}, at \in Places : lock[at] = q => lock'[at] = q
BY DEF VaultTypeOK, Release

LEMMA TakeFacts ==
  ASSUME VaultTypeOK, NEW p \in Procs, NEW place \in Places, Take(p, place)
  PROVE  /\ lock' \in [Places -> Procs \cup {Nobody}] /\ lock'[place] = p
         /\ \A q \in Procs, at \in Places : lock[at] = q => lock'[at] = q
BY KeyNames DEF VaultTypeOK, Take

\* A migration ends the command that was only a migration.
LEMMA AfterMigrationFacts ==
  ASSUME VaultTypeOK, NEW p \in Procs, AfterMigration(p)
  PROVE  /\ pc' \in [Procs -> Steps] /\ view' \in [Procs -> Views]
         /\ lock' \in [Places -> Procs \cup {Nobody}]
         /\ \/ pc'[p] = "ended" /\ view'[p] = NewView
            \/ pc'[p] = "lock" /\ view'[p] = view[p]
         /\ \A q \in Procs \ {p} : pc'[q] = pc[q] /\ view'[q] = view[q]
         /\ \A q \in Procs \ {p}, at \in Places : lock[at] = q => lock'[at] = q
<1>1. CASE view[p].kind = "migrate"
  BY <1>1, EndFacts DEF AfterMigration
<1>2. CASE view[p].kind # "migrate"
  <2>1. Goto(p, "lock") /\ Release(p) /\ view' = view /\ "lock" \in Steps
    BY <1>2 DEF AfterMigration, Steps
  <2> QED
    BY <2>1, GotoFacts, ReleaseFacts DEF VaultTypeOK
<1> QED
  BY <1>1, <1>2

-----------------------------------------------------------------------------
(***************************************************************************)
(* What the steps of a process leave alone                                 *)
(***************************************************************************)
Frame(p) ==
  /\ enabled' = enabled /\ remaps' = remaps /\ homes \subseteq homes'
  /\ UNCHANGED restores /\ gone \subseteq gone' /\ retired \subseteq retired'
  /\ \A q \in Procs \ {p} : pc'[q] = pc[q] /\ view'[q] = view[q]
  /\ \A q \in Procs \ {p}, at \in Places : lock[at] = q => lock'[at] = q
  /\ \A at \in Places : lock[at] # p =>
       /\ vault'[at] = vault[at] /\ keyFile'[at] = keyFile[at] /\ pending'[at] = pending[at]
       /\ at \in present' <=> at \in present
  /\ NothingToMove => NothingToMove'

\* What a process relies on is locked, or never comes back.
LEMMA OthersKeep ==
  ASSUME VaultTypeOK, NEW p \in Procs, NEW q \in Procs \ {p}, Frame(p), ProcInv(q)
  PROVE  ProcInv(q)'
<1> DEFINE scope == view[q].scope
           to == view[q].target
<1>1. /\ pc'[q] = pc[q] /\ view'[q] = view[q] /\ scope \in Places /\ to \in Places
      /\ Legacy \in Places
  BY ViewFacts DEF Frame
<1>2. \A at \in Places : lock[at] = q =>
        /\ lock'[at] = q
        /\ vault'[at] = vault[at] /\ keyFile'[at] = keyFile[at] /\ pending'[at] = pending[at]
        /\ at \in present' <=> at \in present
  BY DEF Frame
<1>3. Holding(q)'
  BY <1>1, <1>2 DEF ProcInv, Holding
<1>4. AfterMove(q)'
  BY <1>1 DEF ProcInv, AfterMove, Frame
<1>5. MoveInv(q)'
  <2>1. pc[q] \in Moved => lock[to] = q /\ lock[Legacy] = q
    BY DEF ProcInv, Holding, Moving
  <2>2. homes \subseteq homes'
    BY DEF Frame
  <2>3. pc[q] \in Moved /\ KeysAgree(to) => KeysAgree(to)'
    BY <1>1, <1>2, <2>1 DEF KeysAgree
  <2> QED
    BY <1>1, <1>2, <2>1, <2>2, <2>3 DEF ProcInv, MoveInv, Moved, KeysAgree
<1>6. ReadInv(q)'
  <2>1. /\ gone \cup dropped \subseteq gone' \cup dropped' /\ returned' = returned
        /\ retired \subseteq retired' /\ (OneHome' => OneHome)
    BY DEF Frame, OneHome, restores
  <2>2. pc[q] \in {"write", "check", "stage", "rewrite"} => lock[scope] = q
    BY DEF ProcInv, Holding, Inside
  <2>3. ReadInv(q)
    BY DEF ProcInv
  <2> QED
    BY <1>1, <1>2, <2>1, <2>2, <2>3 DEF ReadInv, Kept, Locked
<1>7. RotateInv(q)'
  BY <1>1, <1>2 DEF ProcInv, RotateInv, Holding, Inside, Frame, restores
<1>8. GuardInv(q)'
  BY <1>1, <1>2 DEF ProcInv, GuardInv, Holding, Inside, Like, Frame, restores
<1> QED
  BY <1>3, <1>4, <1>5, <1>6, <1>7, <1>8 DEF ProcInv

\* A process that has ended relies on nothing.
LEMMA EndedInv ==
  ASSUME NEW p \in Procs, pc'[p] \in {"ended", "legacy_lock"},
         view'[p].kind = "mcp_add" => view'[p].scope \in Agents,
         remaps' = 0 /\ pc'[p] # "ended" =>
           /\ view'[p].scope = ScopeOf(view'[p].kind, enabled', view'[p].wish)
           /\ view'[p].wish \in Agents \/ Cardinality(enabled') <= 1
  PROVE  ProcInv(p)'
BY DEF ProcInv, Holding, AfterMove, MoveInv, ReadInv, RotateInv, GuardInv, Moved, Moving,
       Inside, Command

\* Nothing but the step of one process, and the locks it lets go or takes.
LEMMA QuietFrame ==
  ASSUME VaultTypeOK, NEW p \in Procs, UNCHANGED <<enabled, files, past>>,
         \A q \in Procs \ {p} : pc'[q] = pc[q] /\ view'[q] = view[q],
         \A q \in Procs \ {p}, at \in Places : lock[at] = q => lock'[at] = q
  PROVE  Frame(p)
BY DEF Frame, files, past, restores, NothingToMove

FilesInv == LegacyInv /\ KeysInv /\ ArchiveInv /\ AddsSurvive

LEMMA QuietFiles ==
  ASSUME FilesInv, UNCHANGED <<files, past>>
  PROVE  FilesInv'
BY DEF FilesInv, LegacyInv, KeysInv, VaultKeys, ArchiveKeys, HasKey, Locked, ArchiveInv, Kept,
       AddsSurvive, OneHome, files, past, restores

\* A key that a rotation takes away is retired: it is the only way to lose one.
KeysStay ==
  \A at \in Agents, k \in Makers : OneHome' /\ HasKey(at, k) => HasKey(at, k)' \/ k \in retired'

LEMMA ArchivesOpen ==
  ASSUME VaultTypeOK, ArchiveKeys, KeysStay, homes \subseteq homes', archived' = archived,
         retired \subseteq retired'
  PROVE  ArchiveKeys'
<1> SUFFICES ASSUME OneHome', NEW at \in Agents, NEW r \in archived[at]
             PROVE  HasKey(at, r.key)' \/ r.key \in retired'
  BY DEF ArchiveKeys, HasKey
<1>1. OneHome /\ r.key \in Makers
  BY DEF OneHome, VaultTypeOK, Records
<1> QED
  BY <1>1 DEF ArchiveKeys, KeysStay

LEMMA ArchivesKept ==
  ASSUME ArchiveInv, archived' = archived, gone \cup dropped \subseteq gone' \cup dropped',
         \A a \in Agents : \A r \in vault[a] :
           r.id \in gone' \cup dropped' \/ \E s \in vault'[a] : s.id = r.id
  PROVE  ArchiveInv'
<1> SUFFICES ASSUME NEW a \in Agents, NEW r \in archived[a], r.id \notin gone' \cup dropped'
             PROVE  \E s \in vault'[a] : s.id = r.id
  BY DEF ArchiveInv, Kept
<1>1. PICK s \in vault[a] : s.id = r.id
  BY DEF ArchiveInv, Kept
<1> QED
  BY <1>1

\* The records of a vault open as they did, when their keys are where they were.
LEMMA KeysKept ==
  ASSUME VaultTypeOK, KeysInv, UNCHANGED <<vault, archived, returned, retired>>,
         homes \subseteq homes',
         \A at \in Agents, k \in Makers : OneHome' /\ HasKey(at, k) => HasKey(at, k)'
  PROVE  KeysInv'
<1>1. OneHome' => OneHome
  BY DEF OneHome
<1>2. ArchiveKeys'
  BY ArchivesOpen DEF KeysInv, KeysStay
<1>3. VaultKeys'
  <2> SUFFICES ASSUME OneHome', NEW at \in Agents, NEW r \in vault[at]
               PROVE  HasKey(at, r.key)' \/ Locked(at, r)'
    BY DEF VaultKeys, HasKey, Locked
  <2>1. r.key \in Makers
    BY DEF VaultTypeOK, Records, Places
  <2>2. HasKey(at, r.key) \/ Locked(at, r)
    BY <1>1 DEF KeysInv, VaultKeys
  <2> QED
    BY <2>1, <2>2 DEF Locked
<1> QED
  BY <1>2, <1>3 DEF KeysInv

LEMMA QuietTypes ==
  ASSUME VaultTypeOK, UNCHANGED <<enabled, files, past>>,
         pc' \in [Procs -> Steps], view' \in [Procs -> Views],
         lock' \in [Places -> Procs \cup {Nobody}]
  PROVE  VaultTypeOK'
BY DEF VaultTypeOK, files, past, restores

\* What a step of p owes.
Good(p) == VaultTypeOK' /\ Frame(p) /\ ProcInv(p)' /\ FilesInv'

\* A command that ends without having written anything.
LEMMA FailGood ==
  ASSUME VaultInv, NEW p \in Procs, Fail(p)
  PROVE  Good(p)
<1>1. VaultTypeOK /\ FilesInv /\ End(p) /\ UNCHANGED <<enabled, files, past>>
  BY DEF VaultInv, FilesInv, Fail
<1>2. VaultTypeOK' /\ Frame(p)
  BY <1>1, EndFacts, QuietTypes, QuietFrame
<1>3. ProcInv(p)'
  <2>1. pc'[p] = "ended" /\ view'[p] = NewView
    BY <1>1, EndFacts
  <2>2. NewView.kind = "migrate"
    BY DEF NewView
  <2> QED
    BY <2>1, <2>2, EndedInv
<1>4. FilesInv'
  BY <1>1, QuietFiles DEF files, past, restores
<1> QED
  BY <1>2, <1>3, <1>4 DEF Good

-----------------------------------------------------------------------------
(***************************************************************************)
(* Commands on a vault                                                     *)
(***************************************************************************)
\* A command that holds its lock runs after the install-scoped files have gone.
LEMMA InsideFacts ==
  ASSUME VaultInv, NEW p \in Procs, pc[p] \in Inside
  PROVE  LET scope == view[p].scope
         IN /\ VaultTypeOK /\ ProcInv(p) /\ FilesInv
            /\ LegacyInv /\ KeysInv /\ ArchiveInv /\ AddsSurvive
            /\ scope \in Places /\ Legacy \in Places /\ lock[scope] = p
            /\ NothingToMove /\ keyFile[Legacy] = "absent" /\ Legacy \notin present
            /\ vault[Legacy] = {} /\ (scope # Legacy => scope \in Agents)
            /\ view[p].kind = "mcp_add" => scope # Legacy
<1>1. /\ VaultTypeOK /\ ProcInv(p) /\ FilesInv /\ LegacyInv /\ KeysInv /\ ArchiveInv /\ AddsSurvive
  BY DEF VaultInv, FilesInv
<1>2. NothingToMove /\ lock[view[p].scope] = p
  BY <1>1 DEF ProcInv, AfterMove, Holding, Command
<1>3. view[p].kind = "mcp_add" => view[p].scope # Legacy
  BY <1>1, KeyNames DEF ProcInv, AfterMove
<1> QED
  BY <1>1, <1>2, <1>3, ViewFacts DEF NothingToMove, VaultTypeOK, Places

\* The records a command finds open, or were brought back.
LEMMA VaultOpens ==
  ASSUME VaultInv, NEW p \in Procs, pc[p] \in Inside, OneHome, NEW r \in vault[view[p].scope]
  PROVE  LET scope == view[p].scope
         IN r.key = keyFile[scope] \/ r.key = pending[scope] \/ Locked(scope, r)
<1> DEFINE scope == view[p].scope
<1>1. /\ VaultTypeOK /\ KeysInv /\ scope \in Places /\ keyFile[Legacy] = "absent"
      /\ vault[Legacy] = {} /\ (scope # Legacy => scope \in Agents)
  BY InsideFacts
<1>2. scope \in Agents /\ r.key \in Makers
  BY <1>1 DEF VaultTypeOK, Records
<1> QED
  BY <1>1, <1>2, KeyNames DEF KeysInv, VaultKeys, HasKey

-----------------------------------------------------------------------------
(***************************************************************************)
(* Steps that write no file                                                *)
(***************************************************************************)
LEMMA QuietGood ==
  ASSUME VaultInv, NEW p \in Procs, UNCHANGED <<enabled, files, past>>,
         pc' \in [Procs -> Steps], view' \in [Procs -> Views],
         lock' \in [Places -> Procs \cup {Nobody}],
         \A q \in Procs \ {p} : pc'[q] = pc[q] /\ view'[q] = view[q],
         \A q \in Procs \ {p}, at \in Places : lock[at] = q => lock'[at] = q,
         ProcInv(p)'
  PROVE  Good(p)
<1>1. VaultTypeOK /\ FilesInv
  BY DEF VaultInv, FilesInv
<1>2. VaultTypeOK' /\ Frame(p)
  BY <1>1, QuietTypes, QuietFrame
<1>3. FilesInv'
  BY <1>1, QuietFiles DEF files, past, restores
<1> QED
  BY <1>2, <1>3 DEF Good

LEMMA StartGood ==
  ASSUME VaultInv, NEW p \in Procs, Start(p)
  PROVE  Good(p)
<1>1. VaultTypeOK /\ UNCHANGED <<enabled, files, lock, past>> /\ enabled \in SUBSET Agents
  BY DEF VaultInv, VaultTypeOK, Start
<1> DEFINE Chosen(kind, wish, target, name, update) ==
             LET scope == ScopeOf(kind, enabled, wish)
             IN /\ wish \in Agents \/ Cardinality(enabled) <= 1
                /\ update => kind \in {"mcp_add", "cli_add"}
                /\ \/ /\ NothingToMove /\ kind # "migrate"
                      /\ target = Derived
                      /\ Goto(p, "lock")
                   \/ /\ MayMove(target) /\ target \in Targets(kind, enabled)
                      /\ Goto(p, "legacy_lock")
                /\ view' = [view EXCEPT ![p] = [@ EXCEPT !.kind = kind, !.wish = wish,
                              !.scope = scope, !.target = target, !.name = name,
                              !.update = update]]
<1>2. PICK kind \in Kinds, wish \in Pins, target \in Agents, name \in Names,
           update \in BOOLEAN : Chosen(kind, wish, target, name, update)
  BY Zenon DEF Start
<1> DEFINE scope == ScopeOf(kind, enabled, wish)
           v == [view[p] EXCEPT !.kind = kind, !.wish = wish, !.scope = scope,
                                !.target = target, !.name = name, !.update = update]
<1>3. wish \in Agents \cup {Nobody} /\ scope \in Places /\ (kind = "mcp_add" => scope \in Agents)
  BY <1>1, VaultAssumption, ScopeFacts
<1>4. v \in Views /\ v.kind = kind /\ v.wish = wish /\ v.scope = scope
  BY <1>1, <1>3, ViewFacts DEF Views
<1>5. view' = [view EXCEPT ![p] = v]
  BY <1>2
<1> HIDE DEF v
<1>6. /\ view' \in [Procs -> Views] /\ view'[p] = v
      /\ \A q \in Procs \ {p} : view'[q] = view[q]
  BY <1>1, <1>4, <1>5 DEF VaultTypeOK
<1>7. /\ pc' \in [Procs -> Steps] /\ pc'[p] \in {"lock", "legacy_lock"}
      /\ \A q \in Procs \ {p} : pc'[q] = pc[q]
      /\ pc'[p] = "lock" => NothingToMove /\ kind # "migrate"
  <2>1. "lock" \in Steps /\ "legacy_lock" \in Steps
    BY DEF Steps
  <2> QED
    BY <1>1, <1>2, <2>1, GotoFacts
<1>8. ProcInv(p)'
  <2>1. NothingToMove' = NothingToMove
    BY <1>1 DEF NothingToMove, files
  <2>2. Holding(p)' /\ MoveInv(p)' /\ ReadInv(p)' /\ RotateInv(p)'
    BY <1>7 DEF Holding, MoveInv, ReadInv, RotateInv, Moving, Moved, Inside
  <2>3. AfterMove(p)'
    BY <1>3, <1>4, <1>6, <1>7, <2>1 DEF AfterMove, Command, Inside
  <2>4. GuardInv(p)'
    BY <1>1, <1>2, <1>4, <1>6, <1>7 DEF GuardInv
  <2> QED
    BY <2>2, <2>3, <2>4 DEF ProcInv
<1> QED
  BY <1>1, <1>6, <1>7, <1>8, QuietGood DEF VaultTypeOK

LEMMA LockGood ==
  ASSUME VaultInv, NEW p \in Procs,
         TakeLegacyLock(p) \/ TakeTargetLock(p) \/ TakeVaultLock(p)
  PROVE  Good(p)
<1>1. /\ VaultTypeOK /\ ProcInv(p)
      /\ UNCHANGED <<enabled, files, view, past>>
  BY DEF VaultInv, TakeLegacyLock, TakeTargetLock, TakeVaultLock
<1>2. pc[p] = "lock" => view[p].kind \in {"mcp_add", "cli_add", "delete", "rotate"}
  BY <1>1, ViewFacts DEF ProcInv, AfterMove, Command, Kinds
<1>3. PICK step \in {"target_lock", "move_vault", "guard", "key", "read"},
           place \in Places :
        /\ Take(p, place) /\ Goto(p, step)
        /\ step = "target_lock" => pc[p] = "legacy_lock" /\ place = Legacy
        /\ step = "move_vault" => pc[p] = "target_lock" /\ place = view[p].target
        /\ step \in Inside => pc[p] = "lock" /\ place = view[p].scope
        /\ step = "key" => view[p].kind = "cli_add"
        /\ step = "read" => view[p].kind \in {"delete", "rotate"}
  <2>1. CASE TakeLegacyLock(p)
    BY <1>1, <2>1, ViewFacts DEF TakeLegacyLock, At, Inside
  <2>2. CASE TakeTargetLock(p)
    BY <1>1, <2>2, ViewFacts DEF TakeTargetLock, At, Inside
  <2>3. CASE TakeVaultLock(p)
    BY <1>1, <1>2, <2>3, ViewFacts DEF TakeVaultLock, At, Inside
  <2> QED
    BY <2>1, <2>2, <2>3
<1>4. /\ pc' \in [Procs -> Steps] /\ pc'[p] = step
      /\ \A q \in Procs \ {p} : pc'[q] = pc[q]
  <2>1. step \in Steps
    BY DEF Steps
  <2> QED
    BY <1>1, <1>3, <2>1, GotoFacts
<1>5. /\ lock' \in [Places -> Procs \cup {Nobody}] /\ lock'[place] = p
      /\ \A q \in Procs, at \in Places : lock[at] = q => lock'[at] = q
  BY <1>1, <1>3, TakeFacts
<1>6. ProcInv(p)'
  <2>1. view' = view /\ NothingToMove' = NothingToMove
    BY <1>1 DEF NothingToMove, files
  <2>2. Holding(p)'
    BY <1>1, <1>3, <1>4, <1>5, <2>1, ViewFacts DEF ProcInv, Holding, Moving, Moved, Inside
  <2>3. AfterMove(p)'
    BY <1>1, <1>3, <1>4, <2>1 DEF ProcInv, AfterMove, Command, Inside
  <2>4. MoveInv(p)' /\ ReadInv(p)' /\ RotateInv(p)'
    BY <1>4 DEF MoveInv, ReadInv, RotateInv
  <2>5. GuardInv(p)'
    BY <1>1, <1>3, <1>4, <2>1 DEF ProcInv, GuardInv, Inside, past, restores
  <2> QED
    BY <2>2, <2>3, <2>4, <2>5 DEF ProcInv
<1> QED
  BY <1>1, <1>4, <1>5, <1>6, QuietGood DEF VaultTypeOK

\* What follows a migration, when nothing is left of the install-scoped files.
LEMMA AfterMigrationInv ==
  ASSUME VaultTypeOK, NEW p \in Procs, ProcInv(p), pc[p] \in Moved, AfterMigration(p),
         NothingToMove', enabled' = enabled, remaps' = remaps
  PROVE  ProcInv(p)'
<1>1. CASE pc'[p] = "ended" /\ view'[p] = NewView
  <2>1. NewView.kind = "migrate"
    BY DEF NewView
  <2> QED
    BY <1>1, <2>1, EndedInv
<1>2. CASE pc'[p] = "lock" /\ view'[p] = view[p]
  <2>1. view[p].kind # "migrate"
    BY <1>2 DEF AfterMigration, End, Goto, VaultTypeOK
  <2>2. AfterMove(p)'
    BY <1>2, <2>1 DEF ProcInv, AfterMove
  <2>3. Holding(p)' /\ MoveInv(p)' /\ ReadInv(p)' /\ RotateInv(p)'
    BY <1>2 DEF Holding, MoveInv, ReadInv, RotateInv, Moving, Moved, Inside
  <2>4. GuardInv(p)'
    BY <1>2 DEF ProcInv, GuardInv, Moved
  <2> QED
    BY <2>2, <2>3, <2>4 DEF ProcInv
<1> QED
  BY <1>1, <1>2, AfterMigrationFacts

LEMMA NothingLeftGood ==
  ASSUME VaultInv, NEW p \in Procs, NothingLeftToMove(p)
  PROVE  Good(p)
<1>1. /\ VaultTypeOK /\ ProcInv(p) /\ pc[p] \in Moved /\ NothingToMove
      /\ AfterMigration(p) /\ UNCHANGED <<enabled, files, past>>
      /\ remaps' = remaps
  BY DEF VaultInv, NothingLeftToMove, At, past, restores, Moved
<1>2. NothingToMove'
  BY <1>1 DEF NothingToMove, files
<1> QED
  BY <1>1, <1>2, AfterMigrationInv, AfterMigrationFacts, QuietGood

\* With one agent to write to, what the guard lists is what is written.
LEMMA GuardGood ==
  ASSUME VaultInv, NEW p \in Procs, Guard(p)
  PROVE  Good(p)
<1>1. /\ VaultTypeOK /\ ProcInv(p) /\ pc[p] = "guard" /\ Goto(p, "key")
      /\ UNCHANGED <<enabled, files, lock, view, past>>
      /\ remaps' = remaps /\ vault' = vault
  BY DEF VaultInv, Guard, At, past, restores, files
<1>2. /\ pc' \in [Procs -> Steps] /\ pc'[p] = "key"
      /\ \A q \in Procs \ {p} : pc'[q] = pc[q]
  <2>1. "key" \in Steps
    BY DEF Steps
  <2> QED
    BY <1>1, <2>1, GotoFacts
<1>3. NothingToMove /\ NothingToMove'
  BY <1>1 DEF ProcInv, AfterMove, Command, Inside, NothingToMove, files
<1>4. remaps = 0 /\ ~view[p].update => \A r \in vault[view[p].scope] : ~Like(p, r)
  <2> SUFFICES ASSUME remaps = 0, ~view[p].update
               PROVE  \A r \in vault[view[p].scope] : ~Like(p, r)
    OBVIOUS
  <2>1. /\ view[p].scope = ScopeOf(view[p].kind, enabled, view[p].wish)
        /\ view[p].wish \in Agents \/ Cardinality(enabled) <= 1
    BY <1>1 DEF ProcInv, GuardInv
  <2>2. ~(Cardinality(enabled) > 1 /\ view[p].wish = Nobody)
    <3>1. Cardinality(enabled) \in Nat
      BY <1>1, VaultAssumption, FS_Subset, FS_CardinalityType DEF VaultTypeOK
    <3>2. CASE Cardinality(enabled) <= 1
      BY <3>1, <3>2
    <3>3. CASE view[p].wish \in Agents
      BY <3>3, KeyNames
    <3> QED
      BY <2>1, <3>2, <3>3
  <2> QED
    BY <1>3, <2>1, <2>2 DEF Guard
<1>5. ProcInv(p)'
  <2>1. Holding(p)'
    BY <1>1, <1>2 DEF ProcInv, Holding, Moving, Moved, Inside
  <2>2. AfterMove(p)'
    BY <1>1, <1>2, <1>3 DEF ProcInv, AfterMove, Command, Inside
  <2>3. MoveInv(p)' /\ ReadInv(p)' /\ RotateInv(p)'
    BY <1>2 DEF MoveInv, ReadInv, RotateInv
  <2>4. GuardInv(p)'
    BY <1>1, <1>2, <1>4 DEF ProcInv, GuardInv, Like
  <2> QED
    BY <2>1, <2>2, <2>3, <2>4 DEF ProcInv
<1> QED
  BY <1>1, <1>2, <1>5, QuietGood DEF VaultTypeOK

\* The vault is read under its lock, by a delete and by a rotation.
LEMMA ReadGood ==
  ASSUME VaultInv, NEW p \in Procs, ReadVault(p)
  PROVE  Good(p)
<1> DEFINE scope == view[p].scope
           v == [view[p] EXCEPT !.doc = vault[scope]]
<1>1. /\ VaultTypeOK /\ ProcInv(p) /\ pc[p] = "read" /\ pc[p] \in Inside
      /\ UNCHANGED <<enabled, files, lock, past>> /\ UNCHANGED <<homes, returned, retired>>
      /\ gone' = gone /\ dropped' = dropped
      /\ remaps' = remaps /\ vault' = vault /\ keyFile' = keyFile /\ pending' = pending
      /\ present' = present
  BY DEF VaultInv, ReadVault, At, Inside, past, restores, files
<1>2. view' = [view EXCEPT ![p] = v]
  BY DEF ReadVault
<1>3. v \in Views /\ v.doc = vault[scope] /\ v.kind = view[p].kind /\ v.wish = view[p].wish
      /\ v.scope = scope /\ v.target = view[p].target
  <2>1. vault[scope] \in SUBSET Records
    BY <1>1, ViewFacts DEF VaultTypeOK
  <2> QED
    BY <1>1, <2>1, ViewFacts DEF Views
<1> HIDE DEF v
<1>4. /\ view' \in [Procs -> Views] /\ view'[p] = v
      /\ \A q \in Procs \ {p} : view'[q] = view[q]
  BY <1>1, <1>2, <1>3 DEF VaultTypeOK
<1>5. /\ pc' \in [Procs -> Steps]
      /\ \/ pc'[p] = "write" /\ view[p].kind # "rotate"
         \/ pc'[p] = "check" /\ scope \in present
      /\ \A q \in Procs \ {p} : pc'[q] = pc[q]
  <2>1. "write" \in Steps /\ "check" \in Steps
    BY DEF Steps
  <2>2. CASE view[p].kind = "rotate"
    BY <1>1, <2>1, <2>2, GotoFacts DEF ReadVault
  <2>3. CASE view[p].kind # "rotate"
    BY <1>1, <2>1, <2>3, GotoFacts DEF ReadVault
  <2> QED
    BY <2>2, <2>3
<1>6. NothingToMove /\ NothingToMove'
  BY <1>1 DEF ProcInv, AfterMove, Command, Inside, NothingToMove, files
<1>7. view[p].kind \in {"delete", "rotate"}
  BY <1>1 DEF ProcInv, AfterMove
<1>8. ReadInv(p)'
  <2>1. OneHome' => \A r \in vault[scope] : \/ r.key = keyFile[scope] \/ r.key = pending[scope]
                                            \/ Locked(scope, r)
    BY <1>1, VaultOpens DEF OneHome
  <2> QED
    BY <1>1, <1>3, <1>4, <1>5, <1>7, <2>1, InsideFacts DEF ReadInv, Kept, Locked
<1>9. ProcInv(p)'
  <2>1. Holding(p)'
    BY <1>1, <1>3, <1>4, <1>5 DEF ProcInv, Holding, Moving, Moved, Inside
  <2>2. AfterMove(p)'
    BY <1>1, <1>3, <1>4, <1>5, <1>6 DEF ProcInv, AfterMove, Command, Inside
  <2>3. MoveInv(p)'
    BY <1>5 DEF MoveInv
  <2>4. RotateInv(p)'
    BY <1>1, <1>3, <1>4, <1>5 DEF RotateInv
  <2>5. GuardInv(p)'
    BY <1>1, <1>3, <1>4, <1>5, <1>7 DEF ProcInv, GuardInv
  <2> QED
    BY <1>8, <2>1, <2>2, <2>3, <2>4, <2>5 DEF ProcInv
<1> QED
  BY <1>1, <1>4, <1>5, <1>9, QuietGood DEF VaultTypeOK

\* A rotation goes on when the present key opens every record it has read.
LEMMA CheckGood ==
  ASSUME VaultInv, NEW p \in Procs, Check(p)
  PROVE  Good(p)
<1> DEFINE scope == view[p].scope
<1>1. /\ VaultTypeOK /\ ProcInv(p) /\ pc[p] = "check" /\ Goto(p, "stage")
      /\ UNCHANGED <<enabled, files, lock, view, past>> /\ UNCHANGED <<homes, returned, retired>>
      /\ gone' = gone /\ dropped' = dropped
      /\ remaps' = remaps /\ vault' = vault /\ keyFile' = keyFile /\ pending' = pending
      /\ present' = present /\ view' = view
  BY DEF VaultInv, Check, At, past, restores, files
<1>2. /\ pc' \in [Procs -> Steps] /\ pc'[p] = "stage"
      /\ \A q \in Procs \ {p} : pc'[q] = pc[q]
  <2>1. "stage" \in Steps
    BY DEF Steps
  <2> QED
    BY <1>1, <2>1, GotoFacts
<1>3. NothingToMove /\ NothingToMove'
  BY <1>1 DEF ProcInv, AfterMove, Command, Inside, NothingToMove, files
<1>4. pending[scope] = "absent" /\ \A r \in view[p].doc : r.key = keyFile[scope]
  BY DEF Check, Opened
<1>5. ProcInv(p)'
  <2>1. Holding(p)'
    BY <1>1, <1>2 DEF ProcInv, Holding, Moving, Moved, Inside
  <2>2. AfterMove(p)'
    BY <1>1, <1>2, <1>3 DEF ProcInv, AfterMove, Command, Inside
  <2>3. MoveInv(p)'
    BY <1>2 DEF MoveInv
  <2>4. ReadInv(p)'
    BY <1>1, <1>2 DEF ProcInv, ReadInv, Kept, Locked, OneHome
  <2>5. RotateInv(p)'
    BY <1>1, <1>2, <1>4 DEF ProcInv, RotateInv
  <2>6. GuardInv(p)'
    BY <1>1, <1>2 DEF ProcInv, GuardInv
  <2> QED
    BY <2>1, <2>2, <2>3, <2>4, <2>5, <2>6 DEF ProcInv
<1> QED
  BY <1>1, <1>2, <1>5, QuietGood DEF VaultTypeOK

-----------------------------------------------------------------------------
(***************************************************************************)
(* The legs of a migration                                                 *)
(***************************************************************************)
\* A record that goes from one vault to another is still somewhere.
LEMMA RecordsStay ==
  ASSUME AddsSurvive, added' = added, gone' = gone, dropped' = dropped,
         \A at \in Places : \A r \in vault[at] :
           \E to \in Places : \E s \in vault'[to] : s.id = r.id
  PROVE  AddsSurvive'
BY DEF AddsSurvive

LEMMA FewerHomes ==
  ASSUME homes \subseteq homes', OneHome'
  PROVE  OneHome
BY DEF OneHome

\* The locks of the install and of the target, and what they protect.
LEMMA MovingFacts ==
  ASSUME VaultInv, NEW p \in Procs, pc[p] \in Moved
  PROVE  LET to == view[p].target
         IN /\ VaultTypeOK /\ ProcInv(p) /\ LegacyInv /\ KeysInv /\ ArchiveInv /\ AddsSurvive
            /\ to \in Agents /\ to \in Places /\ to # Legacy /\ Legacy \in Places
            /\ lock[Legacy] = p /\ lock[to] = p
            /\ Legacy \notin present => vault[Legacy] = {}
BY ViewFacts DEF VaultInv, VaultTypeOK, ProcInv, Holding, Moving

LEMMA MoveVaultGood ==
  ASSUME VaultInv, NEW p \in Procs, MoveVault(p)
  PROVE  Good(p)
<1> DEFINE to == view[p].target
           before == vault[Legacy]
<1>1. /\ pc[p] = "move_vault" /\ MayMove(to)
      /\ UNCHANGED <<enabled, keyFile, pending, lock, view, remaps, added, gone,
                   torn, archived, returned, dropped, retired>>
  BY DEF MoveVault, At, restores
<1>2. /\ VaultTypeOK /\ ProcInv(p) /\ LegacyInv /\ KeysInv /\ ArchiveInv /\ AddsSurvive
      /\ to \in Agents /\ to \in Places /\ to # Legacy /\ Legacy \in Places
      /\ lock[Legacy] = p /\ lock[to] = p /\ (Legacy \notin present => before = {})
  BY <1>1, MovingFacts DEF Moved
<1>3. PICK step \in {"move_key", "unlink_vault"} :
        /\ Goto(p, step)
        /\ \/ /\ step = "move_key" /\ Legacy \notin present
              /\ UNCHANGED <<vault, present, homes>>
           \/ /\ step = "unlink_vault" /\ vault' = [vault EXCEPT ![to] = before]
              /\ present' = present \cup {to} /\ homes' = homes \cup {to}
           \/ /\ step = "move_key"
              /\ vault' = [[vault EXCEPT ![to] = before] EXCEPT ![Legacy] = {}]
              /\ present' = (present \cup {to}) \ {Legacy} /\ homes' = homes \cup {to}
        /\ step = "unlink_vault" \/ vault' # vault => Legacy \in present
  BY DEF MoveVault
<1>4. /\ pc' \in [Procs -> Steps] /\ pc'[p] = step
      /\ \A q \in Procs \ {p} : pc'[q] = pc[q]
  <2>1. step \in Steps
    BY DEF Steps
  <2> QED
    BY <1>2, <1>3, <2>1, GotoFacts
<1>5. /\ Legacy \in present => vault[to] = {} \/ vault[to] = before
      /\ KeysAgree(to) /\ ~NothingToMove
  <2>1. ~Diverged(to) /\ ~NothingToMove
    BY <1>1 DEF MayMove
  <2>2. KeysAgree(to)
    BY <2>1 DEF Diverged, KeysAgree
  <2>3. to \notin present => vault[to] = {}
    BY <1>2 DEF VaultTypeOK
  <2>4. Legacy \in present /\ to \in present => vault[to] = before
    BY <2>1 DEF Diverged
  <2> QED
    BY <1>2, <2>1, <2>2, <2>3, <2>4
<1>6. /\ vault' \in [Places -> SUBSET Records] /\ vault'[to] \in {vault[to], before}
      /\ \A at \in Places \ {Legacy, to} : vault'[at] = vault[at]
      /\ vault'[Legacy] \in {before, {}} /\ (vault'[Legacy] = before \/ vault'[to] = before)
      /\ vault'[to] = before \/ vault' = vault
  BY <1>2, <1>3 DEF VaultTypeOK
<1>7. VaultTypeOK'
  <2>1. present' \subseteq Places /\ homes' \subseteq Agents
    BY <1>2, <1>3 DEF VaultTypeOK
  <2>2. \A at \in Places : at \notin present' => vault'[at] = {}
    BY <1>2, <1>3 DEF VaultTypeOK
  <2> QED
    BY <1>1, <1>2, <1>4, <1>6, <2>1, <2>2 DEF VaultTypeOK
<1>8. Frame(p)
  <2>1. \A at \in Places : lock[at] # p =>
          vault'[at] = vault[at] /\ (at \in present' <=> at \in present)
    BY <1>2, <1>3, <1>6
  <2> QED
    BY <1>1, <1>3, <1>4, <1>5, <2>1 DEF Frame, restores
<1>9. ProcInv(p)'
  <2>1. Holding(p)' /\ AfterMove(p)' /\ ReadInv(p)' /\ RotateInv(p)'
    BY <1>1, <1>2, <1>4
       DEF ProcInv, Holding, AfterMove, ReadInv, RotateInv, Moving, Moved, Inside, Command
  <2>2. MoveInv(p)'
    <3>1. step = "unlink_vault" => vault'[to] = vault'[Legacy]
      BY <1>2, <1>3 DEF VaultTypeOK
    <3>2. step = "unlink_vault" => Legacy \in present'
      BY <1>3
    <3>3. step = "move_key" => Legacy \notin present'
      BY <1>3
    <3> QED
      BY <1>1, <1>4, <1>5, <3>1, <3>2, <3>3 DEF MoveInv, KeysAgree
  <2>3. GuardInv(p)'
    BY <1>1, <1>2, <1>4 DEF ProcInv, GuardInv
  <2> QED
    BY <2>1, <2>2, <2>3 DEF ProcInv
<1>10. LegacyInv'
  BY <1>1, <1>2, <1>6 DEF LegacyInv
<1>11. KeysInv'
  <2>1. homes \subseteq homes' /\ \A at \in Agents : at \in Places /\ at # Legacy
    BY <1>3, KeyNames DEF Places
  <2>2. ArchiveKeys'
    BY <1>1, <1>2, <2>1, ArchivesOpen DEF KeysInv, KeysStay, HasKey
  <2>3. VaultKeys'
    <3> SUFFICES ASSUME OneHome', NEW at \in Agents, NEW r \in vault'[at]
                 PROVE  HasKey(at, r.key)' \/ Locked(at, r)'
      BY DEF VaultKeys, HasKey, Locked
    <3>1. OneHome
      BY <2>1, FewerHomes
    <3>2. CASE r \in vault[at]
      BY <1>1, <1>2, <2>1, <3>1, <3>2 DEF KeysInv, VaultKeys, HasKey, Locked
    <3>3. CASE r \notin vault[at]
      <4>1. at = to /\ r \in before /\ homes' = homes \cup {to}
        BY <1>2, <1>3, <1>6, <2>1, <3>3
      <4> QED
        BY <1>1, <1>2, <4>1 DEF LegacyInv, HasKey
    <3> QED
      BY <3>2, <3>3
  <2> QED
    BY <2>2, <2>3 DEF KeysInv
<1>12. AddsSurvive'
  <2>1. \A at \in Places : \A r \in vault[at] :
          \E there \in Places : \E s \in vault'[there] : s.id = r.id
    BY <1>2, <1>3, <1>5, <1>6
  <2> QED
    BY <1>1, <1>2, <2>1, RecordsStay
<1>13. ArchiveInv'
  <2>1. vault'[to] = vault[to] \/ vault[to] = {}
    BY <1>3, <1>5, <1>6
  <2>2. \A a \in Agents : \A r \in vault[a] : r \in vault'[a]
    BY <1>2, <1>6, <2>1, KeyNames DEF Places
  <2> QED
    BY <1>1, <1>2, <2>2, ArchivesKept
<1> QED
  BY <1>7, <1>8, <1>9, <1>10, <1>11, <1>12, <1>13 DEF Good, FilesInv

LEMMA UnlinkVaultGood ==
  ASSUME VaultInv, NEW p \in Procs, UnlinkVault(p)
  PROVE  Good(p)
<1> DEFINE to == view[p].target
<1>1. /\ pc[p] = "unlink_vault" /\ Goto(p, "move_key")
      /\ vault' = [vault EXCEPT ![Legacy] = {}] /\ present' = present \ {Legacy}
      /\ UNCHANGED <<enabled, keyFile, pending, lock, view, remaps, homes, added, gone,
                   torn, archived, returned, dropped, retired>>
  BY DEF UnlinkVault, At, past, restores
<1>2. /\ VaultTypeOK /\ ProcInv(p) /\ LegacyInv /\ KeysInv /\ ArchiveInv /\ AddsSurvive
      /\ to \in Agents /\ to \in Places /\ to # Legacy /\ Legacy \in Places
      /\ lock[Legacy] = p
  BY <1>1, MovingFacts DEF Moved
<1>3. /\ pc' \in [Procs -> Steps] /\ pc'[p] = "move_key"
      /\ \A q \in Procs \ {p} : pc'[q] = pc[q]
  <2>1. "move_key" \in Steps
    BY DEF Steps
  <2> QED
    BY <1>1, <1>2, <2>1, GotoFacts
<1>4. vault[to] = vault[Legacy] /\ KeysAgree(to)
  BY <1>1, <1>2 DEF ProcInv, MoveInv
<1>5. /\ vault' \in [Places -> SUBSET Records] /\ vault'[Legacy] = {}
      /\ \A at \in Places \ {Legacy} : vault'[at] = vault[at]
  BY <1>1, <1>2 DEF VaultTypeOK
<1>6. VaultTypeOK'
  BY <1>1, <1>2, <1>3, <1>5 DEF VaultTypeOK
<1>7. Frame(p)
  BY <1>1, <1>2, <1>3, <1>5 DEF Frame, NothingToMove, restores
<1>8. ProcInv(p)'
  <2>1. Holding(p)' /\ AfterMove(p)' /\ ReadInv(p)' /\ RotateInv(p)'
    BY <1>1, <1>2, <1>3
       DEF ProcInv, Holding, AfterMove, ReadInv, RotateInv, Moving, Moved, Inside, Command
  <2>2. MoveInv(p)'
    BY <1>1, <1>3, <1>4 DEF MoveInv, KeysAgree
  <2>3. GuardInv(p)'
    BY <1>1, <1>2, <1>3 DEF ProcInv, GuardInv
  <2> QED
    BY <2>1, <2>2, <2>3 DEF ProcInv
<1>9. LegacyInv' /\ KeysInv'
  <2>1. \A at \in Agents : vault'[at] = vault[at]
    BY <1>5, KeyNames DEF Places
  <2>2. KeysInv'
    BY <1>1, <1>2, <2>1 DEF KeysInv, VaultKeys, ArchiveKeys, HasKey, Locked, OneHome
  <2>3. LegacyInv'
    BY <1>1, <1>2, <1>5 DEF LegacyInv
  <2> QED
    BY <2>2, <2>3
<1>10. AddsSurvive'
  <2>1. \A at \in Places : \A r \in vault[at] :
          \E there \in Places : \E s \in vault'[there] : s.id = r.id
    BY <1>2, <1>4, <1>5
  <2> QED
    BY <1>1, <1>2, <2>1, RecordsStay
<1>11. ArchiveInv'
  <2>1. \A a \in Agents : vault'[a] = vault[a]
    BY <1>5, KeyNames DEF Places
  <2> QED
    BY <1>1, <1>2, <2>1, ArchivesKept
<1> QED
  BY <1>6, <1>7, <1>8, <1>9, <1>10, <1>11 DEF Good, FilesInv

\* The key file of the install is copied, renamed or removed: the target has it
\* or will have it.
LEMMA KeyLegKeepsKeys ==
  ASSUME VaultInv, NEW p \in Procs, pc[p] \in {"move_key", "unlink_key"},
         KeysAgree(view[p].target), keyFile[Legacy] # "absent",
         keyFile'[view[p].target] = keyFile[Legacy],
         keyFile'[Legacy] \in {keyFile[Legacy], "absent"},
         \A at \in Places \ {view[p].target, Legacy} : keyFile'[at] = keyFile[at],
         homes' = homes \cup {view[p].target}, UNCHANGED <<vault, pending, added, gone>>,
         UNCHANGED <<archived, returned, dropped, retired>>
  PROVE  FilesInv'
<1> DEFINE to == view[p].target
<1>1. /\ VaultTypeOK /\ ProcInv(p) /\ LegacyInv /\ KeysInv /\ ArchiveInv /\ AddsSurvive
      /\ to \in Agents /\ to \in Places /\ to # Legacy /\ Legacy \in Places
      /\ Legacy \notin present => vault[Legacy] = {}
  BY MovingFacts DEF Moved
<1>2. vault[Legacy] = {}
  BY <1>1 DEF ProcInv, MoveInv
<1>3. KeysInv'
  <2>1. ASSUME OneHome', NEW at \in Agents, NEW k \in Makers, HasKey(at, k)
        PROVE  HasKey(at, k)'
    <3>1. OneHome /\ at \in Places /\ at # Legacy /\ to \in homes'
      BY <2>1, FewerHomes, KeyNames DEF Places
    <3>2. CASE at = to
      BY <2>1, <3>1, <3>2, KeyNames DEF KeysAgree, HasKey
    <3>3. CASE at # to
      <4>1. at \notin homes
        BY <2>1, <3>1, <3>3 DEF OneHome
      <4> QED
        BY <2>1, <3>1, <3>3, <4>1 DEF HasKey
    <3> QED
      BY <3>2, <3>3
  <2> QED
    BY <1>1, <2>1, KeysKept
<1>4. LegacyInv' /\ AddsSurvive' /\ ArchiveInv'
  BY <1>1, <1>2 DEF LegacyInv, AddsSurvive, ArchiveInv, Kept
<1> QED
  BY <1>3, <1>4 DEF FilesInv

LEMMA MoveKeyGood ==
  ASSUME VaultInv, NEW p \in Procs, MoveKey(p)
  PROVE  Good(p)
<1> DEFINE to == view[p].target
           copied == [keyFile EXCEPT ![to] = keyFile[Legacy]]
<1>1. /\ pc[p] = "move_key" /\ pc[p] \in Moved
      /\ UNCHANGED <<enabled, vault, present, pending, remaps, added, gone,
                   torn, archived, returned, dropped, retired>>
  BY DEF MoveKey, At, Moved, restores
<1>2. /\ VaultTypeOK /\ ProcInv(p) /\ FilesInv
      /\ to \in Agents /\ to \in Places /\ to # Legacy /\ Legacy \in Places
      /\ lock[Legacy] = p /\ lock[to] = p
  BY <1>1, MovingFacts DEF FilesInv
<1>3. KeysAgree(to) /\ Legacy \notin present
  BY <1>1, <1>2 DEF ProcInv, MoveInv
<1>4. CASE keyFile[Legacy] = "absent"
  <2>1. AfterMigration(p) /\ UNCHANGED <<files, past>>
    BY <1>1, <1>4 DEF MoveKey, files, past, restores
  <2>2. NothingToMove'
    BY <1>1, <1>3, <1>4, <2>1 DEF NothingToMove, files
  <2> QED
    BY <1>1, <1>2, <2>1, <2>2, AfterMigrationInv, AfterMigrationFacts, QuietGood
<1>5. CASE keyFile[Legacy] # "absent"
  <2>1. /\ homes' = homes \cup {to}
        /\ \/ Goto(p, "unlink_key") /\ keyFile' = copied /\ UNCHANGED <<lock, view>>
           \/ AfterMigration(p) /\ keyFile' = [copied EXCEPT ![Legacy] = "absent"]
    BY <1>5 DEF MoveKey
  <2>2. /\ keyFile' \in [Places -> KeyFiles] /\ keyFile'[to] = keyFile[Legacy]
        /\ keyFile'[Legacy] \in {keyFile[Legacy], "absent"}
        /\ \A at \in Places \ {to, Legacy} : keyFile'[at] = keyFile[at]
    BY <1>2, <2>1, KeyNames DEF VaultTypeOK
  <2>3. FilesInv'
    BY <1>1, <1>3, <1>5, <2>1, <2>2, KeyLegKeepsKeys
  <2>4. /\ pc' \in [Procs -> Steps] /\ view' \in [Procs -> Views]
        /\ lock' \in [Places -> Procs \cup {Nobody}]
        /\ \A q \in Procs \ {p} : pc'[q] = pc[q] /\ view'[q] = view[q]
        /\ \A q \in Procs \ {p}, at \in Places : lock[at] = q => lock'[at] = q
    <3>1. "unlink_key" \in Steps
      BY DEF Steps
    <3> QED
      BY <1>2, <2>1, <3>1, GotoFacts, AfterMigrationFacts DEF VaultTypeOK
  <2>5. VaultTypeOK'
    BY <1>1, <1>2, <2>1, <2>2, <2>4 DEF VaultTypeOK
  <2>6. Frame(p)
    BY <1>1, <1>2, <1>5, <2>1, <2>2, <2>4 DEF Frame, NothingToMove, restores
  <2>7. ProcInv(p)'
    <3>1. CASE /\ Goto(p, "unlink_key") /\ keyFile' = copied /\ UNCHANGED <<lock, view>>
      <4>1. pc'[p] = "unlink_key" /\ keyFile'[Legacy] = keyFile[Legacy]
        BY <1>2, <3>1 DEF Goto, VaultTypeOK
      <4>2. Holding(p)' /\ AfterMove(p)' /\ ReadInv(p)' /\ RotateInv(p)'
        BY <1>1, <1>2, <3>1, <4>1
           DEF ProcInv, Holding, AfterMove, ReadInv, RotateInv, Moving, Moved, Inside, Command
      <4>3. MoveInv(p)'
        BY <1>1, <1>3, <2>1, <2>2, <3>1, <4>1 DEF MoveInv
      <4>4. GuardInv(p)'
        BY <1>1, <1>2, <3>1, <4>1 DEF ProcInv, GuardInv
      <4> QED
        BY <4>2, <4>3, <4>4 DEF ProcInv
    <3>2. CASE AfterMigration(p) /\ keyFile' = [copied EXCEPT ![Legacy] = "absent"]
      <4>1. NothingToMove'
        BY <1>1, <1>2, <1>3, <3>2 DEF NothingToMove, VaultTypeOK
      <4> QED
        BY <1>1, <1>2, <3>2, <4>1, AfterMigrationInv
    <3> QED
      BY <2>1, <3>1, <3>2
  <2> QED
    BY <2>3, <2>5, <2>6, <2>7 DEF Good
<1> QED
  BY <1>4, <1>5

LEMMA UnlinkKeyGood ==
  ASSUME VaultInv, NEW p \in Procs, UnlinkKey(p)
  PROVE  Good(p)
<1> DEFINE to == view[p].target
<1>1. /\ pc[p] = "unlink_key" /\ pc[p] \in Moved /\ AfterMigration(p)
      /\ keyFile' = [keyFile EXCEPT ![Legacy] = "absent"]
      /\ UNCHANGED <<enabled, vault, present, pending, remaps, homes, added, gone,
                   torn, archived, returned, dropped, retired>>
  BY DEF UnlinkKey, At, Moved, past, restores
<1>2. /\ VaultTypeOK /\ ProcInv(p) /\ FilesInv
      /\ to \in Agents /\ to \in Places /\ to # Legacy /\ Legacy \in Places
      /\ lock[Legacy] = p /\ lock[to] = p
  BY <1>1, MovingFacts DEF FilesInv
<1>3. keyFile[to] = keyFile[Legacy] /\ to \in homes /\ Legacy \notin present
  BY <1>1, <1>2 DEF ProcInv, MoveInv
<1>4. /\ keyFile' \in [Places -> KeyFiles] /\ keyFile'[Legacy] = "absent"
      /\ \A at \in Places \ {Legacy} : keyFile'[at] = keyFile[at]
  BY <1>1, <1>2, KeyNames DEF VaultTypeOK
<1>5. VaultTypeOK'
  BY <1>1, <1>2, <1>4, AfterMigrationFacts DEF VaultTypeOK
<1>6. NothingToMove'
  BY <1>1, <1>3, <1>4 DEF NothingToMove
<1>7. Frame(p)
  BY <1>1, <1>2, <1>4, <1>6, AfterMigrationFacts DEF Frame, restores
<1>8. ProcInv(p)'
  BY <1>1, <1>2, <1>6, AfterMigrationInv
<1>9. FilesInv'
  <2>1. CASE keyFile[Legacy] = "absent"
    <3>1. keyFile' = keyFile
      BY <1>1, <1>2, <2>1 DEF VaultTypeOK
    <3> QED
      BY <1>1, <1>2, <3>1, QuietFiles DEF files, past, restores
  <2>2. CASE keyFile[Legacy] # "absent"
    <3>1. KeysAgree(to) /\ homes' = homes \cup {to}
      BY <1>1, <1>3 DEF KeysAgree
    <3> QED
      BY <1>1, <1>2, <1>3, <1>4, <2>2, <3>1, KeyLegKeepsKeys
  <2> QED
    BY <2>1, <2>2
<1> QED
  BY <1>5, <1>7, <1>8, <1>9 DEF Good

\* A key file that held no key takes no record's key away.
LEMMA NewKeyFile ==
  ASSUME VaultTypeOK, KeysInv, UNCHANGED <<vault, homes, archived, returned, retired>>,
         keyFile'[Legacy] = keyFile[Legacy],
         \A at \in Agents : keyFile'[at] = keyFile[at] \/ keyFile[at] \notin Makers,
         \A at \in Agents : pending'[at] = pending[at] \/ pending[at] \notin Makers
  PROVE  KeysInv'
<1>1. \A at \in Agents, k \in Makers : HasKey(at, k) => HasKey(at, k)'
  BY DEF HasKey
<1> QED
  BY <1>1, KeysKept

LEMMA ResolveKeyGood ==
  ASSUME VaultInv, NEW p \in Procs, ResolveKey(p)
  PROVE  Good(p)
<1> DEFINE at == view[p].scope
           V(k) == [view[p] EXCEPT !.key = k, !.doc = vault[at]]
<1>1. /\ pc[p] = "key" /\ pc[p] \in Inside /\ Goto(p, "write")
      /\ UNCHANGED <<enabled, vault, present, pending, torn, lock, past>>
  BY DEF ResolveKey, At, Inside
<1>2. /\ VaultTypeOK /\ ProcInv(p) /\ LegacyInv /\ KeysInv /\ ArchiveInv /\ AddsSurvive
      /\ at \in Places /\ Legacy \in Places /\ lock[at] = p /\ NothingToMove
      /\ keyFile[Legacy] = "absent" /\ (view[p].kind = "mcp_add" => at # Legacy)
  BY <1>1, InsideFacts
<1>3. PICK k \in Makers :
        /\ view' = [view EXCEPT ![p] = V(k)]
        /\ \/ k = keyFile[at] /\ keyFile' = keyFile
           \/ /\ keyFile[at] = "absent" /\ at # Legacy
              /\ keyFile' = [keyFile EXCEPT ![at] = k]
  <2>1. p \in Makers
    BY DEF Makers
  <2> QED
    BY <1>2, <2>1 DEF ResolveKey
<1> DEFINE v == V(k)
<1>4. /\ v \in Views /\ v.key = k /\ v.doc = vault[at] /\ v.scope = at /\ v.kind = view[p].kind
      /\ v.wish = view[p].wish /\ v.update = view[p].update /\ v.name = view[p].name
      /\ v.target = view[p].target
  <2>1. vault[at] \in SUBSET Records
    BY <1>2 DEF VaultTypeOK
  <2> QED
    BY <1>2, <2>1, ViewFacts DEF Views
<1>5. view' = [view EXCEPT ![p] = v]
  BY <1>3
<1> HIDE DEF V, v
<1>6. /\ view' \in [Procs -> Views] /\ view'[p] = v
      /\ \A q \in Procs \ {p} : view'[q] = view[q]
  BY <1>2, <1>4, <1>5 DEF VaultTypeOK
<1>7. /\ pc' \in [Procs -> Steps] /\ pc'[p] = "write"
      /\ \A q \in Procs \ {p} : pc'[q] = pc[q]
  <2>1. "write" \in Steps
    BY DEF Steps
  <2> QED
    BY <1>1, <1>2, <2>1, GotoFacts
<1>8. /\ keyFile' \in [Places -> KeyFiles] /\ keyFile'[at] = k
      /\ keyFile'[Legacy] = "absent"
      /\ \A place \in Places \ {at} : keyFile'[place] = keyFile[place]
      /\ \A place \in Agents : keyFile'[place] = keyFile[place] \/ keyFile[place] \notin Makers
  BY <1>2, <1>3, KeyNames DEF VaultTypeOK, Places
<1>9. VaultTypeOK'
  BY <1>1, <1>2, <1>6, <1>7, <1>8 DEF VaultTypeOK, past, restores
<1>10. NothingToMove'
  BY <1>1, <1>2, <1>8 DEF NothingToMove
<1>11. Frame(p)
  BY <1>1, <1>2, <1>6, <1>7, <1>8, <1>10 DEF Frame, past, restores
<1>12. ProcInv(p)'
  <2>1. Holding(p)'
    BY <1>1, <1>2, <1>4, <1>6, <1>7 DEF Holding, Moving, Moved
  <2>2. AfterMove(p)'
    BY <1>1, <1>2, <1>4, <1>6, <1>7, <1>10 DEF ProcInv, AfterMove, Command
  <2>3. MoveInv(p)' /\ RotateInv(p)'
    BY <1>7 DEF MoveInv, RotateInv
  <2>4. ReadInv(p)'
    <3>1. OneHome' => \A r \in vault[at] : \/ r.key = keyFile'[at] \/ r.key = pending[at]
                                           \/ Locked(at, r)
      <4> SUFFICES ASSUME OneHome', NEW r \in vault[at]
                   PROVE  r.key = keyFile'[at] \/ r.key = pending[at] \/ Locked(at, r)
        OBVIOUS
      <4>1. OneHome /\ r.key \in Makers
        BY <1>1, <1>2 DEF OneHome, VaultTypeOK, Records, past
      <4>2. r.key = keyFile[at] \/ r.key = pending[at] \/ Locked(at, r)
        BY <1>1, <4>1, VaultOpens
      <4> QED
        BY <1>2, <1>3, <1>8, <4>1, <4>2, KeyNames
    <3>2. /\ UNCHANGED <<vault, pending, gone, dropped, returned, retired>>
          /\ at = Legacy => vault[at] = {}
      BY <1>1, InsideFacts DEF past, restores
    <3> QED
      BY <1>4, <1>6, <1>7, <1>8, <3>1, <3>2 DEF ReadInv, Kept, Locked
  <2>5. GuardInv(p)'
    BY <1>1, <1>2, <1>4, <1>6, <1>7 DEF ProcInv, GuardInv, Like, past, restores
  <2> QED
    BY <2>1, <2>2, <2>3, <2>4, <2>5 DEF ProcInv
<1>13. LegacyInv' /\ AddsSurvive' /\ ArchiveInv'
  BY <1>1, <1>2, <1>8, InsideFacts DEF LegacyInv, AddsSurvive, ArchiveInv, Kept, past, restores
<1>14. KeysInv'
  BY <1>1, <1>2, <1>8, NewKeyFile DEF past, restores
<1> QED
  BY <1>9, <1>11, <1>12, <1>13, <1>14 DEF Good, FilesInv

\* The end of a process, whatever it has written last.
LEMMA EndGood ==
  ASSUME VaultInv, NEW p \in Procs, pc[p] \in Inside, End(p),
         UNCHANGED <<enabled, remaps, homes, archived, returned, dropped>>,
         gone \subseteq gone', retired \subseteq retired', retired' \subseteq KeyFiles,
         torn' \subseteq Agents, added' \subseteq Makers, gone' \subseteq Makers,
         vault' \in [Places -> SUBSET Records], present' \subseteq Places,
         keyFile' \in [Places -> KeyFiles], pending' \in [Places -> KeyFiles],
         \A at \in Places : at \notin present' => vault'[at] = {},
         \A at \in Places \ {view[p].scope} :
           /\ vault'[at] = vault[at] /\ keyFile'[at] = keyFile[at] /\ pending'[at] = pending[at]
           /\ at \in present' <=> at \in present,
         Legacy \notin present', keyFile'[Legacy] = keyFile[Legacy], FilesInv'
  PROVE  Good(p)
<1>1. VaultTypeOK /\ lock[view[p].scope] = p /\ NothingToMove
  BY InsideFacts
<1>2. VaultTypeOK'
  BY <1>1, EndFacts DEF VaultTypeOK
<1>3. Frame(p)
  BY <1>1, EndFacts DEF Frame, NothingToMove, restores
<1>4. ProcInv(p)'
  <2>1. NewView.kind = "migrate"
    BY DEF NewView
  <2> QED
    BY <1>1, <2>1, EndFacts, EndedInv
<1> QED
  BY <1>2, <1>3, <1>4 DEF Good

LEMMA DieWritingKeyGood ==
  ASSUME VaultInv, NEW p \in Procs, DieWritingKey(p)
  PROVE  Good(p)
<1> DEFINE at == view[p].scope
<1>1. pc[p] \in Inside /\ End(p) /\ UNCHANGED <<enabled, vault, present, torn, past>>
  BY DEF DieWritingKey, At, Inside
<1>2. /\ VaultTypeOK /\ ProcInv(p) /\ LegacyInv /\ KeysInv /\ ArchiveInv /\ AddsSurvive
      /\ at \in Places /\ Legacy \in Places /\ Legacy \notin present
      /\ (view[p].kind = "mcp_add" => at # Legacy)
  BY <1>1, InsideFacts
<1>3. \/ /\ keyFile[at] = "absent" /\ at # Legacy /\ keyFile' = [keyFile EXCEPT ![at] = "broken"]
         /\ pending' = pending
      \/ /\ pending[at] = "absent" /\ pending' = [pending EXCEPT ![at] = "broken"]
         /\ keyFile' = keyFile
  BY <1>2 DEF DieWritingKey, At, ProcInv, RotateInv
<1>4. /\ keyFile' \in [Places -> KeyFiles] /\ pending' \in [Places -> KeyFiles]
      /\ keyFile'[Legacy] = keyFile[Legacy]
      /\ \A place \in Places \ {at} :
           keyFile'[place] = keyFile[place] /\ pending'[place] = pending[place]
      /\ \A place \in Agents : keyFile'[place] = keyFile[place] \/ keyFile[place] \notin Makers
      /\ \A place \in Agents : pending'[place] = pending[place] \/ pending[place] \notin Makers
  BY <1>2, <1>3, KeyNames DEF VaultTypeOK, Places
<1>5. KeysInv'
  BY <1>1, <1>2, <1>4, NewKeyFile DEF past, restores
<1>6. FilesInv'
  BY <1>1, <1>2, <1>4, <1>5 DEF FilesInv, LegacyInv, AddsSurvive, ArchiveInv, Kept, past, restores
<1> QED
  BY <1>1, <1>2, <1>4, <1>6, EndGood DEF VaultTypeOK, past, restores

\* A vault that cannot be read ends the command, which may have made its key.
LEMMA UnreadableGood ==
  ASSUME VaultInv, NEW p \in Procs, Unreadable(p)
  PROVE  Good(p)
<1> DEFINE at == view[p].scope
<1>1. pc[p] \in Inside /\ End(p) /\ UNCHANGED <<enabled, vault, present, pending, torn, past>>
  BY DEF Unreadable, At, Inside
<1>2. /\ VaultTypeOK /\ ProcInv(p) /\ LegacyInv /\ KeysInv /\ ArchiveInv /\ AddsSurvive
      /\ at \in Places /\ Legacy \in Places /\ Legacy \notin present /\ p \in KeyFiles
      /\ (view[p].kind = "mcp_add" => at # Legacy)
  BY <1>1, InsideFacts, ViewFacts
<1>3. \/ keyFile' = keyFile
      \/ keyFile[at] = "absent" /\ at # Legacy /\ keyFile' = [keyFile EXCEPT ![at] = p]
  BY <1>2 DEF Unreadable
<1>4. /\ keyFile' \in [Places -> KeyFiles] /\ keyFile'[Legacy] = keyFile[Legacy]
      /\ \A place \in Places \ {at} : keyFile'[place] = keyFile[place]
      /\ \A place \in Agents : keyFile'[place] = keyFile[place] \/ keyFile[place] \notin Makers
  BY <1>2, <1>3, KeyNames DEF VaultTypeOK, Places
<1>5. KeysInv'
  BY <1>1, <1>2, <1>4, NewKeyFile DEF past, restores
<1>6. FilesInv'
  BY <1>1, <1>2, <1>4, <1>5 DEF FilesInv, LegacyInv, AddsSurvive, ArchiveInv, Kept, past, restores
<1> QED
  BY <1>1, <1>2, <1>4, <1>6, EndGood DEF VaultTypeOK, past, restores

\* What is left of a copy takes no key and no record away.
LEMMA DieCopyingGood ==
  ASSUME VaultInv, NEW p \in Procs, DieCopying(p)
  PROVE  Good(p)
<1> DEFINE to == view[p].target
<1>1. pc[p] \in Moved /\ End(p) /\ UNCHANGED <<enabled, vault, pending, past>>
  BY DEF DieCopying, At, Moved
<1>2. /\ VaultTypeOK /\ LegacyInv /\ KeysInv /\ ArchiveInv /\ AddsSurvive
      /\ to \in Agents /\ to \in Places /\ to # Legacy /\ Legacy \in Places /\ lock[to] = p
  BY <1>1, MovingFacts
<1>3. /\ ~NothingToMove /\ torn' \subseteq Agents
      /\ \/ /\ present' = present \cup {to} /\ keyFile' = keyFile
         \/ /\ present' = present /\ keyFile[to] = "absent"
            /\ keyFile' = [keyFile EXCEPT ![to] = "broken"]
  BY <1>2 DEF DieCopying, MayMove, NothingToMove, VaultTypeOK
<1>4. /\ keyFile' \in [Places -> KeyFiles] /\ keyFile'[Legacy] = keyFile[Legacy]
      /\ \A place \in Places \ {to} : keyFile'[place] = keyFile[place]
      /\ \A place \in Agents : keyFile'[place] = keyFile[place] \/ keyFile[place] \notin Makers
  BY <1>2, <1>3, KeyNames DEF VaultTypeOK, Places
<1>5. FilesInv'
  <2>1. KeysInv'
    BY <1>1, <1>2, <1>4, NewKeyFile DEF past, restores
  <2> QED
    BY <1>1, <1>2, <1>4, <2>1 DEF FilesInv, LegacyInv, AddsSurvive, ArchiveInv, Kept, past, restores
<1>6. VaultTypeOK'
  <2>1. present' \subseteq Places /\ \A at \in Places : at \notin present' => vault[at] = {}
    BY <1>2, <1>3 DEF VaultTypeOK
  <2> QED
    BY <1>1, <1>2, <1>3, <1>4, <2>1, EndFacts DEF VaultTypeOK, past, restores
<1>7. Frame(p)
  BY <1>1, <1>2, <1>3, <1>4, EndFacts DEF Frame, past, restores
<1>8. ProcInv(p)'
  <2>1. NewView.kind = "migrate"
    BY DEF NewView
  <2> QED
    BY <1>2, <1>1, <2>1, EndFacts, EndedInv
<1> QED
  BY <1>5, <1>6, <1>7, <1>8 DEF Good

\* A vault is written: what goes from it is recorded as gone, what comes opens
\* with its key.
LEMMA WriteGood ==
  ASSUME VaultInv, NEW p \in Procs, pc[p] = "write", NEW records \in SUBSET Records,
         WriteVault(p, records), view[p].scope # Legacy,
         gone \subseteq gone', gone' \subseteq Makers, added' \subseteq Makers,
         \A r \in records : r \in view[p].doc \/ r.key = keyFile[view[p].scope],
         \A r \in view[p].doc : r \in records \/ r.id \in gone',
         \A id \in added' : id \in added \/ \E r \in records : r.id = id
  PROVE  Good(p)
<1> DEFINE at == view[p].scope
           doc == view[p].doc
<1>1. /\ VaultTypeOK /\ LegacyInv /\ KeysInv /\ ArchiveInv /\ AddsSurvive /\ pc[p] \in Inside
      /\ at \in Places /\ at \in Agents /\ Legacy \in Places /\ Legacy \notin present
      /\ ReadInv(p)
  BY InsideFacts DEF Inside, ProcInv
<1>2. /\ vault' = [vault EXCEPT ![at] = records] /\ present' = present \cup {at} /\ End(p)
      /\ UNCHANGED <<enabled, keyFile, pending, torn, remaps, homes>>
      /\ UNCHANGED <<archived, returned, dropped, retired>>
  BY DEF WriteVault, restores
<1>3. /\ vault' \in [Places -> SUBSET Records] /\ vault'[at] = records
      /\ \A place \in Places \ {at} : vault'[place] = vault[place]
  BY <1>1, <1>2 DEF VaultTypeOK
<1>4. LegacyInv'
  BY <1>1, <1>2, <1>3 DEF LegacyInv
<1>5. \A r \in vault[at] : r.id \in gone' \cup dropped \/ \E s \in records : s.id = r.id
  BY <1>1 DEF ReadInv, Kept
<1>6. VaultKeys'
  <2> SUFFICES ASSUME OneHome', NEW place \in Agents, NEW r \in vault'[place]
               PROVE  HasKey(place, r.key)' \/ Locked(place, r)'
    BY DEF VaultKeys, HasKey, Locked
  <2>1. OneHome /\ place \in Places
    BY <1>2 DEF OneHome, Places
  <2>2. CASE place = at
    BY <1>1, <1>2, <1>3, <2>1, <2>2 DEF ReadInv, HasKey, Locked
  <2>3. CASE place # at
    BY <1>1, <1>2, <1>3, <2>1, <2>3 DEF KeysInv, VaultKeys, HasKey, Locked
  <2> QED
    BY <2>2, <2>3
<1>7. ArchiveKeys'
  BY <1>1, <1>2, ArchivesOpen DEF KeysInv, KeysStay, HasKey
<1>8. AddsSurvive'
  <2> SUFFICES ASSUME NEW id \in added' \ (gone' \cup dropped')
               PROVE  \E place \in Places : \E r \in vault'[place] : r.id = id
    BY DEF AddsSurvive
  <2>1. CASE \E r \in records : r.id = id
    BY <1>1, <1>3, <2>1
  <2>2. CASE id \in added
    <3>1. PICK place \in Places : \E r \in vault[place] : r.id = id
      BY <1>1, <1>2, <2>2 DEF AddsSurvive
    <3> QED
      BY <1>1, <1>2, <1>3, <1>5, <3>1
  <2> QED
    BY <2>1, <2>2
<1>9. ArchiveInv'
  <2>1. \A a \in Agents : \A r \in vault[a] :
          r.id \in gone' \cup dropped' \/ \E s \in vault'[a] : s.id = r.id
    BY <1>1, <1>2, <1>3, <1>5 DEF Places
  <2>2. gone \cup dropped \subseteq gone' \cup dropped'
    BY <1>2
  <2> QED
    BY <1>1, <1>2, <2>1, <2>2, ArchivesKept
<1>10. FilesInv'
  BY <1>4, <1>6, <1>7, <1>8, <1>9 DEF FilesInv, KeysInv
<1> QED
  BY <1>1, <1>2, <1>3, <1>10, EndGood DEF VaultTypeOK

LEMMA WriteAddGood ==
  ASSUME VaultInv, NEW p \in Procs, WriteAdd(p)
  PROVE  Good(p)
<1> DEFINE at == view[p].scope
           doc == view[p].doc
           new == [id |-> p, name |-> view[p].name, key |-> view[p].key]
<1>1. /\ pc[p] = "write" /\ pc[p] \in Inside /\ view[p].kind \in {"mcp_add", "cli_add"}
      /\ added' = added \cup {p}
  BY DEF WriteAdd, At, Inside
<1>2. /\ VaultTypeOK /\ ProcInv(p) /\ keyFile[Legacy] = "absent"
  BY <1>1, InsideFacts
<1>3. keyFile[at] \in Makers /\ view[p].key = keyFile[at]
  BY <1>1, <1>2 DEF ProcInv, ReadInv
<1>4. at # Legacy /\ doc \in SUBSET Records
  BY <1>2, <1>3, KeyNames, ViewFacts
<1>5. /\ new \in Records /\ new.id = p /\ new.key = keyFile[at] /\ p \in Makers
      /\ added \subseteq Makers /\ gone \subseteq Makers
  BY <1>2, <1>3, ViewFacts DEF Records, VaultTypeOK
<1> HIDE DEF new
<1>6. CASE gone' = gone /\ WriteVault(p, doc \cup {new})
  BY <1>1, <1>3, <1>4, <1>5, <1>6, WriteGood
<1>7. ASSUME NEW old \in doc, gone' = gone \cup {old.id}, WriteVault(p, (doc \ {old}) \cup {new})
      PROVE  Good(p)
  <2>1. old.id \in Makers
    BY <1>4 DEF Records
  <2> QED
    BY <1>1, <1>3, <1>4, <1>5, <1>7, <2>1, WriteGood
<1>8. \/ gone' = gone /\ WriteVault(p, doc \cup {new})
      \/ \E old \in doc : gone' = gone \cup {old.id} /\ WriteVault(p, (doc \ {old}) \cup {new})
  BY DEF WriteAdd, new
<1> QED
  BY <1>6, <1>7, <1>8

LEMMA WriteDeleteGood ==
  ASSUME VaultInv, NEW p \in Procs, WriteDelete(p)
  PROVE  Good(p)
<1> DEFINE at == view[p].scope
           doc == view[p].doc
<1>1. pc[p] = "write" /\ pc[p] \in Inside /\ added' = added
  BY DEF WriteDelete, At, Inside
<1>2. PICK old \in doc : gone' = gone \cup {old.id} /\ WriteVault(p, doc \ {old})
  BY DEF WriteDelete
<1>3. /\ VaultTypeOK /\ ProcInv(p) /\ vault[Legacy] = {} /\ doc \in SUBSET Records
  BY <1>1, InsideFacts, ViewFacts
<1>4. at # Legacy
  BY <1>1, <1>2, <1>3 DEF ProcInv, ReadInv
<1>5. old.id \in Makers /\ added \subseteq Makers /\ gone \subseteq Makers
  BY <1>2, <1>3 DEF Records, VaultTypeOK
<1> QED
  BY <1>1, <1>2, <1>3, <1>4, <1>5, WriteGood

-----------------------------------------------------------------------------
(***************************************************************************)
(* A rotation                                                              *)
(***************************************************************************)
\* A key that was left behind is taken when it opens every record, and thrown
\* away when it opens none.
LEMMA RecoverGood ==
  ASSUME VaultInv, NEW p \in Procs, Recover(p)
  PROVE  Good(p)
<1> DEFINE at == view[p].scope
           doc == view[p].doc
           state == PendingState(pending[at], doc)
<1>1. /\ pc[p] = "check" /\ pc[p] \in Inside /\ pending[at] # "absent"
      /\ state # "indeterminate"
      /\ keyFile' = IF state = "opens_all" THEN [keyFile EXCEPT ![at] = pending[at]] ELSE keyFile
      /\ pending' = [pending EXCEPT ![at] = "absent"]
      /\ retired' = retired \cup {IF state = "opens_all" THEN keyFile[at] ELSE pending[at]}
      /\ UNCHANGED <<enabled, vault, present, torn, lock, pc, view, remaps, homes, added, gone>>
      /\ UNCHANGED <<archived, returned, dropped>>
  BY DEF Recover, At, Inside, procs, past, restores
<1>2. /\ VaultTypeOK /\ ProcInv(p) /\ LegacyInv /\ KeysInv /\ ArchiveInv /\ AddsSurvive
      /\ at \in Places /\ Legacy \in Places /\ lock[at] = p /\ NothingToMove
      /\ Legacy \notin present /\ keyFile[Legacy] = "absent" /\ doc \in SUBSET Records
      /\ ReadInv(p) /\ RotateInv(p)
  BY <1>1, InsideFacts, ViewFacts DEF ProcInv
<1>0. at \in Agents /\ at # Legacy /\ at \in present
  BY <1>1, <1>2 DEF RotateInv, Places
<1>3. /\ keyFile' \in [Places -> KeyFiles] /\ pending' \in [Places -> KeyFiles]
      /\ pending'[at] = "absent"
      /\ \A place \in Places \ {at} :
           keyFile'[place] = keyFile[place] /\ pending'[place] = pending[place]
  BY <1>1, <1>2, KeyNames DEF VaultTypeOK
<1>4. VaultTypeOK'
  <2>1. retired' \subseteq KeyFiles
    BY <1>1, <1>2 DEF VaultTypeOK
  <2> QED
    BY <1>1, <1>2, <1>3, <2>1 DEF VaultTypeOK
<1>5. NothingToMove'
  BY <1>0, <1>1, <1>2, <1>3 DEF NothingToMove
<1>6. Frame(p)
  BY <1>1, <1>2, <1>3, <1>5 DEF Frame, restores
<1>11. \A r \in doc : \/ state = "opens_all" /\ r.key = pending[at] /\ keyFile'[at] = pending[at]
                      \/ state # "opens_all" /\ r.key # pending[at] /\ keyFile' = keyFile
  <2> SUFFICES ASSUME NEW r \in doc
               PROVE  \/ state = "opens_all" /\ r.key = pending[at] /\ keyFile'[at] = pending[at]
                      \/ state # "opens_all" /\ r.key # pending[at] /\ keyFile' = keyFile
    OBVIOUS
  <2>1. r.key \in Makers
    BY <1>2 DEF Records
  <2>2. CASE state = "opens_all"
    <3>1. Opened(doc, pending[at]) = doc
      BY <2>2 DEF PendingState
    <3> QED
      BY <1>1, <1>2, <2>2, <3>1 DEF Opened, VaultTypeOK
  <2>3. CASE state # "opens_all"
    <3>1. pending[at] = "broken" \/ Opened(doc, pending[at]) = {}
      BY <1>1, <2>3 DEF PendingState
    <3> QED
      BY <1>1, <2>1, <2>3, <3>1, KeyNames DEF Opened
  <2> QED
    BY <2>2, <2>3
<1>7. ProcInv(p)'
  <2>1. Holding(p)' /\ AfterMove(p)'
    BY <1>1, <1>2, <1>5 DEF ProcInv, Holding, AfterMove
  <2>2. MoveInv(p)' /\ RotateInv(p)'
    BY <1>1, <1>2 DEF MoveInv, RotateInv
  <2>3. GuardInv(p)'
    BY <1>1, <1>2 DEF ProcInv, GuardInv
  <2>4. ReadInv(p)'
    BY <1>1, <1>2, <1>11 DEF ReadInv, Kept, Locked, OneHome
  <2> QED
    BY <2>1, <2>2, <2>3, <2>4 DEF ProcInv
<1>8. KeysInv'
  <2>1. ArchiveKeys'
    <3>1. KeysStay
      <4> SUFFICES ASSUME NEW place \in Agents, NEW k \in Makers, HasKey(place, k)
                   PROVE  HasKey(place, k)' \/ k \in retired'
        BY DEF KeysStay
      <4>1. place \in Places /\ keyFile'[Legacy] = keyFile[Legacy] /\ homes' = homes
        BY <1>0, <1>1, <1>2, <1>3 DEF Places
      <4>2. CASE place # at
        BY <1>3, <4>1, <4>2 DEF HasKey
      <4>3. CASE place = at
        BY <1>1, <1>2, <4>1, <4>3, KeyNames DEF HasKey, VaultTypeOK
      <4> QED
        BY <4>2, <4>3
    <3> QED
      BY <1>1, <1>2, <3>1, ArchivesOpen DEF KeysInv
  <2>2. VaultKeys'
    <3> SUFFICES ASSUME OneHome', NEW place \in Agents, NEW r \in vault'[place]
                 PROVE  HasKey(place, r.key)' \/ Locked(place, r)'
      BY DEF VaultKeys, HasKey, Locked
    <3>1. /\ OneHome /\ place \in Places /\ r \in vault[place] /\ r.key \in Makers
          /\ keyFile'[Legacy] = keyFile[Legacy] /\ homes' = homes
      BY <1>0, <1>1, <1>2, <1>3 DEF OneHome, Places, VaultTypeOK, Records
    <3>2. HasKey(place, r.key) \/ Locked(place, r)
      BY <1>2, <3>1 DEF KeysInv, VaultKeys
    <3>3. CASE place # at
      BY <1>1, <1>3, <3>1, <3>2, <3>3 DEF HasKey, Locked
    <3>4. CASE place = at
      <4>1. \/ r.key = keyFile[at] \/ r.key = pending[at] \/ Locked(at, r)
        BY <1>2, <3>1, <3>2, <3>4, KeyNames DEF HasKey
      <4>2. r \in doc \/ r \in returned[at]
        BY <1>1, <1>2, <3>1, <3>4 DEF ReadInv
      <4>3. CASE Locked(at, r)
        BY <1>1, <3>4, <4>3 DEF Locked
      <4>4. CASE r \in returned[at] /\ r.key \in {keyFile[at], pending[at]}
        BY <1>0, <1>1, <1>2, <3>4, <4>4 DEF HasKey, Locked, VaultTypeOK
      <4>5. CASE r \in doc /\ r.key \in {keyFile[at], pending[at]}
        BY <1>11, <3>4, <4>5 DEF HasKey
      <4> QED
        BY <4>1, <4>2, <4>3, <4>4, <4>5
    <3> QED
      BY <3>3, <3>4
  <2> QED
    BY <2>1, <2>2 DEF KeysInv
<1>9. LegacyInv' /\ AddsSurvive' /\ ArchiveInv'
  BY <1>0, <1>1, <1>2, <1>3 DEF LegacyInv, AddsSurvive, ArchiveInv, Kept
<1> QED
  BY <1>4, <1>6, <1>7, <1>8, <1>9 DEF Good, FilesInv

LEMMA StageKeyGood ==
  ASSUME VaultInv, NEW p \in Procs, StageKey(p)
  PROVE  Good(p)
<1> DEFINE at == view[p].scope
<1>1. /\ pc[p] = "stage" /\ pc[p] \in Inside /\ Goto(p, "rewrite")
      /\ pending' = [pending EXCEPT ![at] = p]
      /\ UNCHANGED <<enabled, vault, present, keyFile, lock, view, remaps, homes, added, gone,
                   torn, archived, returned, dropped, retired>>
  BY DEF StageKey, At, Inside, past, restores
<1>2. /\ VaultTypeOK /\ ProcInv(p) /\ LegacyInv /\ KeysInv /\ ArchiveInv /\ AddsSurvive
      /\ at \in Places /\ Legacy \in Places /\ lock[at] = p /\ NothingToMove
  BY <1>1, InsideFacts
<1>3. /\ pending[at] = "absent" /\ at \in present
      /\ \A r \in view[p].doc : r.key = keyFile[at]
  BY <1>1, <1>2 DEF ProcInv, RotateInv, ReadInv
<1>4. /\ pc' \in [Procs -> Steps] /\ pc'[p] = "rewrite"
      /\ \A q \in Procs \ {p} : pc'[q] = pc[q]
  <2>1. "rewrite" \in Steps
    BY DEF Steps
  <2> QED
    BY <1>1, <1>2, <2>1, GotoFacts
<1>5. /\ pending' \in [Places -> KeyFiles] /\ pending'[at] = p
      /\ \A place \in Places \ {at} : pending'[place] = pending[place]
      /\ \A place \in Agents : pending'[place] = pending[place] \/ pending[place] \notin Makers
  BY <1>1, <1>2, <1>3, KeyNames, ViewFacts DEF VaultTypeOK, Places
<1>6. VaultTypeOK'
  BY <1>1, <1>2, <1>4, <1>5 DEF VaultTypeOK
<1>7. NothingToMove'
  BY <1>1, <1>2 DEF NothingToMove
<1>8. Frame(p)
  BY <1>1, <1>2, <1>4, <1>5, <1>7 DEF Frame, restores
<1>9. ProcInv(p)'
  <2>1. Holding(p)' /\ AfterMove(p)' /\ MoveInv(p)'
    BY <1>1, <1>2, <1>4, <1>7
       DEF ProcInv, Holding, AfterMove, MoveInv, Moving, Moved, Command, Inside
  <2>2. ReadInv(p)' /\ RotateInv(p)'
    BY <1>1, <1>2, <1>3, <1>4, <1>5 DEF ProcInv, ReadInv, RotateInv, Kept, Locked
  <2>3. GuardInv(p)'
    BY <1>1, <1>2, <1>4 DEF ProcInv, GuardInv
  <2> QED
    BY <2>1, <2>2, <2>3 DEF ProcInv
<1>10. FilesInv'
  BY <1>1, <1>2, <1>5, NewKeyFile DEF FilesInv, LegacyInv, AddsSurvive, ArchiveInv, Kept
<1> QED
  BY <1>6, <1>8, <1>9, <1>10 DEF Good

\* Every record is sealed again, under the key that waits.
LEMMA RewriteGood ==
  ASSUME VaultInv, NEW p \in Procs, Rewrite(p)
  PROVE  Good(p)
<1> DEFINE at == view[p].scope
           Again(r) == IF r.key = keyFile[at] THEN [r EXCEPT !.key = p] ELSE r
           doc == view[p].doc
           records == {Again(r) : r \in doc}
<1>1. /\ pc[p] = "rewrite" /\ pc[p] \in Inside /\ Goto(p, "replace")
      /\ UNCHANGED <<enabled, present, keyFile, pending, lock, view, remaps, homes, added, gone,
                   torn, archived, returned, dropped, retired>>
  BY DEF Rewrite, At, Inside, past, restores
<1>2. /\ VaultTypeOK /\ ProcInv(p) /\ LegacyInv /\ KeysInv /\ ArchiveInv /\ AddsSurvive
      /\ at \in Places /\ Legacy \in Places /\ Legacy \notin present /\ lock[at] = p
      /\ NothingToMove /\ p \in Makers /\ doc \in SUBSET Records
  BY <1>1, InsideFacts, ViewFacts DEF VaultTypeOK
<1>3. /\ pending[at] = p /\ at \in present /\ at # Legacy /\ at \in Agents
      /\ \A r \in doc : r.key = keyFile[at]
      /\ \A r \in vault[at] : r.id \in gone \cup dropped \/ \E s \in doc : s.id = r.id
  BY <1>1, <1>2 DEF ProcInv, RotateInv, ReadInv, Kept, Places
<1>4. vault' = [vault EXCEPT ![at] = records]
  BY <1>3 DEF Rewrite
<1>5. \A r \in doc : /\ Again(r) \in Records /\ Again(r).key = p
                     /\ Again(r).id = r.id
  BY <1>2, <1>3 DEF Records
<1>6. /\ records \in SUBSET Records /\ \A s \in records : s.key = p
      /\ \A r \in doc : \E s \in records : s.id = r.id
  <2> HIDE DEF Again
  <2>1. \A r \in doc : Again(r) \in records
    OBVIOUS
  <2> QED
    BY <1>5, <2>1
<1> HIDE DEF records
<1>7. /\ vault' \in [Places -> SUBSET Records] /\ vault'[at] = records
      /\ \A place \in Places \ {at} : vault'[place] = vault[place]
  BY <1>2, <1>4, <1>6 DEF VaultTypeOK
<1>8. /\ pc' \in [Procs -> Steps] /\ pc'[p] = "replace"
      /\ \A q \in Procs \ {p} : pc'[q] = pc[q]
  <2>1. "replace" \in Steps
    BY DEF Steps
  <2> QED
    BY <1>1, <1>2, <2>1, GotoFacts
<1>9. VaultTypeOK'
  BY <1>1, <1>2, <1>3, <1>7, <1>8 DEF VaultTypeOK
<1>10. NothingToMove'
  BY <1>1, <1>2 DEF NothingToMove
<1>11. Frame(p)
  BY <1>1, <1>2, <1>7, <1>8, <1>10 DEF Frame, restores
<1>12. ProcInv(p)'
  <2>1. Holding(p)' /\ AfterMove(p)' /\ MoveInv(p)' /\ ReadInv(p)'
    BY <1>1, <1>2, <1>8, <1>10
       DEF ProcInv, Holding, AfterMove, MoveInv, ReadInv, Moving, Moved, Command, Inside
  <2>2. RotateInv(p)'
    BY <1>1, <1>3, <1>6, <1>7, <1>8 DEF RotateInv
  <2>3. GuardInv(p)'
    BY <1>1, <1>2, <1>8 DEF ProcInv, GuardInv
  <2> QED
    BY <2>1, <2>2, <2>3 DEF ProcInv
<1>13. LegacyInv'
  BY <1>1, <1>2, <1>3, <1>7 DEF LegacyInv
<1>16. \A r \in vault[at] : r.id \in gone \cup dropped \/ \E s \in records : s.id = r.id
  BY <1>3, <1>6
<1>14. KeysInv'
  <2>1. ArchiveKeys'
    BY <1>1, <1>2, ArchivesOpen DEF KeysInv, KeysStay, HasKey
  <2>2. VaultKeys'
    <3> SUFFICES ASSUME OneHome', NEW place \in Agents, NEW r \in vault'[place]
                 PROVE  HasKey(place, r.key)' \/ Locked(place, r)'
      BY DEF VaultKeys, HasKey, Locked
    <3>1. OneHome /\ place \in Places
      BY <1>1 DEF OneHome, Places
    <3>2. CASE place = at
      BY <1>1, <1>3, <1>6, <1>7, <3>2 DEF HasKey
    <3>3. CASE place # at
      BY <1>1, <1>2, <1>7, <3>1, <3>3 DEF KeysInv, VaultKeys, HasKey, Locked
    <3> QED
      BY <3>2, <3>3
  <2> QED
    BY <2>1, <2>2 DEF KeysInv
<1>15. AddsSurvive'
  <2> SUFFICES ASSUME NEW id \in added \ (gone \cup dropped)
               PROVE  \E place \in Places : \E r \in vault'[place] : r.id = id
    BY <1>1 DEF AddsSurvive
  <2>1. PICK place \in Places : \E r \in vault[place] : r.id = id
    BY <1>2 DEF AddsSurvive
  <2> QED
    BY <1>2, <1>7, <1>16, <2>1
<1>17. ArchiveInv'
  <2>1. \A a \in Agents : \A r \in vault[a] :
          r.id \in gone' \cup dropped' \/ \E s \in vault'[a] : s.id = r.id
    BY <1>1, <1>7, <1>16 DEF Places
  <2> QED
    BY <1>1, <1>2, <2>1, ArchivesKept
<1> QED
  BY <1>9, <1>11, <1>12, <1>13, <1>14, <1>15, <1>17 DEF Good, FilesInv

\* What ReplaceKey finds, and what it leaves.
LEMMA ReplaceKeyFacts ==
  ASSUME VaultInv, NEW p \in Procs, ReplaceKey(p)
  PROVE  LET at == view[p].scope
         IN /\ keyFile' = [keyFile EXCEPT ![at] = p] /\ keyFile'[at] = p
            /\ pending' = [pending EXCEPT ![at] = "absent"] /\ pending'[at] = "absent"
            /\ at \in present /\ at # Legacy /\ vault' = vault
            /\ retired' = retired \cup {keyFile[at]} /\ returned' = returned
            /\ pending[at] = p /\ \A r \in vault[at] : r.key = p \/ r \in returned[at]
<1> DEFINE at == view[p].scope
<1>1. pc[p] = "replace" /\ pc[p] \in Inside
  BY DEF ReplaceKey, At, Inside
<1>2. VaultTypeOK /\ ProcInv(p) /\ at \in Places /\ Legacy \notin present
  BY <1>1, InsideFacts
<1>3. pending[at] = p /\ at \in present /\ \A r \in vault[at] : r.key = p \/ r \in returned[at]
  BY <1>1, <1>2 DEF ProcInv, RotateInv
<1> QED
  BY <1>2, <1>3 DEF ReplaceKey, VaultTypeOK, restores

LEMMA ReplaceKeyGood ==
  ASSUME VaultInv, NEW p \in Procs, ReplaceKey(p)
  PROVE  Good(p)
<1> DEFINE at == view[p].scope
<1>1. /\ pc[p] \in Inside /\ End(p)
      /\ UNCHANGED <<enabled, vault, present, torn, remaps, homes, added, gone>>
      /\ UNCHANGED <<archived, returned, dropped>>
  BY DEF ReplaceKey, At, Inside, restores
<1>2. /\ VaultTypeOK /\ LegacyInv /\ KeysInv /\ ArchiveInv /\ AddsSurvive /\ at \in Places
      /\ Legacy \in Places /\ Legacy \notin present /\ keyFile[Legacy] = "absent"
      /\ p \in KeyFiles
  BY <1>1, InsideFacts, ViewFacts
<1>3. /\ keyFile' = [keyFile EXCEPT ![at] = p] /\ keyFile'[at] = p /\ pending[at] = p
      /\ pending' = [pending EXCEPT ![at] = "absent"] /\ at # Legacy
      /\ retired' = retired \cup {keyFile[at]}
      /\ \A r \in vault[at] : r.key = p \/ r \in returned[at]
  BY ReplaceKeyFacts
<1>4. /\ keyFile' \in [Places -> KeyFiles] /\ pending' \in [Places -> KeyFiles]
      /\ retired' \subseteq KeyFiles
      /\ \A place \in Places \ {at} :
           keyFile'[place] = keyFile[place] /\ pending'[place] = pending[place]
  BY <1>2, <1>3, KeyNames DEF VaultTypeOK
<1>5. KeysInv'
  <2>1. ArchiveKeys'
    <3>1. KeysStay
      BY <1>1, <1>2, <1>3, <1>4 DEF KeysStay, HasKey, Places
    <3> QED
      BY <1>1, <1>2, <1>3, <3>1, ArchivesOpen DEF KeysInv
  <2>2. VaultKeys'
    <3> SUFFICES ASSUME OneHome', NEW place \in Agents, NEW r \in vault'[place]
                 PROVE  HasKey(place, r.key)' \/ Locked(place, r)'
      BY DEF VaultKeys, HasKey, Locked
    <3>1. /\ OneHome /\ place \in Places /\ r \in vault[place] /\ homes' = homes
          /\ keyFile'[Legacy] = keyFile[Legacy] /\ r.key \in Makers
      BY <1>1, <1>2, <1>3, <1>4 DEF OneHome, Places, VaultTypeOK, Records
    <3>2. HasKey(place, r.key) \/ Locked(place, r)
      BY <1>2, <3>1 DEF KeysInv, VaultKeys
    <3>3. CASE place = at
      BY <1>1, <1>2, <1>3, <3>1, <3>2, <3>3, KeyNames DEF HasKey, Locked
    <3>4. CASE place # at
      BY <1>1, <1>3, <1>4, <3>1, <3>2, <3>4 DEF HasKey, Locked
    <3> QED
      BY <3>3, <3>4
  <2> QED
    BY <2>1, <2>2 DEF KeysInv
<1>6. FilesInv'
  BY <1>1, <1>2, <1>3, <1>4, <1>5 DEF FilesInv, LegacyInv, AddsSurvive, ArchiveInv, Kept
<1> QED
  BY <1>1, <1>2, <1>3, <1>4, <1>6, EndGood DEF VaultTypeOK

-----------------------------------------------------------------------------
(***************************************************************************)
(* All steps                                                               *)
(***************************************************************************)
ProcNext(p) ==
  Migration(p) \/ Mutation(p) \/ Rotation(p) \/ DieWritingKey(p) \/ Die(p)

LEMMA ProcGood ==
  ASSUME VaultInv, NEW p \in Procs, ProcNext(p)
  PROVE  Good(p)
<1>1. CASE Migration(p)
  BY <1>1, StartGood, LockGood, MoveVaultGood, UnlinkVaultGood, MoveKeyGood, UnlinkKeyGood,
     NothingLeftGood, DieCopyingGood, FailGood DEF Migration, Refused
<1>2. CASE Mutation(p)
  BY <1>2, LockGood, GuardGood, ResolveKeyGood, ReadGood, UnreadableGood, WriteAddGood,
     WriteDeleteGood, FailGood DEF Mutation, WaitEnds, Duplicate, NoKey, NothingToDelete
<1>3. CASE Rotation(p)
  BY <1>3, RecoverGood, CheckGood, StageKeyGood, RewriteGood, ReplaceKeyGood, FailGood
     DEF Rotation, RotateFails
<1>4. CASE DieWritingKey(p) \/ Die(p)
  BY <1>4, DieWritingKeyGood, FailGood DEF Die
<1> QED
  BY <1>1, <1>2, <1>3, <1>4 DEF ProcNext

\* The archive takes the place of the vault, and no lock is asked for.
LEMMA ImportGood ==
  ASSUME VaultInv, NEW a \in Agents, Import(a)
  PROVE  VaultInv'
<1>1. /\ VaultTypeOK /\ LegacyInv /\ KeysInv /\ ArchiveInv /\ AddsSurvive
      /\ \A q \in Procs : ProcInv(q)
  BY DEF VaultInv
<1>2. /\ UNCHANGED <<enabled, keyFile, pending, lock, pc, view, archived>>
      /\ UNCHANGED <<remaps, homes, added, gone, retired>>
      /\ NothingToMove /\ a \in Places /\ a # Legacy
      /\ present' = present \cup {a} /\ torn' \subseteq torn
  BY KeyNames DEF Import, procs, Places
<1>3. /\ vault' \in [Places -> SUBSET Records] /\ vault'[a] = archived[a]
      /\ \A at \in Places \ {a} : vault'[at] = vault[at]
  BY <1>1, <1>2 DEF Import, VaultTypeOK
<1>4. /\ returned' \in [Agents -> SUBSET Records]
      /\ \A at \in Agents : returned[at] \subseteq returned'[at]
      /\ \A r \in archived[a] : r \in vault[a] \/ r \in returned'[a]
  BY <1>1, <1>2 DEF Import, VaultTypeOK
<1>5. /\ dropped \subseteq dropped' /\ dropped' \subseteq Makers
      /\ \A r \in vault[a] : r.id \in dropped' \/ \E s \in vault'[a] : s.id = r.id
  <2>1. dropped' = dropped \cup (Ids(vault[a]) \ Ids(archived[a]))
    BY DEF Import
  <2>2. \A r \in vault[a] : r.id \in Makers
    BY <1>1, <1>2 DEF VaultTypeOK, Records
  <2>3. Ids(vault[a]) \subseteq Makers
    BY <2>2 DEF Ids
  <2>4. dropped \subseteq Makers
    BY <1>1 DEF VaultTypeOK
  <2>5. ASSUME NEW r \in vault[a], r.id \notin dropped'
        PROVE  \E s \in vault'[a] : s.id = r.id
    <3>1. r.id \in Ids(vault[a])
      BY DEF Ids
    <3>2. r.id \in Ids(archived[a])
      BY <2>1, <2>5, <3>1
    <3> QED
      BY <1>3, <3>2 DEF Ids
  <2> QED
    BY <2>1, <2>3, <2>4, <2>5
<1>6. VaultTypeOK' /\ NothingToMove' /\ Legacy \notin present'
  <2>1. \A at \in Places : at \notin present' => vault'[at] = {}
    BY <1>1, <1>2, <1>3 DEF VaultTypeOK
  <2>2. NothingToMove' /\ Legacy \notin present'
    BY <1>2 DEF NothingToMove
  <2> QED
    BY <1>1, <1>2, <1>3, <1>4, <1>5, <2>1, <2>2 DEF VaultTypeOK
<1>7. LegacyInv'
  <2>1. Legacy \in Places
    BY DEF Places
  <2> QED
    BY <1>1, <1>2, <1>3, <2>1 DEF LegacyInv
<1>8. ArchiveKeys' /\ OneHome' = OneHome
  BY <1>1, <1>2 DEF KeysInv, ArchiveKeys, HasKey, OneHome
<1>9. VaultKeys'
  <2> SUFFICES ASSUME OneHome', NEW at \in Agents, NEW r \in vault'[at]
               PROVE  HasKey(at, r.key)' \/ Locked(at, r)'
    BY DEF VaultKeys, HasKey, Locked
  <2>1. HasKey(at, r.key)' = HasKey(at, r.key)
    BY <1>2 DEF HasKey
  <2>2. r \in vault[at] => HasKey(at, r.key) \/ Locked(at, r)
    BY <1>1, <1>8 DEF KeysInv, VaultKeys
  <2>3. Locked(at, r) => Locked(at, r)'
    BY <1>2, <1>4 DEF Locked
  <2>4. CASE at = a
    BY <1>1, <1>2, <1>3, <1>4, <1>8, <2>1, <2>2, <2>3, <2>4 DEF KeysInv, ArchiveKeys, Locked
  <2>5. CASE at # a
    BY <1>3, <2>1, <2>2, <2>3, <2>5 DEF Places
  <2> QED
    BY <2>4, <2>5
<1>10. ArchiveInv'
  BY <1>1, <1>2, <1>3, <1>5 DEF ArchiveInv, Kept, Places
<1>11. AddsSurvive'
  <2> SUFFICES ASSUME NEW id \in added \ (gone \cup dropped')
               PROVE  \E at \in Places : \E r \in vault'[at] : r.id = id
    BY <1>2 DEF AddsSurvive
  <2>1. PICK at \in Places : \E r \in vault[at] : r.id = id
    BY <1>1, <1>5 DEF AddsSurvive
  <2> QED
    BY <1>2, <1>3, <1>5, <2>1
<1>12. ASSUME NEW q \in Procs
       PROVE  ProcInv(q)'
  <2> DEFINE scope == view[q].scope
  <2>1. ProcInv(q) /\ scope \in Places
    BY <1>1, ViewFacts
  <2>2. Holding(q)' /\ AfterMove(q)' /\ MoveInv(q)'
    BY <1>2, <1>6, <2>1 DEF ProcInv, Holding, AfterMove, MoveInv, KeysAgree, NothingToMove
  <2>3. \A r \in vault'[scope] : r \in vault[scope] \/ r \in returned'[scope]
    BY <1>3, <1>4, <2>1
  <2>4. scope # Legacy => scope \in Agents /\ returned[scope] \subseteq returned'[scope]
    BY <1>4, <2>1 DEF Places
  <2>5. scope = Legacy => vault'[scope] = {}
    BY <1>2, <1>3, <1>6, <2>1 DEF VaultTypeOK
  <2>6. ReadInv(q)'
    <3>1. Kept(vault[scope], view[q].doc) =>
            \A r \in vault'[scope] : \/ r.id \in gone' \cup dropped'
                                     \/ \E s \in view[q].doc : s.id = r.id
      <4>1. CASE scope = a
        <5> SUFFICES ASSUME Kept(vault[a], view[q].doc), NEW r \in archived[a],
                            r.id \notin gone' \cup dropped'
                     PROVE  \E s \in view[q].doc : s.id = r.id
          BY <1>3, <4>1
        <5>1. PICK t \in vault[a] : t.id = r.id
          BY <1>1, <1>2, <1>5 DEF ArchiveInv, Kept
        <5> QED
          BY <1>2, <1>5, <5>1 DEF Kept
      <4>2. CASE scope # a
        BY <1>2, <1>3, <1>5, <2>1, <4>2 DEF Kept
      <4> QED
        BY <4>1, <4>2
    <3>2. \A r : Locked(scope, r) => Locked(scope, r)'
      BY <1>2, <1>4 DEF Locked
    <3> QED
      BY <1>2, <1>8, <2>1, <2>3, <2>4, <2>5, <3>1, <3>2 DEF ProcInv, ReadInv, Kept, Locked
  <2>7. RotateInv(q)'
    BY <1>2, <2>1, <2>3, <2>4, <2>5 DEF ProcInv, RotateInv
  <2>8. GuardInv(q)'
    BY <1>2, <2>1, <2>3, <2>4, <2>5 DEF ProcInv, GuardInv, Like
  <2> QED
    BY <2>2, <2>6, <2>7, <2>8 DEF ProcInv
<1> QED
  BY <1>6, <1>7, <1>8, <1>9, <1>10, <1>11, <1>12 DEF VaultInv, KeysInv

\* An archive is made of what the vault holds.
LEMMA ExportGood ==
  ASSUME VaultInv, NEW a \in Agents, Export(a)
  PROVE  VaultInv'
<1>1. /\ UNCHANGED <<enabled, vault, present, keyFile, pending, torn, lock, pc, view>>
      /\ UNCHANGED <<remaps, homes, added, gone, returned, dropped, retired>>
      /\ archived' = [archived EXCEPT ![a] = vault[a]]
  BY DEF Export, files, procs
<1>2. /\ VaultTypeOK /\ LegacyInv /\ KeysInv /\ ArchiveInv /\ AddsSurvive
      /\ \A q \in Procs : ProcInv(q)
  BY DEF VaultInv
<1>3. /\ archived' \in [Agents -> SUBSET Records] /\ archived'[a] = vault[a]
      /\ \A at \in Agents \ {a} : archived'[at] = archived[at]
  BY <1>1, <1>2 DEF VaultTypeOK, Places
<1>4. VaultTypeOK'
  BY <1>1, <1>2, <1>3 DEF VaultTypeOK
<1>5. LegacyInv' /\ AddsSurvive' /\ VaultKeys'
  BY <1>1, <1>2 DEF LegacyInv, AddsSurvive, KeysInv, VaultKeys, OneHome, HasKey, Locked
<1>6. ArchiveKeys'
  <2> SUFFICES ASSUME OneHome', NEW at \in Agents, NEW r \in archived'[at]
               PROVE  HasKey(at, r.key)' \/ r.key \in retired'
    BY DEF ArchiveKeys, HasKey
  <2>1. OneHome /\ HasKey(at, r.key)' = HasKey(at, r.key)
    BY <1>1 DEF OneHome, HasKey
  <2> QED
    BY <1>1, <1>2, <1>3, <2>1 DEF KeysInv, VaultKeys, ArchiveKeys, Locked
<1>7. ArchiveInv'
  BY <1>1, <1>2, <1>3 DEF ArchiveInv, Kept
<1>8. \A q \in Procs : ProcInv(q)'
  BY <1>1, <1>2 DEF ProcInv, Holding, AfterMove, MoveInv, ReadInv, RotateInv, GuardInv,
                    KeysAgree, NothingToMove, Like, OneHome, Kept, Locked
<1> QED
  BY <1>4, <1>5, <1>6, <1>7, <1>8 DEF VaultInv, KeysInv

LEMMA VaultStep ==
  ASSUME VaultInv, [Next]_vars
  PROVE  VaultInv'
<1>1. ASSUME NEW p \in Procs, ProcNext(p)
      PROVE  VaultInv'
  <2>1. VaultTypeOK' /\ Frame(p) /\ ProcInv(p)' /\ FilesInv'
    BY <1>1, ProcGood DEF Good
  <2>2. \A q \in Procs \ {p} : ProcInv(q)'
    BY <2>1, OthersKeep DEF VaultInv
  <2> QED
    BY <2>1, <2>2 DEF VaultInv, FilesInv
<1>2. CASE Remap
  <2>1. /\ UNCHANGED <<files, lock, procs, homes, added, gone, restores, retired>>
        /\ enabled' \subseteq Agents /\ remaps' = remaps + 1 /\ remaps < MaxRemaps
    BY <1>2 DEF Remap
  <2>2. remaps' \in 0..MaxRemaps /\ remaps' # 0
    BY <2>1, VaultAssumption DEF VaultInv, VaultTypeOK
  <2>3. VaultTypeOK'
    BY <2>1, <2>2 DEF VaultInv, VaultTypeOK, files, procs, restores
  <2>4. FilesInv'
    BY <2>1 DEF VaultInv, FilesInv, LegacyInv, KeysInv, VaultKeys, ArchiveKeys, HasKey, Locked,
                ArchiveInv, Kept, AddsSurvive, OneHome, files, restores
  <2>5. ASSUME NEW p \in Procs
        PROVE  ProcInv(p)'
    <3>1. ProcInv(p)
      BY DEF VaultInv
    <3>2. Holding(p)' /\ AfterMove(p)' /\ MoveInv(p)' /\ ReadInv(p)' /\ RotateInv(p)'
      BY <2>1, <3>1 DEF ProcInv, Holding, AfterMove, MoveInv, ReadInv, RotateInv, KeysAgree,
                        NothingToMove, OneHome, Kept, Locked, files, procs, restores
    <3>3. GuardInv(p)'
      BY <2>2 DEF GuardInv
    <3> QED
      BY <3>2, <3>3 DEF ProcInv
  <2> QED
    BY <2>3, <2>4, <2>5 DEF VaultInv, FilesInv
<1>3. CASE UNCHANGED vars
  <2>1. VaultTypeOK'
    BY <1>3 DEF VaultInv, VaultTypeOK, vars, files, procs, past, restores
  <2>2. FilesInv'
    BY <1>3, QuietFiles DEF VaultInv, FilesInv, vars
  <2>3. \A p \in Procs : ProcInv(p)'
    BY <1>3 DEF VaultInv, ProcInv, Holding, AfterMove, MoveInv, ReadInv, RotateInv, GuardInv,
                KeysAgree, NothingToMove, Like, OneHome, Kept, Locked, vars, files, procs, past,
                restores
  <2> QED
    BY <2>1, <2>2, <2>3 DEF VaultInv, FilesInv
<1> QED
  BY <1>1, <1>2, <1>3, ExportGood, ImportGood DEF Next, ProcNext

LEMMA VaultStart == Init => VaultInv
<1> SUFFICES ASSUME Init PROVE VaultInv
  OBVIOUS
<1>1. /\ \A at \in Places : vault[at] \in SUBSET OldInstall /\ keyFile[at] \in {"first", "absent"}
      /\ \A at \in Agents : vault[at] = {}
      /\ \A r \in vault[Legacy] : r.key = "first" /\ keyFile[Legacy] = "first" /\ r.id = "first"
      /\ vault \in [Places -> SUBSET OldInstall] /\ keyFile \in [Places -> KeyFiles]
      /\ present \subseteq Places /\ \A at \in Places : at \notin present => vault[at] = {}
      /\ added = {} \/ (added = {"first"} /\ vault[Legacy] # {})
  BY KeyNames DEF Init, OldInstall, Places
<1>2. OldInstall \subseteq Records
  BY KeyNames DEF OldInstall, Records
<1>3. VaultTypeOK
  <2>1. vault \in [Places -> SUBSET Records]
    BY <1>1, <1>2
  <2>2. /\ enabled \subseteq Agents /\ pending \in [Places -> KeyFiles]
        /\ lock \in [Places -> Procs \cup {Nobody}] /\ pc \in [Procs -> Steps]
        /\ view \in [Procs -> Views]
    BY KeyNames, NewViewType DEF Init, Steps
  <2>3. /\ remaps \in 0..MaxRemaps /\ homes \subseteq Agents
        /\ added \subseteq Makers /\ gone \subseteq Makers
    BY <1>1, KeyNames, VaultAssumption DEF Init
  <2>4. /\ torn \subseteq Agents /\ archived \in [Agents -> SUBSET Records]
        /\ returned \in [Agents -> SUBSET Records] /\ dropped \subseteq Makers
        /\ retired \subseteq KeyFiles
    BY DEF Init
  <2> QED
    BY <1>1, <2>1, <2>2, <2>3, <2>4 DEF VaultTypeOK
<1>4. ASSUME NEW p \in Procs
      PROVE  ProcInv(p)
  <2>1. pc[p] = "start" /\ view[p] = NewView
    BY DEF Init
  <2>2. NewView.kind = "migrate"
    BY DEF NewView
  <2> QED
    BY <2>1, <2>2 DEF ProcInv, Holding, AfterMove, MoveInv, ReadInv, RotateInv, GuardInv, Moved,
                      Moving, Inside, Command
<1>5. LegacyInv /\ KeysInv /\ ArchiveInv
  <2>1. \A a \in Agents : archived[a] = {}
    BY DEF Init
  <2> QED
    BY <1>1, <2>1 DEF LegacyInv, KeysInv, VaultKeys, ArchiveKeys, ArchiveInv, Kept, Places
<1>6. AddsSurvive
  BY <1>1 DEF AddsSurvive, Places
<1> QED
  BY <1>3, <1>4, <1>5, <1>6 DEF VaultInv

\* Mutual exclusion, and what each process and each file relies on, in every
\* behaviour.
THEOREM VaultInvariance == Spec => []VaultInv
BY VaultStart, VaultStep, PTL DEF Spec

\* Whichever commands race and wherever one of them is killed, every record can
\* be opened with a key that is in some key file, or was brought back by a restore
\* or an import from before the rotation that replaced its key, unless migrations
\* of the install have had two targets.
THEOREM EveryRecordOpensHolds == Spec => []EveryRecordOpens
<1>1. ASSUME VaultInv PROVE EveryRecordOpens
  <2> SUFFICES ASSUME Cardinality(homes) <= 1, NEW at \in Places, NEW r \in vault[at]
               PROVE  r.key \in KeysOnDisk \/ Locked(at, r)
    BY DEF EveryRecordOpens, Opens
  <2>1. OneHome
    <3> SUFFICES ASSUME NEW a \in homes, NEW b \in homes, a # b PROVE FALSE
      BY DEF OneHome
    <3>1. IsFiniteSet(homes)
      BY <1>1, VaultAssumption, FS_Subset DEF VaultInv, VaultTypeOK
    <3>2. Cardinality({a, b}) <= Cardinality(homes)
      BY <3>1, FS_Subset, {a, b} \subseteq homes
    <3>3. IsFiniteSet({a}) /\ Cardinality({a}) = 1
      BY FS_Singleton
    <3>4. Cardinality({a, b}) = 2
      <4>1. {a, b} = {a} \cup {b} /\ b \notin {a}
        OBVIOUS
      <4>2. Cardinality({a} \cup {b}) = Cardinality({a}) + 1
        BY <3>3, <4>1, FS_AddElement
      <4> QED
        BY <3>3, <4>1, <4>2
    <3>5. Cardinality(homes) \in Nat
      BY <3>1, FS_CardinalityType
    <3> QED
      BY <3>2, <3>4, <3>5
  <2>2. Legacy \in Places /\ homes \subseteq Agents /\ at \in Agents \cup {Legacy}
    BY <1>1 DEF VaultInv, VaultTypeOK, Places
  <2>3. CASE at = Legacy
    BY <1>1, <2>2, <2>3 DEF VaultInv, LegacyInv, KeysOnDisk
  <2>4. CASE at \in Agents
    <3>1. HasKey(at, r.key) \/ Locked(at, r)
      BY <1>1, <2>1, <2>4 DEF VaultInv, KeysInv, VaultKeys
    <3> QED
      BY <2>2, <2>4, <3>1 DEF HasKey, KeysOnDisk
  <2> QED
    BY <2>2, <2>3, <2>4
<1> QED
  BY <1>1, VaultInvariance, PTL

\* No add that was reported a success is lost: not to another command, not to a
\* migration, not to a rotation, and to a restore or an import only when the
\* archive does not have it.
THEOREM AddsSurviveHolds == Spec => []AddsSurvive
<1>1. VaultInv => AddsSurvive
  BY DEF VaultInv
<1> QED
  BY <1>1, VaultInvariance, PTL

\* alf_vault_add: an add without update never makes a duplicate while the
\* mapping stays as it is, unless an import brings the other one back beside it.
THEOREM NoSilentDuplicatesHolds == Spec => []NoSilentDuplicates
<1>1. VaultInv => NoSilentDuplicates
  BY DEF VaultInv, ProcInv, GuardInv, NoSilentDuplicates, At
<1> QED
  BY <1>1, VaultInvariance, PTL

\* rotate-key: the key file that replaces the old one opens every record, but for
\* those that an import brings back beside the rotation.
THEOREM RotationLeavesOneKeyHolds == Spec => RotationLeavesOneKey
<1> DEFINE Leaves(p) ==
             pc[p] = "replace" /\ keyFile'[view[p].scope] # keyFile[view[p].scope] =>
               /\ pending'[view[p].scope] = "absent"
               /\ \A r \in vault'[view[p].scope] :
                    r.key = keyFile'[view[p].scope] \/ r \in returned'[view[p].scope]
<1>1. ASSUME VaultInv, [Next]_vars
      PROVE  [\A p \in Procs : Leaves(p)]_vars
  <2> SUFFICES ASSUME Next, NEW p \in Procs, pc[p] = "replace",
                      keyFile'[view[p].scope] # keyFile[view[p].scope]
               PROVE  /\ pending'[view[p].scope] = "absent"
                      /\ \A r \in vault'[view[p].scope] :
                           \/ r.key = keyFile'[view[p].scope]
                           \/ r \in returned'[view[p].scope]
    BY <1>1
  <2>1. lock[view[p].scope] = p /\ view[p].scope \in Places
    BY <1>1, InsideFacts DEF Inside
  <2>2. ~Remap /\ \A a \in Agents : ~Export(a) /\ ~Import(a)
    BY DEF Remap, Export, Import, files
  <2>3. PICK q \in Procs : ProcNext(q)
    BY <2>2 DEF Next, ProcNext
  <2>4. q = p
    <3>1. Frame(q)
      BY <1>1, <2>3, ProcGood DEF Good
    <3> QED
      BY <2>1, <3>1 DEF Frame
  <2>5. ~Fail(p)
    BY DEF Fail, files
  <2>6. ReplaceKey(p)
    <3>1. ~Migration(p)
      BY <2>5 DEF Migration, Start, Refused, TakeLegacyLock, TakeTargetLock, MoveVault, UnlinkVault,
                  MoveKey, UnlinkKey, NothingLeftToMove, DieCopying, At
    <3>2. ~Mutation(p)
      BY <2>5 DEF Mutation, TakeVaultLock, WaitEnds, Guard, Duplicate, ResolveKey, NoKey, ReadVault,
                  Unreadable, WriteAdd, WriteDelete, NothingToDelete, At
    <3>3. ~DieWritingKey(p) /\ ~Die(p)
      BY <2>5 DEF DieWritingKey, Die, At
    <3> QED
      BY <2>3, <2>4, <3>1, <3>2, <3>3
         DEF ProcNext, Rotation, Recover, Check, RotateFails, StageKey, Rewrite, At
  <2> QED
    BY <1>1, <2>6, ReplaceKeyFacts
<1> QED
  BY <1>1, VaultInvariance, PTL DEF Spec, RotationLeavesOneKey

=============================================================================
