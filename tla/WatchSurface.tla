---------------------------- MODULE WatchSurface ----------------------------
(***************************************************************************)
(* What the watch loop of each runtime watches beside what its export      *)
(* packs (adapter-*/src/watch.rs and export.rs, alf-core/src/adapter.rs,   *)
(* alf-cli/src/commands/mcp/watch/{mod,rescan}.rs).                        *)
(*                                                                         *)
(* A file is one path of its kind, its content a version; a control file's *)
(* content is what it says. WatchLoop has the loop's timing, locks and     *)
(* lost events: here every event of a watched path arrives, at any time,   *)
(* a rescan reads everything and a sync is one step.                       *)
(* A definition called Faulty... is the one after it with a plausible bug. *)
(***************************************************************************)
EXTENDS Naturals, FiniteSets, SequencesExt

CONSTANTS
  Runtimes,  \* of "openclaw", "hermes", "zeroclaw", "generic"
  Lists,     \* include lists somebody may write, see Entries
  MaxEdits   \* bound: writes of the agent or the user

ASSUME SurfaceAssumption ==
  /\ Runtimes \subseteq {"openclaw", "hermes", "zeroclaw", "generic"}
  /\ MaxEdits \in Nat

-----------------------------------------------------------------------------
(***************************************************************************)
(* The disk                                                                *)
(***************************************************************************)
Workspace == <<"ws">>
Content   == <<"ws", "content">>  \* memory/, skills/, ...: a directory the runtime owns
Skills    == <<"ws", "skills">>

Soul      == <<"ws", "SOUL.md">>
Note      == <<"ws", "content", "note.md">>
Scattered == <<"ws", "elsewhere", "plan.md">>
Skill     == <<"ws", "skills", "mine", "SKILL.md">>
Other     == <<"ws", "elsewhere", "data.json">>
Vcs       == <<"ws", ".git", "description.md">>
Store     == <<"ws", "data", "store">>      \* brain.db, state.db, a database of the map
StoreLog  == <<"ws", "data", "store-wal">>
OldStore  == <<"ws", "content", "store">>   \* where older ZeroClaws keep brain.db
Outside   == <<"home", "outside">>
Secrets   == <<"alf", "vault", "credentials">>

IncludeFile == <<"ws", ".alf-include.json">>
SyncLog     == <<"ws", ".alf-sync-log.md">>
IgnoreFile  == <<"ws", ".alfignore">>
RulesFile   == <<"ws", "rules">>            \* .alf-map.json, config.toml, config.yaml
AgentSet    == <<"home", "openclaw.json">>

Plain == {Soul, Note, Skill, Scattered, Other, Vcs, Store, StoreLog, OldStore, Outside, Secrets, AgentSet}
Markdown == {Soul, Note, Skill, Scattered, Vcs}

Absent == 0
Versions == 0..2

Under(path, root) == IsPrefix(root, path)

\* An entry of the include list: a file of the workspace, or one outside it that
\* this host has approved or not.
Entry(path, kind) == [path |-> path, kind |-> kind]
Entries == {Entry(Note, "inside"), Entry(Other, "inside"),
            Entry(Outside, "verified"), Entry(Outside, "inert")}

ASSUME ListsAssumption == Lists \subseteq SUBSET Entries

\* What the map or the configuration declares: memory sources and an identity.
Rules(sources, identity, valid) == [sources |-> sources, identity |-> identity, valid |-> valid]
Nowhere == <<>>

RulesOf(runtime) ==
  CASE runtime = "generic" ->
         {Rules({"notes", "store"}, Scattered, TRUE), Rules({"notes"}, Nowhere, TRUE),
          Rules({}, Nowhere, FALSE)}
    [] runtime = "zeroclaw" ->
         {Rules({}, identity, TRUE) : identity \in {Nowhere, Scattered, Outside}}
    [] OTHER -> {Rules({}, Nowhere, TRUE)}

VARIABLES
  runtime,
  disk,      \* per path: its content
  base,      \* what the last sync exported, see Image
  surface,   \* the specs the loop watches
  pending,   \* paths of events the loop has not read
  refresh,   \* the one-shot request for a refresh of the surface
  dirty,     \* ids of the sources with a change that is not synced
  scanned,   \* the disk at the last rescan, which the fingerprints are of
  due,       \* this tick goes on to a sync
  touched,   \* history: kinds of writes since a sync left nothing to notice
  left       \* what remains of MaxEdits

vars == <<runtime, disk, base, surface, pending, refresh, dirty, scanned, due, touched, left>>

Ids(specs) == {spec.id : spec \in specs}

Contents(path) ==
  CASE path = IncludeFile -> SUBSET Entries
    [] path = RulesFile   -> RulesOf(runtime)
    [] path = IgnoreFile  -> {{}, {Note}}
    [] OTHER              -> Versions

Paths == Plain \cup {IncludeFile, SyncLog, IgnoreFile, RulesFile}

SurfaceTypeOK ==
  /\ \A path \in Paths : disk[path] \in Contents(path)
  /\ DOMAIN disk = Paths /\ DOMAIN scanned = Paths
  /\ pending \subseteq Paths /\ refresh \in BOOLEAN /\ due \in BOOLEAN
  /\ \A one, two \in surface : one.id = two.id => one = two
  /\ dirty \subseteq Ids(surface)
  /\ touched \subseteq {"plain", "tracked"}
  /\ left \in 0..MaxEdits

-----------------------------------------------------------------------------
(***************************************************************************)
(* What an export packs                                                    *)
(***************************************************************************)
Present(d) == {path \in Plain : d[path] # Absent}

PresentUnder(d, root) == {path \in Present(d) : Under(path, root)}

Kept(d, files) == (files \cap Present(d)) \ d[IgnoreFile]

Inside(d) == {e.path : e \in {e \in d[IncludeFile] : e.kind = "inside"}}

\* Entries outside the workspace, as far as this host has approved them.
Verified(d) == {e.path : e \in {e \in d[IncludeFile] : e.kind = "verified"}}

\* The list and the log travel with every archive.
Sentinels(d) == {IncludeFile} \cup {path \in {SyncLog} : d[path] # Absent}

\* Raw files: what the agent keeps in its directory, every Markdown file of the
\* workspace but for version control, and the tracked files.
OpenClawRaw(d) ==
  LET scattered == {path \in PresentUnder(d, Workspace) \cap Markdown :
                      \A i \in DOMAIN path : path[i] # ".git"}
  IN Kept(d, PresentUnder(d, Content) \cup scattered \cup Inside(d)) \cup Sentinels(d)

\* The layers are read from their files, ignored or not.
OpenClawLayers(d) == {Soul, Note, Secrets} \cap Present(d)

HermesRaw(d) ==
  Kept(d, {Soul} \cup PresentUnder(d, Content) \cup Inside(d))
  \cup (Verified(d) \cap Present(d)) \cup {RulesFile} \cup Sentinels(d)

\* Sessions come from the store and its log, skills are artifacts.
HermesLayers(d) == {Soul, Note, Secrets, Store, StoreLog, Skill} \cap Present(d)

\* The canonical store, else an older one.
ResolvedStore(d) == IF d[Store] = Absent /\ d[OldStore] # Absent THEN OldStore ELSE Store

Sidecars(store) == IF store = Store THEN {StoreLog} ELSE {}

ZeroClawRaw(d) ==
  Kept(d, {Soul} \cup PresentUnder(d, Content) \cup Inside(d))
  \cup ({d[RulesFile].identity} \cap Present(d)) \cup {RulesFile} \cup Sentinels(d)

\* One store, with its log; without one the Markdown files.
ZeroClawLayers(d) ==
  LET store == ResolvedStore(d)
      memory == IF d[store] # Absent THEN {store} \cup Sidecars(store) ELSE {Note}
  IN ({Soul, Secrets, d[RulesFile].identity} \cup memory) \cap Present(d)

\* The files the sources of the map match, its identity and the tracked files. A
\* store takes its log along.
GenericRaw(d) ==
  LET rules == d[RulesFile]
      matched == Kept(d, (IF "notes" \in rules.sources THEN PresentUnder(d, Content) ELSE {})
                         \cup (IF "store" \in rules.sources THEN {Store} ELSE {}))
      more == (IF Store \in matched THEN {StoreLog} ELSE {}) \cup {rules.identity} \cup Verified(d)
  IN matched \cup (more \cap Present(d)) \cup Kept(d, Inside(d)) \cup {RulesFile} \cup Sentinels(d)

GenericLayers(d) == {Secrets} \cap Present(d)

Raw(d) ==
  CASE runtime = "openclaw" -> OpenClawRaw(d)
    [] runtime = "hermes"   -> HermesRaw(d)
    [] runtime = "zeroclaw" -> ZeroClawRaw(d)
    [] runtime = "generic"  -> GenericRaw(d)

Layers(d) ==
  CASE runtime = "openclaw" -> OpenClawLayers(d)
    [] runtime = "hermes"   -> HermesLayers(d)
    [] runtime = "zeroclaw" -> ZeroClawLayers(d)
    [] runtime = "generic"  -> GenericLayers(d)

\* An archive, as far as it depends on files.
Image(d) == [raw |-> [path \in Raw(d) |-> d[path]], layers |-> [path \in Layers(d) |-> d[path]]]

\* A map that does not validate is not exported by.
Exportable(d) == d[RulesFile].valid

-----------------------------------------------------------------------------
(***************************************************************************)
(* What the loop watches                                                   *)
(***************************************************************************)
FileSpec(id, roots) ==
  [id |-> id, roots |-> roots, exclude |-> {}, recursive |-> FALSE, tracked |-> FALSE, resurface |-> FALSE]

DirSpec(id, root) == [FileSpec(id, {root}) EXCEPT !.recursive = TRUE]

Resurfacing(spec) == [spec EXCEPT !.resurface = TRUE]

Git(root) == Append(root, ".git")

Excluding(spec, paths) == [spec EXCEPT !.exclude = @ \cup paths]

TrackedSource(roots) ==
  IF roots = {} THEN {} ELSE {[FileSpec("tracked-files", roots) EXCEPT !.tracked = TRUE]}

TrackedControls ==
  [Resurfacing(FileSpec("tracked-controls", {IncludeFile, SyncLog})) EXCEPT !.tracked = TRUE]

ExportControls(roots) == FileSpec("export-controls", roots)

\* Under an older store's directory there is no log of its own.
Trio(store) == {store} \cup Sidecars(store)

FaultyOpenClawWatch(d) ==  \* the workspace keeps what has a source of its own
  {Excluding(DirSpec("workspace", Workspace), {Git(Workspace)})}
  \cup {Resurfacing(spec) : spec \in TrackedSource(Inside(d))}
  \cup {TrackedControls, ExportControls({IgnoreFile}), Resurfacing(FileSpec("openclaw-config", {AgentSet}))}

\* The whole workspace, but for what has a source of its own.
OpenClawWatch(d) ==
  LET special == TrackedSource(Inside(d)) \cup {TrackedControls, ExportControls({IgnoreFile})}
      own == UNION {spec.roots : spec \in special}
  IN {Excluding(DirSpec("workspace", Workspace), {Git(Workspace)} \cup own)}
     \cup {[spec EXCEPT !.resurface = @ \/ spec.id = "tracked-files"] : spec \in special}
     \cup {Resurfacing(FileSpec("openclaw-config", {AgentSet}))}

HermesWatch(d) ==
  {FileSpec("root-files", {Soul})}
  \cup {Resurfacing(Excluding(DirSpec(dir[2], dir), {Git(dir)})) : dir \in {Content, Skills}}
  \cup {FileSpec("state.db", Trio(Store)), Resurfacing(FileSpec("config", {RulesFile}))}
  \cup TrackedSource(Inside(d) \cup Verified(d))
  \cup {TrackedControls, ExportControls({IgnoreFile})}

ZeroClawWatch(d) ==
  LET identity == d[RulesFile].identity
  IN {FileSpec("brain.db", Trio(ResolvedStore(d))), FileSpec("root-files", {Soul})}
     \cup {Resurfacing(Excluding(DirSpec("memory", Content), {Git(Content)}))}
     \cup {Resurfacing(FileSpec("config", {RulesFile}))}
     \cup (IF identity = Nowhere THEN {} ELSE {FileSpec("identity", {identity})})
     \cup TrackedSource(Inside(d))
     \cup {TrackedControls, ExportControls({IgnoreFile})}

FaultySourceSpec(source) ==  \* a database without its log
  IF source = "store" THEN FileSpec(source, {Store})
  ELSE Excluding(DirSpec(source, Content), {Git(Content)})

\* A glob's directory, or a database with its log.
SourceSpec(source) ==
  IF source = "store" THEN FileSpec(source, Trio(Store))
  ELSE Excluding(DirSpec(source, Content), {Git(Content)})

\* Without a usable map, the whole workspace.
GenericWatch(d) ==
  LET rules == d[RulesFile]
  IN (IF rules.valid
      THEN {SourceSpec(source) : source \in rules.sources}
           \cup (IF rules.identity = Nowhere THEN {} ELSE {FileSpec("identity", {rules.identity})})
      ELSE {Excluding(DirSpec("workspace", Workspace), {Git(Workspace)})})
     \cup TrackedSource(Inside(d) \cup Verified(d))
     \cup {TrackedControls, Resurfacing(ExportControls({RulesFile, IgnoreFile}))}

WatchPaths(d) ==
  CASE runtime = "openclaw" -> OpenClawWatch(d)
    [] runtime = "hermes"   -> HermesWatch(d)
    [] runtime = "zeroclaw" -> ZeroClawWatch(d)
    [] runtime = "generic"  -> GenericWatch(d)

\* Every runtime's archive has the vault, which no adapter watches.
ComputeSurface(d) == WatchPaths(d) \cup {DirSpec("agent-vault", Front(Secrets))}

Covers(spec, root, path) ==
  /\ IF spec.recursive THEN Under(path, root) ELSE path = root
  /\ \A out \in spec.exclude : ~Under(path, out)

\* The one source an event dirties: the deepest root, then a file, then a
\* tracked source. (The last resort, the smaller id, is never needed here.)
IdsFor(specs, path) ==
  LET Rank(spec, root) ==
        4 * Len(root) + (IF spec.recursive THEN 0 ELSE 2) + (IF spec.tracked THEN 1 ELSE 0)
      matching == UNION {{[id |-> spec.id, rank |-> Rank(spec, root)] :
                            root \in {root \in spec.roots : Covers(spec, root, path)}} : spec \in specs}
  IN {m.id : m \in {m \in matching : \A other \in matching : other.rank <= m.rank}}

Watched(specs, path) == IdsFor(specs, path) # {}

\* The fingerprints of a source, which are of every path below its roots, present or
\* missing.
FingerprintsDiffer(spec, one, other) ==
  \E path \in Paths :
    one[path] # other[path] /\ \E root \in spec.roots : Covers(spec, root, path)

-----------------------------------------------------------------------------
(***************************************************************************)
(* The loop                                                                *)
(***************************************************************************)
\* ZeroClaw's store is at its older place or at the canonical one.
SomeAbsent ==
  CASE runtime = "zeroclaw" -> {{Store, StoreLog}, {OldStore}}
    [] OTHER                -> {{OldStore}}

\* After the catch-up sync, to which every source starts dirty (mark_all_dirty).
Init ==
  /\ runtime \in Runtimes
  /\ \E list \in Lists, rules \in RulesOf(runtime), absent \in SomeAbsent :
       /\ rules.valid /\ (runtime = "zeroclaw" => rules.identity = Scattered)
       /\ disk = [path \in Paths |->
                    CASE path = IncludeFile -> list
                      [] path = RulesFile   -> rules
                      [] path = IgnoreFile  -> {}
                      [] path \in absent \cup {SyncLog} -> Absent
                      [] OTHER -> 1]
  /\ base = Image(disk)
  /\ surface = ComputeSurface(disk)
  /\ pending = {} /\ refresh = FALSE /\ dirty = {}
  /\ scanned = disk /\ due = FALSE
  /\ touched = {}
  /\ left = MaxEdits

\* A write of a tracked file, or of a control of the tracked files, rolls the
\* archive over. Not so what is also a source of its own: a file in a directory
\* that is scanned, an identity; nor OpenClaw's list, which moves files into its
\* workspace source or out of it.
Kind(path) ==
  LET packs == Inside(disk) \cup (IF runtime \in {"hermes", "generic"} THEN Verified(disk) ELSE {})
      own == {disk[RulesFile].identity} \cup {file \in Plain : Under(file, Content)}
  IN IF \/ path = SyncLog
        \/ path = IncludeFile /\ runtime # "openclaw"
        \/ path \in packs \ (IF runtime = "openclaw" THEN {} ELSE own)
     THEN "tracked" ELSE "plain"

\* The user or the agent writes, creates or removes a file.
Write(path, content) ==
  /\ left > 0 /\ disk[path] # content
  /\ left' = left - 1
  /\ disk' = [disk EXCEPT ![path] = content]
  /\ pending' = pending \cup {p \in {path} : Watched(surface, p)}
  /\ touched' = touched \cup {Kind(path)}
  /\ UNCHANGED <<runtime, base, surface, refresh, dirty, scanned, due>>

\* What is written: files the runtime has a use for, and its lists and rules.
NewContents(path) ==
  CASE path = IncludeFile -> Lists
    [] path = SyncLog     -> {}
    [] path \in {Vcs, AgentSet} /\ runtime # "openclaw" -> {}
    [] path = Skill /\ runtime # "hermes" -> {}
    [] path \in {Scattered, OldStore} /\ runtime = "hermes" -> {}
    [] path \in {Store, StoreLog, OldStore, Outside} /\ runtime = "openclaw" -> {}
    [] path \in {Soul, OldStore} /\ runtime = "generic" -> {}
    [] OTHER -> Contents(path)

Resurfaces(specs, ids) == \E spec \in specs : spec.id \in ids /\ spec.resurface

\* An event of the channel: by the surface of now, not of when it happened.
Drain(path) ==
  /\ ~due /\ path \in pending
  /\ pending' = pending \ {path}
  /\ dirty' = dirty \cup IdsFor(surface, path)
  /\ refresh' = (refresh \/ Resurfaces(surface, IdsFor(surface, path)))
  /\ UNCHANGED <<runtime, disk, base, surface, scanned, due, touched, left>>

FaultyRedefined(old, new) == Ids(new)  \* every source, at every refresh

\* Sources that are new or defined in another way (reconcile).
Redefined(old, new) == Ids(new \ old)

\* A tick: the refresh when somebody asked for one, the rescan, and run_due,
\* which may find a source due. Until its sync is over no event is read.
Tick ==
  LET now == IF refresh THEN ComputeSurface(disk) ELSE surface
      news == (IF refresh THEN Redefined(surface, now) ELSE {})
              \cup {spec.id : spec \in {spec \in now \cap surface :
                                          FingerprintsDiffer(spec, disk, scanned)}}
  IN /\ ~due
     /\ surface' = now
     /\ dirty' = (dirty \cap Ids(now)) \cup news
     /\ refresh' = Resurfaces(now, news)
     /\ scanned' = disk
     /\ due' \in {FALSE, dirty' # {}}
     /\ UNCHANGED <<runtime, disk, base, pending, touched, left>>

\* The disk after the prune of what is listed and gone.
Pruned ==
  LET gone == {e \in disk[IncludeFile] : e.kind = "inside" /\ disk[e.path] = Absent}
  IN IF gone = {} THEN disk
     ELSE [disk EXCEPT ![IncludeFile] = @ \ gone, ![SyncLog] = IF @ = 1 THEN 2 ELSE 1]

Quiet == pending = {} /\ ~refresh /\ scanned = disk /\ surface = ComputeSurface(disk)

Rewritten ==
  LET after == Pruned
  IN {path \in {IncludeFile, SyncLog} : after[path] # disk[path]}

\* A sync prunes and exports; with a map that does not validate it fails.
Exported ==
  /\ disk' = Pruned
  /\ pending' = pending \cup {path \in Rewritten : Watched(surface, path)}
  /\ base' = IF Exportable(disk') THEN Image(disk') ELSE base
  /\ UNCHANGED <<runtime, surface, refresh, scanned, left>>

Sync ==
  /\ due /\ due' = FALSE
  /\ Exported
  /\ dirty' = IF Exportable(disk') THEN {} ELSE dirty
  /\ touched' = IF Quiet /\ Rewritten = {} /\ Exportable(disk) THEN {}
                ELSE touched \cup {Kind(path) : path \in Rewritten}

\* alf sync, alf_sync: what is dirty stays so (note_manual_sync_ok).
ManualSync ==
  /\ Exported
  /\ touched' = touched \cup {Kind(path) : path \in Rewritten}
  /\ UNCHANGED <<dirty, due>>

SomeWrite == \E path \in Paths : \E content \in NewContents(path) : Write(path, content)
SomeDrain == \E path \in pending : Drain(path)

Next == SomeWrite \/ SomeDrain \/ Tick \/ Sync \/ ManualSync

Spec == Init /\ [][Next]_vars

-----------------------------------------------------------------------------
(***************************************************************************)
(* Properties                                                              *)
(***************************************************************************)
\* A store at a place ZeroClaw prefers to the one it watches is not seen until
\* the next refresh, nor that it has gone again.
StoreIsWatched ==
  \A spec \in surface : spec.id = "brain.db" =>
    /\ spec.roots = Trio(ResolvedStore(disk))
    /\ DOMAIN base.layers \cap {Store, OldStore} \subseteq spec.roots

\* Whatever an export would pack differently from the last one, the loop knows of
\* or has an event of: each adapter's watch_paths covers what its export reads,
\* through every change of the include list, the map and the configuration.
ExportsAreWatched ==
  (Exportable(disk) /\ StoreIsWatched /\ Image(disk) # base)
    => (dirty # {} \/ \E path \in pending : Watched(surface, path))

\* As long as only tracked files change, only tracked sources are dirty, so that
\* the snapshot each change costs waits for the tracked interval (RF-010).
TrackedEditsKeepCadence ==
  touched \subseteq {"tracked"} => \A spec \in surface : spec.id \in dirty => spec.tracked

\* Refreshes come to an end: one that finds the surface as it was, and no new
\* change below it, asks for no other, so a loop at rest stays at rest.
RefreshesSettle ==
  [][(refresh /\ scanned = disk /\ surface = ComputeSurface(disk) /\ Tick) => ~refresh']_vars
=============================================================================
