---------------------------- MODULE TrackedFiles ----------------------------
(***************************************************************************)
(* What a workspace holds and what its archive holds of it: the files a    *)
(* runtime captures, those an agent tracks with `alf add`, the external    *)
(* files a user consents to, the skills and sessions of Hermes             *)
(* (alf-core/src/include.rs, alf-cli/src/commands/add.rs, the export and   *)
(* import of the generic, the Hermes and the OpenClaw adapter, the diff of *)
(* trees in sync.rs).                                                      *)
(*                                                                         *)
(* A host runs one sync, restore or import at a time and one add beside    *)
(* it; any of them may be killed.  The protocol with the service is        *)
(* AlfSync: here an upload and what it persists are one step.              *)
(* A definition called Faulty... is the one after it with a plausible bug. *)
(***************************************************************************)
EXTENDS Naturals, FiniteSets

CONSTANTS
  Hosts,
  Sources,    \* files the runtime captures by itself
  Notes,      \* other files of the workspace
  Externals,  \* files outside of it
  Texts,      \* contents of a file, of the skills, of the sessions
  Gone,
  Nothing,
  MaxEdits, MaxJobs, MaxKills   \* bounds

Files == Sources \cup Notes
Contents == Texts \cup {Gone}
Runtimes == {"generic", "hermes", "openclaw"}

\* .alf-include.json: the tracked files, and the state of each external entry.
Lists == [tracked : SUBSET Files, external : [Externals -> {"none", "verified", "inert"}]]

NoList == [tracked |-> {}, external |-> [x \in Externals |-> "none"]]

\* raw: the tree, without its two sentinels, the list and the log.
Archives == [raw : [Files -> Contents], list : Lists, log : SUBSET Files,
             packed : SUBSET Externals, skills : Contents, sessions : Contents]

ASSUME TrackedAssumption ==
  /\ Sources \cap Notes = {} /\ Files \cap Externals = {}
  /\ {"list", "log"} \cap (Files \cup Externals) = {}
  /\ Texts # {} /\ Gone \notin Texts /\ Nothing \notin Archives
  /\ {MaxEdits, MaxJobs, MaxKills} \subseteq Nat

VARIABLES
  runtime,
  file,      \* per host
  skills, sessions,
  list,      \* per host: .alf-include.json
  log,       \* per host: the files that .alf-sync-log.md names
  blessed,   \* hosts whose user has allowed the root of the externals
  job,       \* per host: its sync, restore or import
  adding,    \* per host: its add
  lock,      \* per host: who holds .alf-include.lock
  marker,    \* hosts with a restore in flight
  base, cursor,   \* per host
  head, version,  \* of the service
  acked,     \* history, per host: adds reported, no restore has replaced their trace
  unnoted,   \* history, per host: files a killed prune took off the list without a note
  consent,   \* history, per host: externals its user has added since a restore
  crossed,   \* history: hosts where an add ran beside an import
  fresh,     \* history: hosts that hold what was restored and nothing else
  edits, jobs, kills   \* history: how many there were

disk == <<file, skills, sessions>>
past == <<acked, unnoted, consent, crossed, fresh>>
bounds == <<edits, jobs, kills>>
vars == <<runtime, disk, list, log, blessed, job, adding, lock, marker, base, cursor,
          head, version, past, bounds>>

JobSteps == {"idle", "prune_save", "prune_log", "collect", "pack", "upload",
             "unpack", "inert_save", "sessions", "skills", "done"}

NoJob == [step |-> "idle", kind |-> "sync", list |-> NoList, names |-> {}, archive |-> Nothing, seq |-> 0]

NoAdd == [step |-> "idle", file |-> Nothing, list |-> NoList]

TrackedTypeOK ==
  /\ runtime \in Runtimes
  /\ file \in [Hosts -> [Files -> Contents]]
  /\ skills \in [Hosts -> Contents] /\ sessions \in [Hosts -> Contents]
  /\ list \in [Hosts -> Lists] /\ log \in [Hosts -> SUBSET Files]
  /\ blessed \subseteq Hosts /\ marker \subseteq Hosts
  /\ lock \in [Hosts -> {"job", "add", "nobody"}]
  /\ \A h \in Hosts :
       /\ job[h].step \in JobSteps /\ job[h].list \in Lists
       /\ adding[h].step \in {"idle", "save"} /\ adding[h].list \in Lists
       /\ base[h] = Nothing \/ base[h] \in Archives
       /\ cursor[h] <= version
       /\ lock[h] = "job" => job[h].step \in {"prune_save", "prune_log"}
       /\ lock[h] = "add" <=> adding[h].step = "save"
       /\ job[h].step = "idle" => job[h] = NoJob
  /\ head = Nothing <=> version = 0

\* One host has a workspace and tracks its notes, the others are new machines.
Init ==
  /\ runtime \in Runtimes
  /\ \E h \in Hosts, f \in [Files -> {CHOOSE t \in Texts : TRUE, Gone}] :
       /\ file = [g \in Hosts |-> IF g = h THEN f ELSE [x \in Files |-> Gone]]
       /\ list = [g \in Hosts |-> IF g # h THEN NoList
                                  ELSE [NoList EXCEPT !.tracked = {n \in Notes : f[n] # Gone}]]
  /\ skills = [h \in Hosts |-> Gone] /\ sessions = [h \in Hosts |-> Gone]
  /\ log = [h \in Hosts |-> {}]
  /\ blessed = {} /\ marker = {}
  /\ job = [h \in Hosts |-> NoJob] /\ adding = [h \in Hosts |-> NoAdd]
  /\ lock = [h \in Hosts |-> "nobody"]
  /\ base = [h \in Hosts |-> Nothing] /\ cursor = [h \in Hosts |-> 0]
  /\ head = Nothing /\ version = 0
  /\ acked = [h \in Hosts |-> {}] /\ unnoted = [h \in Hosts |-> {}]
  /\ consent = [h \in Hosts |-> {}]
  /\ crossed = {} /\ fresh = {}
  /\ edits = 0 /\ jobs = 0 /\ kills = 0

-----------------------------------------------------------------------------
(***************************************************************************)
(* The agent and its user                                                  *)
(***************************************************************************)
Edited(h) ==
  /\ edits < MaxEdits /\ edits' = edits + 1
  /\ fresh' = fresh \ {h}
  /\ UNCHANGED <<runtime, list, log, blessed, job, adding, lock, marker, base, cursor, head,
                 version, acked, unnoted, consent, crossed, jobs, kills>>

EditFile(h) ==
  /\ \E f \in Files, c \in Contents :
       /\ c # file[h][f]
       /\ file' = [file EXCEPT ![h][f] = c]
  /\ Edited(h)
  /\ UNCHANGED <<skills, sessions>>

EditSkills(h) ==
  /\ runtime = "hermes"
  /\ \E c \in Contents \ {skills[h]} : skills' = [skills EXCEPT ![h] = c]
  /\ Edited(h)
  /\ UNCHANGED <<file, sessions>>

Converse(h) ==
  /\ runtime = "hermes"
  /\ \E c \in Texts \ {sessions[h]} : sessions' = [sessions EXCEPT ![h] = c]
  /\ Edited(h)
  /\ UNCHANGED <<file, skills>>

-----------------------------------------------------------------------------
(***************************************************************************)
(* alf add, alf_track                                                      *)
(***************************************************************************)
\* An external is refused by runtimes that do not pack them.
MayAdd(h, f) == IF f \in Externals THEN runtime # "openclaw" ELSE file[h][f] # Gone

Importing(h) == job[h].step \in {"unpack", "inert_save"}

\* The list is read and written under its lock. The root of an external is
\* allowed by the same command, `alf add --allow-root`.
AddFile(h, f) ==
  /\ adding[h].step = "idle" /\ lock[h] = "nobody"
  /\ MayAdd(h, f)
  /\ edits < MaxEdits /\ edits' = edits + 1
  /\ lock' = [lock EXCEPT ![h] = "add"]
  /\ adding' = [adding EXCEPT ![h] = [step |-> "save", file |-> f, list |-> list[h]]]
  /\ blessed' = IF f \in Externals THEN blessed \cup {h} ELSE blessed
  /\ crossed' = IF Importing(h) THEN crossed \cup {h} ELSE crossed
  /\ fresh' = fresh \ {h}
  /\ UNCHANGED <<runtime, disk, list, log, job, marker, base, cursor, head, version,
                 acked, unnoted, consent, jobs, kills>>

\* IncludeList::add, add_external: an entry that is there is left as it is.
Added(old, f) ==
  IF f \in Externals
  THEN IF old.external[f] = "none" THEN [old EXCEPT !.external[f] = "verified"] ELSE old
  ELSE [old EXCEPT !.tracked = @ \cup {f}]

AddSave(h) ==
  LET f == adding[h].file
      new == Added(adding[h].list, f)
  IN /\ adding[h].step = "save"
     /\ list' = IF new # adding[h].list THEN [list EXCEPT ![h] = new] ELSE list
     /\ acked' = IF f \in Files THEN [acked EXCEPT ![h] = @ \cup {f}] ELSE acked
     /\ unnoted' = [unnoted EXCEPT ![h] = @ \ {f}]
     /\ consent' = IF f \in Externals THEN [consent EXCEPT ![h] = @ \cup {f}] ELSE consent
     /\ lock' = [lock EXCEPT ![h] = "nobody"]
     /\ adding' = [adding EXCEPT ![h] = NoAdd]
     /\ UNCHANGED <<runtime, disk, log, blessed, job, marker, base, cursor, head, version,
                    crossed, fresh, bounds>>

-----------------------------------------------------------------------------
(***************************************************************************)
(* Sync: prune, export, upload                                             *)
(***************************************************************************)
Step(h, step) == job' = [job EXCEPT ![h].step = step]
EndJob(h) == job' = [job EXCEPT ![h] = NoJob]

Untouched == UNCHANGED <<runtime, blessed, adding, version, head, edits, kills>>

Missing(h) == {f \in list[h].tracked : file[h][f] = Gone}

\* What pruning starts with: the tracked files that have gone, if any.
Pruning(h) ==
  IF Missing(h) = {}
  THEN [NoJob EXCEPT !.step = "collect"]
  ELSE [NoJob EXCEPT !.step = "prune_save", !.list = list[h], !.names = Missing(h)]

FaultySync(h) ==  \* prunes without the lock
  /\ job[h].step = "idle" /\ h \notin marker
  /\ jobs < MaxJobs /\ jobs' = jobs + 1
  /\ job' = [job EXCEPT ![h] = Pruning(h)]
  /\ UNCHANGED <<disk, list, log, lock, marker, base, cursor, past>> /\ Untouched

\* A sync first prunes the list, under its lock (prune_and_log_missing).
Sync(h) ==
  /\ job[h].step = "idle" /\ h \notin marker /\ lock[h] = "nobody"
  /\ jobs < MaxJobs /\ jobs' = jobs + 1
  /\ job' = [job EXCEPT ![h] = Pruning(h)]
  /\ lock' = IF Missing(h) = {} THEN lock ELSE [lock EXCEPT ![h] = "job"]
  /\ UNCHANGED <<disk, list, log, marker, base, cursor, past>> /\ Untouched

PruneSave(h) ==
  /\ job[h].step = "prune_save"
  /\ list' = [list EXCEPT ![h] = [job[h].list EXCEPT !.tracked = @ \ job[h].names]]
  /\ Step(h, "prune_log")
  /\ UNCHANGED <<disk, log, lock, marker, base, cursor, past, jobs>> /\ Untouched

PruneLog(h) ==
  /\ job[h].step = "prune_log"
  /\ log' = [log EXCEPT ![h] = @ \cup job[h].names]
  /\ lock' = [lock EXCEPT ![h] = "nobody"]
  /\ Step(h, "collect")
  /\ UNCHANGED <<disk, list, marker, base, cursor, past, jobs>> /\ Untouched

\* What the export of each runtime decides to pack.
Tracked(h) == {f \in Files : f \in Sources \cup list[h].tracked /\ file[h][f] # Gone}

\* external_entries_for_export: inert and rejected entries are skipped.
Packable(h) ==
  {x \in Externals : list[h].external[x] = "verified" /\ h \in blessed}

GenericNames(h) == Tracked(h) \cup Packable(h)
HermesNames(h) == Tracked(h) \cup Packable(h)
OpenClawNames(h) == Tracked(h)

Names(h) ==
  CASE runtime = "generic"  -> GenericNames(h)
    [] runtime = "hermes"   -> HermesNames(h)
    [] runtime = "openclaw" -> OpenClawNames(h)

Collect(h) ==
  /\ job[h].step = "collect"
  /\ job' = [job EXCEPT ![h] = [@ EXCEPT !.step = "pack", !.names = Names(h)]]
  /\ UNCHANGED <<disk, list, log, lock, marker, base, cursor, past, jobs>> /\ Untouched

Packed(h, names) ==
  [raw |-> [f \in Files |-> IF f \in names THEN file[h][f] ELSE Gone],
   list |-> list[h], log |-> log[h], packed |-> names \cap Externals,
   skills |-> skills[h], sessions |-> sessions[h]]

\* The files are read after they were chosen, the sentinels with them.
Pack(h) ==
  /\ job[h].step = "pack"
  /\ \A f \in job[h].names \cap Files : file[h][f] # Gone
  /\ job' = [job EXCEPT ![h] = [@ EXCEPT !.step = "upload", !.archive = Packed(h, job[h].names)]]
  /\ UNCHANGED <<disk, list, log, lock, marker, base, cursor, past, jobs>> /\ Untouched

PackFails(h) ==
  /\ job[h].step = "pack"
  /\ \E f \in job[h].names \cap Files : file[h][f] = Gone
  /\ EndJob(h)
  /\ UNCHANGED <<disk, list, log, lock, marker, base, cursor, past, jobs>> /\ Untouched

\* read_tracked_map
TrackedMap(archive) ==
  <<archive.list, archive.log, [f \in archive.list.tracked |-> archive.raw[f]]>>

TrackedFilesChanged(prev, curr) == TrackedMap(prev) # TrackedMap(curr)

FaultyDiffRawTrees(prev, curr) ==  \* a file that has gone is not mentioned
  {f \in Files : prev.raw[f] # curr.raw[f] /\ curr.raw[f] # Gone}

DiffRawTrees(prev, curr) == {f \in Files : prev.raw[f] # curr.raw[f]}

\* What rebuild_snapshot makes of the head and a delta: the layers and the tree
\* of the delta, the artifacts of the snapshot.
Rebuilt(prev, curr) ==
  [head EXCEPT !.raw = [f \in Files |-> IF f \in DiffRawTrees(prev, curr) THEN curr.raw[f] ELSE head.raw[f]],
               !.packed = curr.packed, !.sessions = curr.sessions]

NoDelta(prev, curr) ==
  DiffRawTrees(prev, curr) = {} /\ prev.packed = curr.packed /\ prev.sessions = curr.sessions

Uploaded(h, archive) ==
  /\ head' = archive
  /\ version' = version + 1
  /\ base' = [base EXCEPT ![h] = job[h].archive]
  /\ cursor' = [cursor EXCEPT ![h] = version + 1]

\* execute_first_sync, execute_delta: a change of the tracked set uploads a
\* snapshot, which no sequence guards.
Upload(h) ==
  LET curr == job[h].archive
  IN /\ job[h].step = "upload"
     /\ EndJob(h)
     /\ CASE base[h] = Nothing ->
               IF head = Nothing THEN Uploaded(h, curr) ELSE UNCHANGED <<head, version, base, cursor>>
          [] base[h] # Nothing /\ TrackedFilesChanged(base[h], curr) ->
               Uploaded(h, curr)
          [] base[h] # Nothing /\ ~TrackedFilesChanged(base[h], curr) ->
               IF cursor[h] = version /\ ~NoDelta(base[h], curr)
               THEN Uploaded(h, Rebuilt(base[h], curr))
               ELSE UNCHANGED <<head, version, base, cursor>>
     /\ UNCHANGED <<runtime, disk, list, log, blessed, adding, lock, marker, past, bounds>>

-----------------------------------------------------------------------------
(***************************************************************************)
(* Restore and import                                                      *)
(***************************************************************************)
\* The entries of an archive's tree; "list" and "log" are the sentinels.
Entries(archive) ==
  {f \in Files : archive.raw[f] # Gone}
  \cup {s \in {"list", "log"} : IF s = "list" THEN archive.list # NoList ELSE archive.log # {}}

\* The workspace of a new machine.
Bare(h) ==
  /\ \A f \in Files : file[h][f] = Gone
  /\ skills[h] = Gone /\ sessions[h] = Gone /\ list[h] = NoList /\ log[h] = {}
  /\ adding[h].step = "idle"

\* A head restore leaves its durable mark first, an import does not.
Restore(h, kind) ==
  /\ job[h].step = "idle" /\ head # Nothing
  /\ jobs < MaxJobs /\ jobs' = jobs + 1
  /\ marker' = IF kind = "restore" THEN marker \cup {h} ELSE marker
  /\ job' = [job EXCEPT ![h] = [NoJob EXCEPT !.step = "unpack", !.kind = kind, !.archive = head,
                                             !.names = Entries(head), !.seq = version]]
  /\ crossed' = IF adding[h].step # "idle" THEN crossed \cup {h} ELSE crossed
  /\ fresh' = IF Bare(h) THEN fresh \cup {h} ELSE fresh \ {h}
  /\ UNCHANGED <<disk, list, log, lock, base, cursor, acked, unnoted, consent>> /\ Untouched

\* restore_raw_sources: one file after the other, over what is there.
Unpack(h) ==
  LET archive == job[h].archive
  IN /\ job[h].step = "unpack"
     /\ \E entry \in job[h].names :
          /\ job' = [job EXCEPT ![h].names = @ \ {entry}]
          /\ IF entry \in Files
             THEN file' = [file EXCEPT ![h][entry] = archive.raw[entry]] ELSE UNCHANGED file
          /\ list' = IF entry = "list" THEN [list EXCEPT ![h] = archive.list] ELSE list
          /\ log' = IF entry = "log" THEN [log EXCEPT ![h] = archive.log] ELSE log
          /\ acked' = CASE entry = "list" -> [acked EXCEPT ![h] = {}]
                        [] entry = "log"  -> [acked EXCEPT ![h] = @ \cap list[h].tracked]
                        [] OTHER          -> acked
          /\ consent' = IF entry = "list" THEN [consent EXCEPT ![h] = {}] ELSE consent
     /\ UNCHANGED <<skills, sessions, lock, marker, base, cursor, unnoted, crossed, fresh, jobs>>
     /\ Untouched

\* mark_external_inert takes no lock.
MarkInertLoad(h) ==
  /\ job[h].step = "unpack" /\ job[h].names = {}
  /\ job' = [job EXCEPT ![h] = [@ EXCEPT !.step = "inert_save", !.list = list[h]]]
  /\ UNCHANGED <<disk, list, log, lock, marker, base, cursor, past, jobs>> /\ Untouched

FaultyInert(old) == old  \* restored entries are packed again

Inert(old) ==
  [old EXCEPT !.external = [x \in Externals |-> IF @[x] = "verified" THEN "inert" ELSE @[x]]]

FaultyAfterInert(rt) == "done"  \* records are not turned into sessions

\* What is left of the import: sessions and skills are Hermes's.
AfterInert(rt) == IF rt = "hermes" THEN "sessions" ELSE "done"

MarkInertSave(h) ==
  LET old == job[h].list
  IN /\ job[h].step = "inert_save"
     /\ IF Inert(old) # old
        THEN list' = [list EXCEPT ![h] = Inert(old)] ELSE UNCHANGED list
     /\ Step(h, AfterInert(runtime))
     /\ UNCHANGED <<disk, log, lock, marker, base, cursor, past, jobs>> /\ Untouched

\* rebuild_sessions removes the old store first. A rebuild that fails is a
\* warning, and the store stays away.
RebuildSessions(h) ==
  LET records == job[h].archive.sessions
  IN /\ job[h].step = "sessions"
     /\ IF records = Gone
        THEN UNCHANGED <<sessions, fresh>>
        ELSE \/ sessions' = [sessions EXCEPT ![h] = records] /\ UNCHANGED fresh
             \/ sessions' = [sessions EXCEPT ![h] = Gone] /\ fresh' = fresh \ {h}
     /\ Step(h, "skills")
     /\ UNCHANGED <<file, skills, list, log, lock, marker, base, cursor, acked, unnoted, consent,
                    crossed, jobs>>
     /\ Untouched

RestoreSkills(h) ==
  LET artifacts == job[h].archive.skills
  IN /\ job[h].step = "skills"
     /\ skills' = IF artifacts = Gone THEN skills ELSE [skills EXCEPT ![h] = artifacts]
     /\ Step(h, "done")
     /\ UNCHANGED <<file, sessions, list, log, lock, marker, base, cursor, past, jobs>> /\ Untouched

\* The base and the cursor are the archive's, and the mark goes.
Restored(h) ==
  /\ job[h].step = "done"
  /\ IF job[h].kind = "restore"
     THEN /\ base' = [base EXCEPT ![h] = job[h].archive]
          /\ cursor' = [cursor EXCEPT ![h] = job[h].seq]
          /\ marker' = marker \ {h}
     ELSE UNCHANGED <<base, cursor, marker>>
  /\ EndJob(h)
  /\ crossed' = IF adding[h].step = "idle" THEN crossed ELSE crossed \cup {h}
  /\ UNCHANGED <<disk, list, log, lock, acked, unnoted, consent, fresh, jobs>> /\ Untouched

\* A process is killed, or its import fails, which leaves the same. A prune
\* killed between its two writes has taken files off the list and logs nothing.
Kill(h) ==
  /\ kills < MaxKills /\ kills' = kills + 1
  /\ \/ /\ job[h].step # "idle"
        /\ EndJob(h)
        /\ lock' = IF lock[h] = "job" THEN [lock EXCEPT ![h] = "nobody"] ELSE lock
        /\ unnoted' = IF job[h].step = "prune_log"
                      THEN [unnoted EXCEPT ![h] = @ \cup job[h].names] ELSE unnoted
        /\ crossed' = IF job[h].kind = "import" /\ Importing(h) THEN crossed \cup {h} ELSE crossed
        /\ UNCHANGED adding
     \/ /\ adding[h].step # "idle"
        /\ adding' = [adding EXCEPT ![h] = NoAdd]
        /\ lock' = IF lock[h] = "add" THEN [lock EXCEPT ![h] = "nobody"] ELSE lock
        /\ UNCHANGED <<job, unnoted, crossed>>
  /\ UNCHANGED <<runtime, disk, list, log, blessed, marker, base, cursor, head, version,
                 acked, consent, fresh, edits, jobs>>

-----------------------------------------------------------------------------
Next ==
  \E h \in Hosts :
    \/ EditFile(h) \/ EditSkills(h) \/ Converse(h)
    \/ \E f \in Files \cup Externals : AddFile(h, f)
    \/ AddSave(h)
    \/ Sync(h) \/ PruneSave(h) \/ PruneLog(h)
    \/ Collect(h) \/ Pack(h) \/ PackFails(h) \/ Upload(h)
    \/ \E kind \in {"restore", "import"} : Restore(h, kind)
    \/ Unpack(h) \/ MarkInertLoad(h) \/ MarkInertSave(h)
    \/ RebuildSessions(h) \/ RestoreSkills(h) \/ Restored(h)
    \/ Kill(h)

Spec == Init /\ [][Next]_vars

-----------------------------------------------------------------------------
(***************************************************************************)
(* Properties                                                              *)
(***************************************************************************)
\* A file whose add was reported stays tracked, or is taken off the list by a
\* sync that leaves a note in the log, until a restore replaces the list, or the
\* log with the note. Two ways to lose one are in the code, and exempt: an add
\* that ran beside an import, which takes no lock, and a prune killed after it
\* saved the list and before it appended the log (prune_and_log_missing).
AddsSurvive ==
  \A h \in Hosts \ crossed : \A f \in acked[h] :
    \/ f \in list[h].tracked \cup log[h] \cup unnoted[h]
    \/ job[h].step = "prune_log" /\ f \in job[h].names

\* No sync packs an external file because another machine's user has added it:
\* what a restore brings is inert, interrupted or not, unless an add ran beside
\* the import, or an import without a mark was killed.
ExternalsNeedConsent ==
  \A h \in Hosts \ crossed :
    job[h].step = "upload" => job[h].archive.packed \subseteq consent[h]

\* A host at the service's latest version has its head as its base, whether
\* snapshots or deltas led there: tree, sentinels, externals and sessions. The
\* skills are exempt: a delta has no entry for an archive's artifacts.
HeadMatchesBase ==
  \A h \in Hosts :
    cursor[h] = version /\ version > 0 => [head EXCEPT !.skills = Gone] = [base[h] EXCEPT !.skills = Gone]

\* A restore to a new machine brings the workspace of the archive: its export
\* is the archive again, but for externals, which are inert.
RestoreRoundTrips ==
  [][\A h \in fresh :
       job[h].step = "done" /\ job'[h].step = "idle" /\ kills' = kills =>
         Packed(h, Names(h)) =
           [job[h].archive EXCEPT !.packed = {}, !.list = Inert(@)]]_vars

=============================================================================
