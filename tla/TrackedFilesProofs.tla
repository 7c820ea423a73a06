------------------------- MODULE TrackedFilesProofs -------------------------
(***************************************************************************)
(* Theorems about TrackedFiles: any number of hosts, files and jobs, every *)
(* interleaving of adds and jobs, a process killed anywhere.               *)
(*                                                                         *)
(* HostInv is what holds of one host, beside the service's head and        *)
(* version. A step of one host leaves the state of the others alone, and   *)
(* an upload makes a new version, which makes theirs an old one.           *)
(***************************************************************************)
EXTENDS TrackedFiles, TLAPS

AllNames == Files \cup Externals \cup {"list", "log"}
SyncSteps == {"prune_save", "prune_log", "collect", "pack", "upload"}
AfterUnpack == {"sessions", "skills", "done"}
ImportSteps == AfterUnpack \cup {"unpack", "inert_save"}

Jobs == [step : JobSteps, kind : {"sync", "restore", "import"}, list : Lists,
         names : SUBSET AllNames, archive : Archives \cup {Nothing}, seq : Nat]

Adds == [step : {"idle", "save"}, file : Files \cup Externals \cup {Nothing}, list : Lists]

Types ==
  /\ runtime \in Runtimes
  /\ file \in [Hosts -> [Files -> Contents]]
  /\ skills \in [Hosts -> Contents] /\ sessions \in [Hosts -> Contents]
  /\ list \in [Hosts -> Lists] /\ log \in [Hosts -> SUBSET Files]
  /\ blessed \subseteq Hosts /\ marker \subseteq Hosts
  /\ crossed \subseteq Hosts /\ fresh \subseteq Hosts
  /\ job \in [Hosts -> Jobs] /\ adding \in [Hosts -> Adds]
  /\ lock \in [Hosts -> {"job", "add", "nobody"}]
  /\ base \in [Hosts -> Archives \cup {Nothing}] /\ cursor \in [Hosts -> Nat]
  /\ head \in Archives \cup {Nothing} /\ version \in Nat
  /\ acked \in [Hosts -> SUBSET Files] /\ unnoted \in [Hosts -> SUBSET Files]
  /\ consent \in [Hosts -> SUBSET Externals]

\* Who holds the lock of the list, and that what its holder has read is the list.
LockInv(h) ==
  /\ lock[h] = "add" <=> adding[h].step = "save"
  /\ job[h].step \in {"prune_save", "prune_log"} => lock[h] = "job" /\ job[h].names \subseteq Files
  /\ job[h].step = "prune_save" => job[h].list = list[h]
  /\ adding[h].step = "save" =>
       /\ adding[h].file \in Files \cup Externals
       /\ h \notin crossed \/ job[h].step \in SyncSteps => adding[h].list = list[h]
       /\ Importing(h) => h \in crossed
  /\ job[h].step = "inert_save" /\ h \notin crossed => job[h].list = list[h]

\* What kind of job it is, and its mark.
KindInv(h) ==
  /\ job[h].step \in SyncSteps => h \notin marker
  /\ job[h].step \in ImportSteps => job[h].archive \in Archives
  /\ job[h].step \in ImportSteps /\ job[h].kind # "import" =>
       job[h].kind = "restore" /\ h \in marker

\* An add leaves a trace.
AddsInv(h) ==
  h \notin crossed => \A f \in acked[h] :
    \/ f \in list[h].tracked \cup log[h] \cup unnoted[h]
    \/ job[h].step = "prune_log" /\ f \in job[h].names

Vouched(h) == \A x \in Externals : list[h].external[x] = "verified" => x \in consent[h]

\* Verified entries have the user's consent, but while an import goes on or is
\* to be resumed.
ConsentInv(h) ==
  h \notin crossed =>
    /\ ~Importing(h) /\ (h \in marker => job[h].step \in AfterUnpack) => Vouched(h)
    /\ job[h].step = "pack" => job[h].names \cap Externals \subseteq consent[h]
    /\ job[h].step = "upload" => job[h].archive.packed \subseteq consent[h]

\* An archive's tree holds what its own list makes an export take, and only
\* Hermes has skills and sessions.
Tidy(a) ==
  /\ \A f \in Files : a.raw[f] # Gone => f \in Sources \cup a.list.tracked
  /\ runtime # "hermes" => a.skills = Gone /\ a.sessions = Gone

TidyInv(h) ==
  /\ runtime # "hermes" => skills[h] = Gone /\ sessions[h] = Gone
  /\ job[h].step = "pack" => job[h].names \cap Files \subseteq Sources \cup list[h].tracked
  /\ job[h].step = "upload" => job[h].archive \in Archives
  /\ job[h].step \in ImportSteps \cup {"upload"} => Tidy(job[h].archive)

Same(a, b) ==
  /\ a.raw = b.raw /\ a.list = b.list /\ a.log = b.log
  /\ a.packed = b.packed /\ a.sessions = b.sessions

\* What the host knows of the service.
BaseInv(h) ==
  /\ cursor[h] <= version /\ (base[h] = Nothing <=> cursor[h] = 0)
  /\ cursor[h] = version /\ version > 0 => Same(head, base[h])
  /\ job[h].step \in ImportSteps =>
       /\ job[h].seq > 0 /\ job[h].seq <= version
       /\ job[h].seq = version => job[h].archive = head

\* How far a restore to a new machine has come.
FreshInv(h) ==
  h \in fresh /\ job[h].step \in ImportSteps =>
    LET a == job[h].archive
        rest == IF job[h].step = "unpack" THEN job[h].names ELSE {}
        all == job[h].step \in AfterUnpack
    IN /\ adding[h].step = "idle"
       /\ \A f \in Files : file[h][f] = IF f \in rest THEN Gone ELSE a.raw[f]
       /\ list[h] = IF "list" \in rest THEN NoList ELSE IF all THEN Inert(a.list) ELSE a.list
       /\ log[h] = IF "log" \in rest THEN {} ELSE a.log
       /\ job[h].step = "inert_save" => job[h].list = list[h]
       /\ sessions[h] = IF job[h].step \in {"skills", "done"} THEN a.sessions ELSE Gone
       /\ skills[h] = IF job[h].step = "done" THEN a.skills ELSE Gone

HostInv(h) ==
  /\ LockInv(h) /\ KindInv(h) /\ AddsInv(h) /\ ConsentInv(h)
  /\ TidyInv(h) /\ BaseInv(h) /\ FreshInv(h)

HeadInv == /\ head = Nothing <=> version = 0
           /\ head # Nothing => Tidy(head)

FilesInv ==
  /\ Types /\ HeadInv
  /\ \A h \in Hosts : HostInv(h)

\* What no step of h does to another host, and what one does to the service.
Others(h) ==
  \A g \in Hosts \ {h} :
    /\ file'[g] = file[g] /\ skills'[g] = skills[g] /\ sessions'[g] = sessions[g]
    /\ list'[g] = list[g] /\ log'[g] = log[g]
    /\ job'[g] = job[g] /\ adding'[g] = adding[g] /\ lock'[g] = lock[g]
    /\ base'[g] = base[g] /\ cursor'[g] = cursor[g]
    /\ acked'[g] = acked[g] /\ unnoted'[g] = unnoted[g] /\ consent'[g] = consent[g]
    /\ g \in marker' <=> g \in marker
    /\ g \in crossed' <=> g \in crossed
    /\ g \in fresh' <=> g \in fresh

Service ==
  /\ runtime' = runtime
  /\ (head' = head /\ version' = version) \/ version' = version + 1

\* A step of h keeps the invariant if it keeps what holds of h.
Good(h) == Types' /\ HeadInv' /\ Others(h) /\ Service /\ HostInv(h)'

-----------------------------------------------------------------------------
(***************************************************************************)
(* Types, and the changes of a job                                         *)
(***************************************************************************)
LEMMA NoListType == NoList \in Lists
BY DEF NoList, Lists

LEMMA NoJobType == NoJob \in Jobs /\ NoJob.step = "idle"
<1>1. NoJob \in Jobs
  BY NoListType DEF NoJob, Jobs, JobSteps
<1> QED
  BY <1>1 DEF NoJob

LEMMA NoAddType == NoAdd \in Adds /\ NoAdd.step = "idle"
<1>1. NoAdd \in Adds
  BY NoListType DEF NoAdd, Adds
<1> QED
  BY <1>1 DEF NoAdd

LEMMA Sentinels ==
  /\ "list" \notin Files /\ "log" \notin Files
  /\ "list" \notin Externals /\ "log" \notin Externals
  /\ Files \cap Externals = {} /\ Nothing \notin Archives /\ Gone \in Contents
BY TrackedAssumption DEF Contents

\* job' where the job of h is replaced.
LEMMA JobOf ==
  ASSUME Types, NEW h \in Hosts, NEW j \in Jobs, job' = [job EXCEPT ![h] = j]
  PROVE  job' \in [Hosts -> Jobs] /\ job'[h] = j /\ \A g \in Hosts \ {h} : job'[g] = job[g]
BY DEF Types

LEMMA StepOf ==
  ASSUME Types, NEW h \in Hosts, NEW s \in JobSteps, Step(h, s)
  PROVE  /\ job' \in [Hosts -> Jobs] /\ \A g \in Hosts \ {h} : job'[g] = job[g]
         /\ job'[h].step = s /\ job'[h].kind = job[h].kind /\ job'[h].list = job[h].list
         /\ job'[h].names = job[h].names /\ job'[h].archive = job[h].archive
         /\ job'[h].seq = job[h].seq
<1> DEFINE j == [job[h] EXCEPT !.step = s]
<1>1. job[h] \in Jobs
  BY DEF Types
<1>2. /\ j \in Jobs /\ j.step = s /\ j.kind = job[h].kind /\ j.list = job[h].list
      /\ j.names = job[h].names /\ j.archive = job[h].archive /\ j.seq = job[h].seq
  BY <1>1 DEF Jobs
<1>3. job' = [job EXCEPT ![h] = j]
  BY DEF Step
<1> HIDE DEF j
<1> QED
  BY <1>2, <1>3, JobOf

LEMMA EndOf ==
  ASSUME Types, NEW h \in Hosts, EndJob(h)
  PROVE  /\ job' \in [Hosts -> Jobs] /\ \A g \in Hosts \ {h} : job'[g] = job[g]
         /\ job'[h] = NoJob /\ job'[h].step = "idle"
BY NoJobType, JobOf DEF EndJob

-----------------------------------------------------------------------------
(***************************************************************************)
(* A step of one host and the others                                       *)
(***************************************************************************)
LEMMA OthersKeep ==
  ASSUME FilesInv, NEW h \in Hosts, Good(h)
  PROVE  FilesInv'
<1> SUFFICES ASSUME NEW g \in Hosts, g # h
             PROVE  HostInv(g)'
  BY DEF FilesInv, Good
<1>0. HostInv(g)
  BY DEF FilesInv
<1>1. /\ file'[g] = file[g] /\ skills'[g] = skills[g] /\ sessions'[g] = sessions[g]
      /\ list'[g] = list[g] /\ log'[g] = log[g]
      /\ job'[g] = job[g] /\ adding'[g] = adding[g] /\ lock'[g] = lock[g]
      /\ base'[g] = base[g] /\ cursor'[g] = cursor[g]
      /\ acked'[g] = acked[g] /\ unnoted'[g] = unnoted[g] /\ consent'[g] = consent[g]
      /\ g \in marker' <=> g \in marker
      /\ g \in crossed' <=> g \in crossed
      /\ g \in fresh' <=> g \in fresh
      /\ runtime' = runtime
  BY DEF Good, Others, Service
<1>2. LockInv(g)'
  BY <1>0, <1>1 DEF HostInv, LockInv, Importing
<1>3. KindInv(g)'
  BY <1>0, <1>1 DEF HostInv, KindInv
<1>4. AddsInv(g)'
  BY <1>0, <1>1 DEF HostInv, AddsInv
<1>5. ConsentInv(g)'
  BY <1>0, <1>1 DEF HostInv, ConsentInv, Vouched, Importing
<1>6. TidyInv(g)'
  BY <1>0, <1>1 DEF HostInv, TidyInv, Tidy
<1>7. BaseInv(g)'
  <2>1. BaseInv(g) /\ cursor[g] \in Nat /\ version \in Nat
    BY <1>0 DEF HostInv, FilesInv, Types
  <2>2. CASE head' = head /\ version' = version
    BY <1>1, <2>1, <2>2 DEF BaseInv
  <2>3. CASE version' = version + 1
    <3>1. job[g].seq \in Nat
      BY DEF FilesInv, Types, Jobs
    <3> QED
      BY <1>1, <2>1, <2>3, <3>1 DEF BaseInv
  <2> QED
    BY <2>2, <2>3 DEF Good, Service
<1>8. FreshInv(g)'
  BY <1>0, <1>1 DEF HostInv, FreshInv
<1> QED
  BY <1>2, <1>3, <1>4, <1>5, <1>6, <1>7, <1>8 DEF HostInv

-----------------------------------------------------------------------------
(***************************************************************************)
(* The agent and its user, and their adds                                  *)
(***************************************************************************)
LEMMA HeadKeeps ==
  ASSUME FilesInv, runtime' = runtime, head' = head, version' = version
  PROVE  HeadInv' /\ Service
BY DEF FilesInv, HeadInv, Tidy, Service

\* An edit changes what no job relies on, and h is not fresh any more.
LEMMA EditedGood ==
  ASSUME FilesInv, NEW h \in Hosts, Edited(h),
         file' \in [Hosts -> [Files -> Contents]],
         skills' \in [Hosts -> Contents], sessions' \in [Hosts -> Contents],
         \A g \in Hosts \ {h} :
           file'[g] = file[g] /\ skills'[g] = skills[g] /\ sessions'[g] = sessions[g],
         runtime # "hermes" => skills'[h] = skills[h] /\ sessions'[h] = sessions[h]
  PROVE  Good(h)
<1>1. /\ runtime' = runtime /\ list' = list /\ log' = log /\ blessed' = blessed
      /\ job' = job /\ adding' = adding /\ lock' = lock /\ marker' = marker
      /\ base' = base /\ cursor' = cursor /\ head' = head /\ version' = version
      /\ acked' = acked /\ unnoted' = unnoted /\ consent' = consent /\ crossed' = crossed
      /\ fresh' = fresh \ {h}
  BY DEF Edited
<1>2. Types'
  BY <1>1 DEF FilesInv, Types
<1>3. HeadInv' /\ Service
  BY <1>1, HeadKeeps
<1>4. Others(h)
  BY <1>1 DEF Others
<1>5. HostInv(h)
  BY DEF FilesInv
<1>6. LockInv(h)' /\ KindInv(h)' /\ AddsInv(h)' /\ ConsentInv(h)'
  BY <1>1, <1>5 DEF HostInv, LockInv, KindInv, AddsInv, ConsentInv, Importing, Vouched
<1>7. TidyInv(h)'
  BY <1>1, <1>5 DEF HostInv, TidyInv, Tidy
<1>8. BaseInv(h)'
  BY <1>1, <1>5 DEF HostInv, BaseInv, Same
<1>9. FreshInv(h)'
  BY <1>1 DEF FreshInv
<1> QED
  BY <1>2, <1>3, <1>4, <1>6, <1>7, <1>8, <1>9 DEF Good, HostInv

LEMMA EditGood ==
  ASSUME FilesInv, NEW h \in Hosts, EditFile(h) \/ EditSkills(h) \/ Converse(h)
  PROVE  Good(h)
<1>1. /\ file \in [Hosts -> [Files -> Contents]]
      /\ skills \in [Hosts -> Contents] /\ sessions \in [Hosts -> Contents]
  BY DEF FilesInv, Types
<1>2. CASE EditFile(h)
  <2>1. PICK f \in Files, c \in Contents : file' = [file EXCEPT ![h][f] = c]
    BY <1>2 DEF EditFile
  <2>2. /\ file' \in [Hosts -> [Files -> Contents]]
        /\ \A g \in Hosts \ {h} : file'[g] = file[g]
    <3> DEFINE new == [file[h] EXCEPT ![f] = c]
    <3>1. new \in [Files -> Contents]
      BY <1>1
    <3>2. file' = [file EXCEPT ![h] = new]
      BY <2>1
    <3> HIDE DEF new
    <3> QED
      BY <1>1, <3>1, <3>2
  <2>3. Edited(h) /\ skills' = skills /\ sessions' = sessions
    BY <1>2 DEF EditFile
  <2> QED
    BY <1>1, <2>2, <2>3, EditedGood
<1>3. CASE EditSkills(h)
  <2>1. PICK c \in Contents : skills' = [skills EXCEPT ![h] = c]
    BY <1>3 DEF EditSkills
  <2>2. Edited(h) /\ file' = file /\ sessions' = sessions /\ runtime = "hermes"
    BY <1>3 DEF EditSkills
  <2>3. skills' \in [Hosts -> Contents] /\ \A g \in Hosts \ {h} : skills'[g] = skills[g]
    BY <1>1, <2>1
  <2> QED
    BY <1>1, <2>2, <2>3, EditedGood
<1>4. CASE Converse(h)
  <2>1. PICK c \in Texts : sessions' = [sessions EXCEPT ![h] = c]
    BY <1>4 DEF Converse
  <2>2. Edited(h) /\ file' = file /\ skills' = skills /\ runtime = "hermes"
    BY <1>4 DEF Converse
  <2>3. sessions' \in [Hosts -> Contents] /\ \A g \in Hosts \ {h} : sessions'[g] = sessions[g]
    BY <1>1, <2>1 DEF Contents
  <2> QED
    BY <1>1, <2>2, <2>3, EditedGood
<1> QED
  BY <1>2, <1>3, <1>4

LEMMA AddFileGood ==
  ASSUME FilesInv, NEW h \in Hosts, NEW f \in Files \cup Externals, AddFile(h, f)
  PROVE  Good(h)
<1> DEFINE a == [step |-> "save", file |-> f, list |-> list[h]]
<1>1. /\ runtime' = runtime /\ file' = file /\ skills' = skills /\ sessions' = sessions
      /\ list' = list /\ log' = log /\ job' = job /\ marker' = marker
      /\ base' = base /\ cursor' = cursor /\ head' = head /\ version' = version
      /\ acked' = acked /\ unnoted' = unnoted /\ consent' = consent
      /\ adding' = [adding EXCEPT ![h] = a] /\ lock' = [lock EXCEPT ![h] = "add"]
      /\ blessed' \in {blessed, blessed \cup {h}}
      /\ crossed' = IF Importing(h) THEN crossed \cup {h} ELSE crossed
      /\ fresh' = fresh \ {h}
      /\ adding[h].step = "idle" /\ lock[h] = "nobody"
  BY DEF AddFile, disk
<1>2. HostInv(h) /\ Types
  BY DEF FilesInv
<1>3. list[h] \in Lists /\ job[h] \in Jobs
  BY <1>2 DEF Types
<1>4. a \in Adds /\ a.step = "save" /\ a.file = f /\ a.list = list[h]
  BY <1>3 DEF Adds
<1> HIDE DEF a
<1>5. /\ adding'[h] = a /\ lock'[h] = "add"
      /\ \A g \in Hosts \ {h} : adding'[g] = adding[g] /\ lock'[g] = lock[g]
  BY <1>1, <1>2 DEF Types
<1>6. Types'
  <2>1. /\ adding' \in [Hosts -> Adds] /\ lock' \in [Hosts -> {"job", "add", "nobody"}]
        /\ blessed' \subseteq Hosts /\ crossed' \subseteq Hosts /\ fresh' \subseteq Hosts
    BY <1>1, <1>2, <1>4 DEF Types
  <2> QED
    BY <1>1, <1>2, <2>1 DEF Types
<1>7. HeadInv' /\ Service
  BY <1>1, HeadKeeps
<1>8. Others(h)
  BY <1>1, <1>5 DEF Others
<1>9. LockInv(h)'
  <2>1. job[h].step \notin {"prune_save", "prune_log"}
    BY <1>1, <1>2 DEF HostInv, LockInv
  <2>2. job[h].step = "inert_save" => h \in crossed'
    BY <1>1 DEF Importing
  <2>3. Importing(h)' => h \in crossed'
    BY <1>1 DEF Importing
  <2> QED
    BY <1>1, <1>4, <1>5, <2>1, <2>2, <2>3 DEF LockInv
<1>10. h \notin crossed' => h \notin crossed
  BY <1>1
<1>11. KindInv(h)' /\ AddsInv(h)' /\ ConsentInv(h)'
  BY <1>1, <1>2, <1>10 DEF HostInv, KindInv, AddsInv, ConsentInv, Importing, Vouched
<1>12. TidyInv(h)' /\ BaseInv(h)'
  BY <1>1, <1>2 DEF HostInv, TidyInv, Tidy, BaseInv, Same
<1>13. FreshInv(h)'
  BY <1>1 DEF FreshInv
<1> QED
  BY <1>6, <1>7, <1>8, <1>9, <1>11, <1>12, <1>13 DEF Good, HostInv

LEMMA AddedFacts ==
  ASSUME NEW old \in Lists, NEW f \in Files \cup Externals
  PROVE  /\ Added(old, f) \in Lists
         /\ Added(old, f).tracked = IF f \in Externals THEN old.tracked ELSE old.tracked \cup {f}
         /\ \A x \in Externals : Added(old, f).external[x] = "verified" =>
              old.external[x] = "verified" \/ x = f
<1>1. CASE f \in Externals /\ old.external[f] = "none"
  <2> DEFINE e == [old.external EXCEPT ![f] = "verified"]
  <2>1. Added(old, f) = [old EXCEPT !.external = e]
    BY <1>1 DEF Added
  <2>2. e \in [Externals -> {"none", "verified", "inert"}]
        /\ \A x \in Externals : e[x] = "verified" => old.external[x] = "verified" \/ x = f
    BY DEF Lists
  <2> HIDE DEF e
  <2> QED
    BY <1>1, <2>1, <2>2 DEF Lists
<1>2. CASE f \in Externals /\ old.external[f] # "none"
  BY <1>2 DEF Added
<1>3. CASE f \notin Externals
  <2>1. f \in Files /\ Added(old, f) = [old EXCEPT !.tracked = old.tracked \cup {f}]
    BY <1>3 DEF Added
  <2> QED
    BY <1>3, <2>1 DEF Lists
<1> QED
  BY <1>1, <1>2, <1>3

LEMMA AddSaveGood ==
  ASSUME FilesInv, NEW h \in Hosts, AddSave(h)
  PROVE  Good(h)
<1> DEFINE f == adding[h].file
           new == Added(adding[h].list, f)
<1>1. /\ runtime' = runtime /\ file' = file /\ skills' = skills /\ sessions' = sessions
      /\ log' = log /\ blessed' = blessed /\ job' = job /\ marker' = marker
      /\ base' = base /\ cursor' = cursor /\ head' = head /\ version' = version
      /\ crossed' = crossed /\ fresh' = fresh
      /\ list' = IF new # adding[h].list THEN [list EXCEPT ![h] = new] ELSE list
      /\ acked' = IF f \in Files THEN [acked EXCEPT ![h] = acked[h] \cup {f}] ELSE acked
      /\ unnoted' = [unnoted EXCEPT ![h] = unnoted[h] \ {f}]
      /\ consent' = IF f \in Externals THEN [consent EXCEPT ![h] = consent[h] \cup {f}] ELSE consent
      /\ adding' = [adding EXCEPT ![h] = NoAdd] /\ lock' = [lock EXCEPT ![h] = "nobody"]
      /\ adding[h].step = "save"
  BY DEF AddSave, disk
<1>2. HostInv(h) /\ Types
  BY DEF FilesInv
<1>3. adding[h].list \in Lists /\ f \in Files \cup Externals /\ lock[h] = "add"
  BY <1>1, <1>2 DEF Types, Adds, HostInv, LockInv
<1>4. /\ new \in Lists
      /\ new.tracked = IF f \in Externals THEN adding[h].list.tracked
                       ELSE adding[h].list.tracked \cup {f}
      /\ \A x \in Externals : new.external[x] = "verified" =>
           adding[h].list.external[x] = "verified" \/ x = f
  BY <1>3, AddedFacts
<1> HIDE DEF new
<1>5. /\ lock'[h] = "nobody" /\ adding'[h] = NoAdd
      /\ f \in Files => acked'[h] = acked[h] \cup {f}
      /\ f \notin Files => acked'[h] = acked[h]
      /\ unnoted'[h] = unnoted[h] \ {f}
      /\ f \in Externals => consent'[h] = consent[h] \cup {f}
      /\ f \notin Externals => consent'[h] = consent[h]
      /\ list'[h] = new \/ (list' = list /\ new = adding[h].list)
      /\ \A g \in Hosts \ {h} :
           /\ adding'[g] = adding[g] /\ lock'[g] = lock[g] /\ list'[g] = list[g]
           /\ acked'[g] = acked[g] /\ unnoted'[g] = unnoted[g] /\ consent'[g] = consent[g]
  BY <1>1, <1>2 DEF Types
<1>6. Types'
  <2>1. adding' \in [Hosts -> Adds]
    BY <1>1, <1>2, NoAddType DEF Types
  <2>2. lock' \in [Hosts -> {"job", "add", "nobody"}]
    BY <1>1, <1>2 DEF Types
  <2>3. list' \in [Hosts -> Lists]
    BY <1>1, <1>2, <1>4 DEF Types
  <2>4. /\ acked' \in [Hosts -> SUBSET Files] /\ unnoted' \in [Hosts -> SUBSET Files]
        /\ consent' \in [Hosts -> SUBSET Externals]
    BY <1>1, <1>2 DEF Types
  <2> QED
    BY <1>1, <1>2, <2>1, <2>2, <2>3, <2>4 DEF Types
<1>7. HeadInv' /\ Service
  BY <1>1, HeadKeeps
<1>8. Others(h)
  BY <1>1, <1>5 DEF Others
<1>9. h \notin crossed \/ job[h].step \in SyncSteps => adding[h].list = list[h] /\ list'[h] = new
  <2>1. h \notin crossed \/ job[h].step \in SyncSteps => adding[h].list = list[h]
    BY <1>1, <1>2 DEF HostInv, LockInv
  <2> QED
    BY <1>5, <2>1
<1>10. LockInv(h)'
  <2>1. job[h].step \notin {"prune_save", "prune_log"}
    BY <1>2, <1>3 DEF HostInv, LockInv
  <2>2. job[h].step = "inert_save" => h \in crossed
    BY <1>1, <1>2 DEF HostInv, LockInv, Importing
  <2> QED
    BY <1>1, <1>5, <2>1, <2>2, NoAddType DEF LockInv
<1>11. KindInv(h)'
  BY <1>1, <1>2 DEF HostInv, KindInv
<1>12. AddsInv(h)'
  <2> SUFFICES ASSUME h \notin crossed', NEW g \in acked'[h]
               PROVE  \/ g \in list'[h].tracked \cup log'[h] \cup unnoted'[h]
                      \/ job'[h].step = "prune_log" /\ g \in job'[h].names
    BY DEF AddsInv
  <2>1. adding[h].list = list[h] /\ list'[h] = new
    BY <1>1, <1>9
  <2>2. g \in acked[h] \/ (g = f /\ f \in Files)
    BY <1>5
  <2>3. f \in Files => f \notin Externals
    BY Sentinels
  <2>4. CASE g \in acked[h] /\ g # f
    <3>1. \/ g \in list[h].tracked \cup log[h] \cup unnoted[h]
          \/ job[h].step = "prune_log" /\ g \in job[h].names
      BY <1>1, <1>2, <2>4 DEF HostInv, AddsInv
    <3>2. g \in list[h].tracked => g \in list'[h].tracked
      BY <1>4, <2>1
    <3> QED
      BY <1>1, <1>5, <2>4, <3>1, <3>2
  <2>5. CASE g = f /\ f \in Files
    BY <1>4, <2>1, <2>3, <2>5
  <2>6. g \in Files
    BY <1>6 DEF Types
  <2> QED
    BY <2>2, <2>4, <2>5, <2>6
<1>13. ConsentInv(h)'
  <2> SUFFICES ASSUME h \notin crossed
               PROVE ConsentInv(h)'
    BY <1>1 DEF ConsentInv
  <2>1. adding[h].list = list[h] /\ list'[h] = new
    BY <1>9
  <2>2. consent[h] \subseteq consent'[h] /\ f \in Externals => f \in consent'[h]
    BY <1>5
  <2>3. consent[h] \subseteq consent'[h]
    BY <1>5
  <2>4. Vouched(h) => Vouched(h)'
    BY <1>4, <2>1, <2>2, <2>3 DEF Vouched
  <2> QED
    BY <1>1, <1>2, <2>3, <2>4 DEF HostInv, ConsentInv, Importing
<1>14. TidyInv(h)'
  <2>1. job[h].step = "pack" => list[h].tracked \subseteq list'[h].tracked
    BY <1>4, <1>9 DEF SyncSteps
  <2> QED
    BY <1>1, <1>2, <2>1 DEF HostInv, TidyInv, Tidy
<1>15. BaseInv(h)'
  BY <1>1, <1>2 DEF HostInv, BaseInv, Same
<1>16. FreshInv(h)'
  BY <1>1, <1>2 DEF HostInv, FreshInv
<1> QED
  BY <1>6, <1>7, <1>8, <1>10, <1>11, <1>12, <1>13, <1>14, <1>15, <1>16 DEF Good, HostInv

-----------------------------------------------------------------------------
(***************************************************************************)
(* Sync                                                                    *)
(***************************************************************************)
\* The steps of a job that leave the files, the adds and the histories alone.
Quiet(h) ==
  /\ runtime' = runtime /\ file' = file /\ skills' = skills /\ sessions' = sessions
  /\ blessed' = blessed /\ adding' = adding /\ marker' = marker
  /\ base' = base /\ cursor' = cursor /\ head' = head /\ version' = version
  /\ acked' = acked /\ unnoted' = unnoted /\ consent' = consent /\ crossed' = crossed /\ fresh' = fresh
  /\ job' \in [Hosts -> Jobs] /\ \A g \in Hosts \ {h} : job'[g] = job[g]
  /\ list' \in [Hosts -> Lists] /\ \A g \in Hosts \ {h} : list'[g] = list[g]
  /\ log' \in [Hosts -> SUBSET Files] /\ \A g \in Hosts \ {h} : log'[g] = log[g]
  /\ lock' \in [Hosts -> {"job", "add", "nobody"}] /\ \A g \in Hosts \ {h} : lock'[g] = lock[g]

LEMMA QuietGood ==
  ASSUME FilesInv, NEW h \in Hosts, Quiet(h), HostInv(h)'
  PROVE  Good(h)
<1>1. Types'
  BY DEF Quiet, FilesInv, Types
<1>2. HeadInv' /\ Service
  BY HeadKeeps DEF Quiet
<1>3. Others(h)
  BY DEF Quiet, Others
<1> QED
  BY <1>1, <1>2, <1>3 DEF Good

\* Where a sync stands, the mark, the archive and the restored host are no matter.
LEMMA SyncStepKeeps ==
  ASSUME FilesInv, NEW h \in Hosts, Quiet(h), h \notin marker,
         job'[h].step \in SyncSteps \cup {"idle"}
  PROVE  KindInv(h)' /\ BaseInv(h)' /\ FreshInv(h)'
<1>1. HostInv(h)
  BY DEF FilesInv
<1>2. job'[h].step \notin ImportSteps
  BY DEF SyncSteps, ImportSteps, AfterUnpack
<1>3. KindInv(h)' /\ FreshInv(h)'
  BY <1>2 DEF Quiet, KindInv, FreshInv
<1>4. BaseInv(h)'
  BY <1>1, <1>2 DEF Quiet, HostInv, BaseInv, Same
<1> QED
  BY <1>3, <1>4

LEMMA PruningFacts ==
  ASSUME Types, NEW h \in Hosts
  PROVE  /\ Pruning(h) \in Jobs /\ Missing(h) \subseteq Files
         /\ Missing(h) = {} => Pruning(h).step = "collect"
         /\ Missing(h) # {} => /\ Pruning(h).step = "prune_save"
                               /\ Pruning(h).list = list[h] /\ Pruning(h).names = Missing(h)
<1>1. list[h] \in Lists
  BY DEF Types
<1>2. Missing(h) \subseteq Files
  BY <1>1 DEF Missing, Lists
<1>3. Missing(h) \in SUBSET AllNames
  BY <1>2 DEF AllNames
<1>4. NoJob \in Jobs
  BY NoJobType
<1>5. CASE Missing(h) = {}
  BY <1>2, <1>4, <1>5 DEF Pruning, Jobs, JobSteps
<1>6. CASE Missing(h) # {}
  <2> DEFINE m == Missing(h)
             j == [NoJob EXCEPT !.step = "prune_save", !.list = list[h], !.names = m]
  <2>1. Pruning(h) = j
    BY <1>6 DEF Pruning
  <2>2. m \in SUBSET AllNames
    BY <1>3
  <2> HIDE DEF m
  <2>3. j \in Jobs /\ j.step = "prune_save" /\ j.list = list[h] /\ j.names = m
    BY <1>1, <1>4, <2>2 DEF Jobs, JobSteps
  <2> QED
    BY <1>2, <1>6, <2>1, <2>3 DEF m
<1> QED
  BY <1>5, <1>6

LEMMA SyncGood ==
  ASSUME FilesInv, NEW h \in Hosts, Sync(h)
  PROVE  Good(h)
<1>1. /\ runtime' = runtime /\ file' = file /\ skills' = skills /\ sessions' = sessions
      /\ list' = list /\ log' = log /\ blessed' = blessed /\ adding' = adding
      /\ marker' = marker /\ base' = base /\ cursor' = cursor
      /\ head' = head /\ version' = version
      /\ acked' = acked /\ unnoted' = unnoted /\ consent' = consent
      /\ crossed' = crossed /\ fresh' = fresh
      /\ job[h].step = "idle" /\ h \notin marker /\ lock[h] = "nobody"
      /\ job' = [job EXCEPT ![h] = Pruning(h)]
      /\ lock' = IF Missing(h) = {} THEN lock ELSE [lock EXCEPT ![h] = "job"]
  BY DEF Sync, Untouched, disk, past
<1>2. HostInv(h) /\ Types
  BY DEF FilesInv
<1> DEFINE j == Pruning(h)
<1>3. /\ j \in Jobs
      /\ Missing(h) = {} => j.step = "collect"
      /\ Missing(h) # {} => j.step = "prune_save" /\ j.list = list[h] /\ j.names \subseteq Files
  BY <1>2, PruningFacts
<1> HIDE DEF j
<1>4. job' \in [Hosts -> Jobs] /\ job'[h] = j /\ \A g \in Hosts \ {h} : job'[g] = job[g]
  BY <1>1, <1>2, <1>3, JobOf DEF j
<1>5. /\ lock' \in [Hosts -> {"job", "add", "nobody"}]
      /\ \A g \in Hosts \ {h} : lock'[g] = lock[g]
      /\ Missing(h) = {} => lock'[h] = "nobody"
      /\ Missing(h) # {} => lock'[h] = "job"
  BY <1>1, <1>2 DEF Types
<1>6. Quiet(h)
  BY <1>1, <1>2, <1>4, <1>5 DEF Quiet, Types
<1>7. KindInv(h)' /\ BaseInv(h)' /\ FreshInv(h)'
  BY <1>1, <1>3, <1>4, <1>6, SyncStepKeeps DEF SyncSteps
<1>8. LockInv(h)'
  <2>1. adding[h].step # "save"
    BY <1>1, <1>2 DEF HostInv, LockInv
  <2> QED
    BY <1>1, <1>3, <1>4, <1>5, <2>1 DEF LockInv
<1>9. AddsInv(h)'
  BY <1>1, <1>2 DEF HostInv, AddsInv
<1>10. ConsentInv(h)'
  BY <1>1, <1>2, <1>3, <1>4 DEF HostInv, ConsentInv, Importing, Vouched
<1>11. TidyInv(h)'
  BY <1>1, <1>2, <1>3, <1>4 DEF HostInv, TidyInv, ImportSteps, AfterUnpack
<1> QED
  BY <1>6, <1>7, <1>8, <1>9, <1>10, <1>11, QuietGood DEF HostInv

LEMMA PruneSaveGood ==
  ASSUME FilesInv, NEW h \in Hosts, PruneSave(h)
  PROVE  Good(h)
<1> DEFINE t == job[h].list.tracked \ job[h].names
           new == [job[h].list EXCEPT !.tracked = t]
<1>1. /\ runtime' = runtime /\ file' = file /\ skills' = skills /\ sessions' = sessions
      /\ log' = log /\ blessed' = blessed /\ adding' = adding /\ lock' = lock
      /\ marker' = marker /\ base' = base /\ cursor' = cursor
      /\ head' = head /\ version' = version
      /\ acked' = acked /\ unnoted' = unnoted /\ consent' = consent
      /\ crossed' = crossed /\ fresh' = fresh
      /\ job[h].step = "prune_save" /\ Step(h, "prune_log")
      /\ list' = [list EXCEPT ![h] = new]
  BY DEF PruneSave, Untouched, disk, past
<1>2. HostInv(h) /\ Types /\ "prune_log" \in JobSteps
  BY DEF FilesInv, JobSteps
<1>3. /\ job' \in [Hosts -> Jobs] /\ \A g \in Hosts \ {h} : job'[g] = job[g]
      /\ job'[h].step = "prune_log" /\ job'[h].names = job[h].names
  BY <1>1, <1>2, StepOf
<1>4. list[h] \in Lists /\ job[h].list = list[h] /\ lock[h] = "job" /\ h \notin marker
  BY <1>1, <1>2 DEF Types, HostInv, LockInv, KindInv, SyncSteps
<1>5. new \in Lists /\ new.tracked = list[h].tracked \ job[h].names /\ new.external = list[h].external
  BY <1>4 DEF Lists
<1> HIDE DEF new
<1>6. /\ list' \in [Hosts -> Lists] /\ list'[h] = new
      /\ \A g \in Hosts \ {h} : list'[g] = list[g]
  BY <1>1, <1>2, <1>5 DEF Types
<1>7. Quiet(h)
  BY <1>1, <1>2, <1>3, <1>6 DEF Quiet, Types
<1>8. KindInv(h)' /\ BaseInv(h)' /\ FreshInv(h)'
  BY <1>3, <1>4, <1>7, SyncStepKeeps DEF SyncSteps
<1>9. LockInv(h)'
  BY <1>1, <1>2, <1>3, <1>4 DEF HostInv, LockInv
<1>10. AddsInv(h)'
  BY <1>1, <1>2, <1>3, <1>5, <1>6 DEF HostInv, AddsInv
<1>11. ConsentInv(h)'
  <2>1. h \notin crossed => Vouched(h)
    BY <1>1, <1>2, <1>4 DEF HostInv, ConsentInv, Importing
  <2> QED
    BY <1>1, <1>3, <1>5, <1>6, <2>1 DEF ConsentInv, Vouched
<1>12. TidyInv(h)'
  BY <1>1, <1>2, <1>3 DEF HostInv, TidyInv, ImportSteps, AfterUnpack
<1> QED
  BY <1>7, <1>8, <1>9, <1>10, <1>11, <1>12, QuietGood DEF HostInv

LEMMA PruneLogGood ==
  ASSUME FilesInv, NEW h \in Hosts, PruneLog(h)
  PROVE  Good(h)
<1> DEFINE n == log[h] \cup job[h].names
<1>1. /\ runtime' = runtime /\ file' = file /\ skills' = skills /\ sessions' = sessions
      /\ list' = list /\ blessed' = blessed /\ adding' = adding
      /\ marker' = marker /\ base' = base /\ cursor' = cursor
      /\ head' = head /\ version' = version
      /\ acked' = acked /\ unnoted' = unnoted /\ consent' = consent
      /\ crossed' = crossed /\ fresh' = fresh
      /\ job[h].step = "prune_log" /\ Step(h, "collect")
      /\ log' = [log EXCEPT ![h] = n] /\ lock' = [lock EXCEPT ![h] = "nobody"]
  BY DEF PruneLog, Untouched, disk, past
<1>2. HostInv(h) /\ Types /\ "collect" \in JobSteps
  BY DEF FilesInv, JobSteps
<1>3. /\ job' \in [Hosts -> Jobs] /\ \A g \in Hosts \ {h} : job'[g] = job[g]
      /\ job'[h].step = "collect"
  BY <1>1, <1>2, StepOf
<1>4. lock[h] = "job" /\ h \notin marker /\ job[h].names \subseteq Files
  BY <1>1, <1>2 DEF HostInv, LockInv, KindInv, SyncSteps
<1>5. /\ log' \in [Hosts -> SUBSET Files] /\ log'[h] = n
      /\ \A g \in Hosts \ {h} : log'[g] = log[g]
      /\ lock' \in [Hosts -> {"job", "add", "nobody"}] /\ lock'[h] = "nobody"
      /\ \A g \in Hosts \ {h} : lock'[g] = lock[g]
  BY <1>1, <1>2, <1>4 DEF Types
<1>6. Quiet(h)
  BY <1>1, <1>2, <1>3, <1>5 DEF Quiet, Types
<1>7. KindInv(h)' /\ BaseInv(h)' /\ FreshInv(h)'
  BY <1>3, <1>4, <1>6, SyncStepKeeps DEF SyncSteps
<1>8. LockInv(h)'
  BY <1>1, <1>2, <1>3, <1>4, <1>5 DEF HostInv, LockInv
<1>9. AddsInv(h)'
  BY <1>1, <1>2, <1>5 DEF HostInv, AddsInv
<1>10. ConsentInv(h)'
  <2>1. h \notin crossed => Vouched(h)
    BY <1>1, <1>2, <1>4 DEF HostInv, ConsentInv, Importing
  <2> QED
    BY <1>1, <1>3, <2>1 DEF ConsentInv, Vouched
<1>11. TidyInv(h)'
  BY <1>1, <1>2, <1>3 DEF HostInv, TidyInv, ImportSteps, AfterUnpack
<1> QED
  BY <1>6, <1>7, <1>8, <1>9, <1>10, <1>11, QuietGood DEF HostInv

\* A job that goes on, and changes nothing else.
LEMMA GoesOn ==
  ASSUME FilesInv, NEW h \in Hosts, NEW j \in Jobs,
         job' = [job EXCEPT ![h] = j], UNCHANGED <<disk, list, log, lock, marker, base, cursor, past>>,
         Untouched
  PROVE  Quiet(h) /\ job'[h] = j /\ list' = list /\ log' = log /\ lock' = lock
<1>1. Types
  BY DEF FilesInv
<1>2. job' \in [Hosts -> Jobs] /\ job'[h] = j /\ \A g \in Hosts \ {h} : job'[g] = job[g]
  BY <1>1, JobOf
<1> QED
  BY <1>1, <1>2 DEF Quiet, Types, Untouched, disk, past

LEMMA NamesFacts ==
  ASSUME Types, NEW h \in Hosts
  PROVE  /\ Names(h) \in SUBSET AllNames
         /\ Names(h) \cap Files = Tracked(h)
         /\ \A x \in Names(h) \cap Externals : list[h].external[x] = "verified"
<1>1. Tracked(h) \subseteq Files /\ Packable(h) \subseteq Externals
  BY DEF Tracked, Packable
<1>2. Names(h) \in {Tracked(h) \cup Packable(h), Tracked(h)}
  <2>1. runtime \in {"generic", "hermes", "openclaw"}
    BY DEF Types, Runtimes
  <2> QED
    BY <2>1 DEF Names, GenericNames, HermesNames, OpenClawNames
<1>3. \A x \in Packable(h) : list[h].external[x] = "verified"
  BY DEF Packable
<1> QED
  BY <1>1, <1>2, <1>3, Sentinels DEF AllNames

LEMMA CollectGood ==
  ASSUME FilesInv, NEW h \in Hosts, Collect(h)
  PROVE  Good(h)
<1> DEFINE n == Names(h)
           j == [job[h] EXCEPT !.step = "pack", !.names = n]
<1>1. job[h].step = "collect" /\ job' = [job EXCEPT ![h] = j]
  BY DEF Collect
<1>2. HostInv(h) /\ Types /\ job[h] \in Jobs
  BY DEF FilesInv, Types
<1>3. n \in SUBSET AllNames /\ n \cap Files = Tracked(h)
      /\ \A x \in n \cap Externals : list[h].external[x] = "verified"
  BY <1>2, NamesFacts
<1> HIDE DEF n
<1>4. j \in Jobs /\ j.step = "pack" /\ j.names = n
  BY <1>2, <1>3 DEF Jobs, JobSteps
<1> HIDE DEF j
<1>5. Quiet(h) /\ job'[h] = j /\ list' = list /\ log' = log /\ lock' = lock
  BY <1>1, <1>4, GoesOn DEF Collect
<1>6. h \notin marker
  BY <1>1, <1>2 DEF HostInv, KindInv, SyncSteps
<1>7. KindInv(h)' /\ BaseInv(h)' /\ FreshInv(h)'
  BY <1>4, <1>5, <1>6, SyncStepKeeps DEF SyncSteps
<1>8. LockInv(h)'
  BY <1>1, <1>2, <1>4, <1>5 DEF HostInv, LockInv, Quiet, SyncSteps, Importing
<1>9. AddsInv(h)'
  BY <1>1, <1>2, <1>5 DEF HostInv, AddsInv, Quiet
<1>10. ConsentInv(h)'
  <2>1. h \notin crossed => Vouched(h)
    BY <1>1, <1>2, <1>6 DEF HostInv, ConsentInv, Importing
  <2>2. h \notin crossed => n \cap Externals \subseteq consent[h]
    BY <1>3, <2>1 DEF Vouched
  <2> QED
    BY <1>4, <1>5, <2>1, <2>2 DEF ConsentInv, Vouched, Quiet
<1>11. TidyInv(h)'
  <2>1. n \cap Files \subseteq Sources \cup list[h].tracked
    BY <1>3 DEF Tracked
  <2> QED
    BY <1>2, <1>4, <1>5, <2>1 DEF HostInv, TidyInv, Quiet, ImportSteps, AfterUnpack
<1> QED
  BY <1>5, <1>7, <1>8, <1>9, <1>10, <1>11, QuietGood DEF HostInv

LEMMA PackedFacts ==
  ASSUME Types, NEW h \in Hosts, NEW names
  PROVE  /\ Packed(h, names) \in Archives
         /\ \A f \in Files : Packed(h, names).raw[f] = IF f \in names THEN file[h][f] ELSE Gone
         /\ Packed(h, names).list = list[h] /\ Packed(h, names).log = log[h]
         /\ Packed(h, names).packed = names \cap Externals
         /\ Packed(h, names).skills = skills[h] /\ Packed(h, names).sessions = sessions[h]
<1> DEFINE r == [f \in Files |-> IF f \in names THEN file[h][f] ELSE Gone]
           p == names \cap Externals
<1>1. /\ list[h] \in Lists /\ log[h] \in SUBSET Files
      /\ skills[h] \in Contents /\ sessions[h] \in Contents
  BY DEF Types
<1>2. r \in [Files -> Contents] /\ p \in SUBSET Externals
  BY Sentinels DEF Types
<1>3. Packed(h, names) = [raw |-> r, list |-> list[h], log |-> log[h], packed |-> p,
                          skills |-> skills[h], sessions |-> sessions[h]]
  BY DEF Packed
<1>4. \A f \in Files : r[f] = IF f \in names THEN file[h][f] ELSE Gone
  OBVIOUS
<1> HIDE DEF r, p
<1>5. Packed(h, names) \in Archives
  BY <1>1, <1>2, <1>3 DEF Archives
<1> QED
  BY <1>3, <1>4, <1>5 DEF p

LEMMA PackGood ==
  ASSUME FilesInv, NEW h \in Hosts, Pack(h)
  PROVE  Good(h)
<1> DEFINE n == job[h].names
           a == Packed(h, n)
           j == [job[h] EXCEPT !.step = "upload", !.archive = a]
<1>1. job[h].step = "pack" /\ job' = [job EXCEPT ![h] = j]
  BY DEF Pack
<1>2. HostInv(h) /\ Types /\ job[h] \in Jobs
  BY DEF FilesInv, Types
<1>3. /\ a \in Archives
      /\ \A f \in Files : a.raw[f] = IF f \in n THEN file[h][f] ELSE Gone
      /\ a.list = list[h] /\ a.packed = n \cap Externals
      /\ a.skills = skills[h] /\ a.sessions = sessions[h]
  BY <1>2, PackedFacts
<1> HIDE DEF a
<1>4. j \in Jobs /\ j.step = "upload" /\ j.archive = a
  BY <1>2, <1>3 DEF Jobs, JobSteps
<1> HIDE DEF j
<1>5. Quiet(h) /\ job'[h] = j /\ list' = list /\ log' = log /\ lock' = lock
  BY <1>1, <1>4, GoesOn DEF Pack
<1>6. h \notin marker
  BY <1>1, <1>2 DEF HostInv, KindInv, SyncSteps
<1>7. KindInv(h)' /\ BaseInv(h)' /\ FreshInv(h)'
  BY <1>4, <1>5, <1>6, SyncStepKeeps DEF SyncSteps
<1>8. LockInv(h)'
  BY <1>1, <1>2, <1>4, <1>5 DEF HostInv, LockInv, Quiet, SyncSteps, Importing
<1>9. AddsInv(h)'
  BY <1>1, <1>2, <1>5 DEF HostInv, AddsInv, Quiet
<1>10. ConsentInv(h)'
  <2>1. h \notin crossed => Vouched(h) /\ n \cap Externals \subseteq consent[h]
    BY <1>1, <1>2, <1>6 DEF HostInv, ConsentInv, Importing
  <2> QED
    BY <1>3, <1>4, <1>5, <2>1 DEF ConsentInv, Vouched, Quiet
<1>11. Tidy(a)
  <2>1. n \cap Files \subseteq Sources \cup list[h].tracked
    BY <1>1, <1>2 DEF HostInv, TidyInv
  <2>2. runtime # "hermes" => skills[h] = Gone /\ sessions[h] = Gone
    BY <1>2 DEF HostInv, TidyInv
  <2> QED
    BY <1>3, <2>1, <2>2 DEF Tidy
<1>12. TidyInv(h)'
  BY <1>2, <1>3, <1>4, <1>5, <1>11 DEF HostInv, TidyInv, Quiet, Tidy
<1> QED
  BY <1>5, <1>7, <1>8, <1>9, <1>10, <1>12, QuietGood DEF HostInv

\* A job that ends, and changes nothing else.
LEMMA IdleGood ==
  ASSUME FilesInv, NEW h \in Hosts, EndJob(h), job[h].step \in SyncSteps \ {"prune_save", "prune_log"},
         UNCHANGED <<disk, list, log, lock, marker, base, cursor, past>>,
         Untouched
  PROVE  Good(h)
<1>1. HostInv(h) /\ Types
  BY DEF FilesInv
<1>2. Quiet(h) /\ job'[h].step = "idle" /\ list' = list /\ log' = log /\ lock' = lock
  <2>1. job' = [job EXCEPT ![h] = NoJob]
    BY DEF EndJob
  <2> QED
    BY <2>1, GoesOn, NoJobType
<1>3. h \notin marker
  BY <1>1 DEF HostInv, KindInv
<1>4. KindInv(h)' /\ BaseInv(h)' /\ FreshInv(h)'
  BY <1>2, <1>3, SyncStepKeeps
<1>5. LockInv(h)'
  BY <1>1, <1>2 DEF HostInv, LockInv, Quiet, SyncSteps, Importing
<1>6. AddsInv(h)'
  BY <1>1, <1>2 DEF HostInv, AddsInv, Quiet
<1>7. ConsentInv(h)'
  <2>1. h \notin crossed => Vouched(h)
    BY <1>1, <1>3 DEF HostInv, ConsentInv, Importing, SyncSteps
  <2> QED
    BY <1>2, <2>1 DEF ConsentInv, Vouched, Quiet
<1>8. TidyInv(h)'
  BY <1>1, <1>2 DEF HostInv, TidyInv, Quiet, ImportSteps, AfterUnpack
<1> QED
  BY <1>2, <1>4, <1>5, <1>6, <1>7, <1>8, QuietGood DEF HostInv

LEMMA PackFailsGood ==
  ASSUME FilesInv, NEW h \in Hosts, PackFails(h)
  PROVE  Good(h)
BY IdleGood DEF PackFails, SyncSteps

\* What a delta makes of the head is the archive that it was made from, when the
\* head is the base, but for the skills.
LEMMA RebuiltFacts ==
  ASSUME head \in Archives, NEW prev \in Archives, NEW curr \in Archives,
         Same(head, prev), ~TrackedFilesChanged(prev, curr)
  PROVE  /\ Rebuilt(prev, curr) \in Archives /\ Same(Rebuilt(prev, curr), curr)
         /\ Rebuilt(prev, curr).skills = head.skills
<1> DEFINE r == [f \in Files |-> IF f \in DiffRawTrees(prev, curr) THEN curr.raw[f] ELSE head.raw[f]]
           p == curr.packed
           s == curr.sessions
           new == [head EXCEPT !.raw = r, !.packed = p, !.sessions = s]
<1>1. Rebuilt(prev, curr) = new
  BY DEF Rebuilt
<1>2. /\ head.raw \in [Files -> Contents] /\ curr.raw \in [Files -> Contents]
      /\ p \in SUBSET Externals /\ s \in Contents
  BY DEF Archives
<1>3. r = curr.raw
  <2>1. \A f \in Files : r[f] = curr.raw[f]
    BY DEF DiffRawTrees, Same
  <2> QED
    BY <1>2, <2>1
<1>4. prev.list = curr.list /\ prev.log = curr.log
  BY DEF TrackedFilesChanged, TrackedMap
<1>5. r \in [Files -> Contents]
  BY <1>2, <1>3
<1> HIDE DEF r
<1>6. /\ new \in Archives /\ new.raw = r /\ new.list = head.list /\ new.log = head.log
      /\ new.packed = p /\ new.sessions = s /\ new.skills = head.skills
  BY <1>2, <1>5 DEF Archives
<1> QED
  BY <1>1, <1>3, <1>4, <1>6 DEF Same

LEMMA UploadedGood ==
  ASSUME FilesInv, NEW h \in Hosts, NEW a \in Archives,
         job[h].step = "upload", EndJob(h), Uploaded(h, a),
         Tidy(a), Same(a, job[h].archive),
         UNCHANGED <<runtime, disk, list, log, blessed, adding, lock, marker, past, bounds>>
  PROVE  Good(h)
<1>1. HostInv(h) /\ Types
  BY DEF FilesInv
<1>2. /\ runtime' = runtime /\ file' = file /\ skills' = skills /\ sessions' = sessions
      /\ list' = list /\ log' = log /\ blessed' = blessed /\ adding' = adding
      /\ lock' = lock /\ marker' = marker
      /\ acked' = acked /\ unnoted' = unnoted /\ consent' = consent
      /\ crossed' = crossed /\ fresh' = fresh
      /\ head' = a /\ version' = version + 1
      /\ base' = [base EXCEPT ![h] = job[h].archive]
      /\ cursor' = [cursor EXCEPT ![h] = version + 1]
  BY DEF disk, past, Uploaded
<1>3. job[h].archive \in Archives /\ h \notin marker /\ version \in Nat
  BY <1>1 DEF HostInv, TidyInv, KindInv, SyncSteps, Types
<1>4. /\ job' \in [Hosts -> Jobs] /\ \A g \in Hosts \ {h} : job'[g] = job[g]
      /\ job'[h].step = "idle"
  BY <1>1, EndOf
<1>5. /\ base' \in [Hosts -> Archives \cup {Nothing}] /\ base'[h] = job[h].archive
      /\ \A g \in Hosts \ {h} : base'[g] = base[g]
  BY <1>1, <1>2, <1>3 DEF Types
<1>6. /\ cursor' \in [Hosts -> Nat] /\ cursor'[h] = version + 1
      /\ \A g \in Hosts \ {h} : cursor'[g] = cursor[g]
  BY <1>1, <1>2, <1>3 DEF Types
<1>7. Types'
  BY <1>1, <1>2, <1>3, <1>4, <1>5, <1>6 DEF Types
<1>8. HeadInv' /\ Service
  <2>1. version' # 0 /\ head' # Nothing
    BY <1>2, <1>3, Sentinels
  <2>2. Tidy(head)'
    BY <1>2 DEF Tidy
  <2> QED
    BY <1>2, <2>1, <2>2 DEF HeadInv, Service
<1>9. Others(h)
  BY <1>2, <1>4, <1>5, <1>6 DEF Others
<1>10. LockInv(h)' /\ KindInv(h)'
  BY <1>1, <1>2, <1>4 DEF HostInv, LockInv, KindInv, SyncSteps, ImportSteps, AfterUnpack, Importing
<1>11. AddsInv(h)'
  BY <1>1, <1>2, <1>4 DEF HostInv, AddsInv
<1>12. ConsentInv(h)'
  <2>1. h \notin crossed => Vouched(h)
    BY <1>1, <1>3 DEF HostInv, ConsentInv, Importing
  <2> QED
    BY <1>2, <1>4, <2>1 DEF ConsentInv, Vouched
<1>13. TidyInv(h)' /\ FreshInv(h)'
  BY <1>1, <1>2, <1>4 DEF HostInv, TidyInv, FreshInv, ImportSteps, AfterUnpack
<1>14. BaseInv(h)'
  <2>1. cursor'[h] = version' /\ cursor'[h] # 0 /\ base'[h] # Nothing
    BY <1>2, <1>3, <1>5, <1>6, Sentinels
  <2>2. Same(head, base[h])'
    BY <1>2, <1>5 DEF Same
  <2>3. job'[h].step \notin ImportSteps
    BY <1>4 DEF ImportSteps, AfterUnpack
  <2>4. cursor'[h] <= version'
    BY <1>2, <1>3, <1>6
  <2> QED
    BY <2>1, <2>2, <2>3, <2>4 DEF BaseInv
<1> QED
  BY <1>7, <1>8, <1>9, <1>10, <1>11, <1>12, <1>13, <1>14 DEF Good, HostInv

LEMMA UploadGood ==
  ASSUME FilesInv, NEW h \in Hosts, Upload(h)
  PROVE  Good(h)
<1> DEFINE curr == job[h].archive
<1>1. /\ job[h].step = "upload" /\ EndJob(h)
      /\ UNCHANGED <<runtime, disk, list, log, blessed, adding, lock, marker, past, bounds>>
  BY DEF Upload
<1>2. HostInv(h) /\ Types /\ HeadInv
  BY DEF FilesInv
<1>3. curr \in Archives /\ Tidy(curr)
  BY <1>1, <1>2 DEF HostInv, TidyInv
<1>4. CASE Uploaded(h, curr)
  <2>1. Same(curr, curr)
    BY DEF Same
  <2> QED
    BY <1>1, <1>3, <1>4, <2>1, UploadedGood
<1>5. CASE /\ base[h] # Nothing /\ ~TrackedFilesChanged(base[h], curr) /\ cursor[h] = version
           /\ Uploaded(h, Rebuilt(base[h], curr))
  <2>1. base[h] \in Archives
    BY <1>2, <1>5 DEF Types
  <2>2. version # 0 /\ cursor[h] # 0
    BY <1>2, <1>5 DEF HostInv, BaseInv
  <2>3. version > 0
    BY <1>2, <2>2 DEF Types
  <2>4. Same(head, base[h])
    BY <1>2, <1>5, <2>3 DEF HostInv, BaseInv
  <2>5. head \in Archives /\ Tidy(head)
    BY <1>2, <2>2 DEF HeadInv, Types
  <2> DEFINE new == Rebuilt(base[h], curr)
  <2>6. new \in Archives /\ Same(new, curr) /\ new.skills = head.skills
    BY <1>3, <1>5, <2>1, <2>4, <2>5, RebuiltFacts
  <2>7. Uploaded(h, new)
    BY <1>5
  <2> HIDE DEF new
  <2>8. Tidy(new)
    BY <1>3, <2>5, <2>6 DEF Tidy, Same
  <2> QED
    BY <1>1, <2>6, <2>7, <2>8, UploadedGood
<1>6. CASE UNCHANGED <<head, version, base, cursor>>
  <2>1. UNCHANGED <<disk, list, log, lock, marker, base, cursor, past>> /\ Untouched
    BY <1>1, <1>6 DEF Untouched, bounds
  <2>2. job[h].step \in SyncSteps \ {"prune_save", "prune_log"}
    BY <1>1 DEF SyncSteps
  <2> QED
    BY <1>1, <2>1, <2>2, IdleGood
<1>7. \/ Uploaded(h, curr)
      \/ /\ base[h] # Nothing /\ ~TrackedFilesChanged(base[h], curr) /\ cursor[h] = version
         /\ Uploaded(h, Rebuilt(base[h], curr))
      \/ UNCHANGED <<head, version, base, cursor>>
  <2>1. CASE base[h] = Nothing
    BY <2>1 DEF Upload
  <2>2. CASE base[h] # Nothing /\ TrackedFilesChanged(base[h], curr)
    BY <2>2 DEF Upload
  <2>3. CASE base[h] # Nothing /\ ~TrackedFilesChanged(base[h], curr)
    BY <2>3 DEF Upload
  <2> QED
    BY <2>1, <2>2, <2>3
<1> QED
  BY <1>4, <1>5, <1>6, <1>7

-----------------------------------------------------------------------------
(***************************************************************************)
(* Restore and import                                                      *)
(***************************************************************************)
LEMMA EntriesFacts ==
  ASSUME NEW a \in Archives
  PROVE  /\ Entries(a) \in SUBSET AllNames
         /\ \A f \in Files : f \in Entries(a) <=> a.raw[f] # Gone
         /\ "list" \in Entries(a) <=> a.list # NoList
         /\ "log" \in Entries(a) <=> a.log # {}
<1>1. "list" # "log"
  OBVIOUS
<1> QED
  BY <1>1, Sentinels DEF Entries, AllNames

LEMMA RestoreGood ==
  ASSUME FilesInv, NEW h \in Hosts, NEW kind \in {"restore", "import"}, Restore(h, kind)
  PROVE  Good(h)
<1> DEFINE n == Entries(head)
           j == [NoJob EXCEPT !.step = "unpack", !.kind = kind, !.archive = head,
                              !.names = n, !.seq = version]
<1>1. /\ runtime' = runtime /\ file' = file /\ skills' = skills /\ sessions' = sessions
      /\ list' = list /\ log' = log /\ blessed' = blessed /\ adding' = adding /\ lock' = lock
      /\ base' = base /\ cursor' = cursor /\ head' = head /\ version' = version
      /\ acked' = acked /\ unnoted' = unnoted /\ consent' = consent
      /\ job[h].step = "idle" /\ head # Nothing /\ job' = [job EXCEPT ![h] = j]
      /\ marker' = IF kind = "restore" THEN marker \cup {h} ELSE marker
      /\ crossed' = IF adding[h].step # "idle" THEN crossed \cup {h} ELSE crossed
      /\ fresh' = IF Bare(h) THEN fresh \cup {h} ELSE fresh \ {h}
  BY DEF Restore, Untouched, disk
<1>2. HostInv(h) /\ Types /\ HeadInv
  BY DEF FilesInv
<1>3. head \in Archives /\ version \in Nat /\ version > 0 /\ Tidy(head)
  BY <1>1, <1>2 DEF Types, HeadInv
<1>4. /\ n \in SUBSET AllNames /\ \A f \in Files : f \in n <=> head.raw[f] # Gone
      /\ "list" \in n <=> head.list # NoList
      /\ "log" \in n <=> head.log # {}
  BY <1>3, EntriesFacts
<1> HIDE DEF n
<1>5. /\ j \in Jobs /\ j.step = "unpack" /\ j.kind = kind /\ j.archive = head
      /\ j.names = n /\ j.seq = version
  BY <1>3, <1>4, NoJobType DEF Jobs, JobSteps
<1> HIDE DEF j
<1>6. job' \in [Hosts -> Jobs] /\ job'[h] = j /\ \A g \in Hosts \ {h} : job'[g] = job[g]
  BY <1>1, <1>2, <1>5, JobOf
<1>7. Types'
  <2>1. marker' \subseteq Hosts /\ crossed' \subseteq Hosts /\ fresh' \subseteq Hosts
    BY <1>1, <1>2 DEF Types
  <2> QED
    BY <1>1, <1>2, <1>6, <2>1 DEF Types
<1>8. HeadInv' /\ Service
  BY <1>1, HeadKeeps
<1>9. Others(h)
  BY <1>1, <1>6 DEF Others
<1>10. adding[h].step = "save" => h \in crossed'
  BY <1>1
<1>11. LockInv(h)'
  BY <1>1, <1>2, <1>5, <1>6, <1>10 DEF HostInv, LockInv, SyncSteps
<1>12. KindInv(h)'
  BY <1>1, <1>3, <1>5, <1>6 DEF KindInv, SyncSteps
<1>13. h \notin crossed' => h \notin crossed
  BY <1>1
<1>14. AddsInv(h)'
  BY <1>1, <1>2, <1>13 DEF HostInv, AddsInv
<1>15. ConsentInv(h)'
  BY <1>5, <1>6 DEF ConsentInv, Importing
<1>16. Tidy(head)'
  BY <1>1, <1>3 DEF Tidy
<1>17. TidyInv(h)'
  BY <1>1, <1>2, <1>5, <1>6, <1>16 DEF HostInv, TidyInv
<1>18. BaseInv(h)'
  BY <1>1, <1>2, <1>3, <1>5, <1>6 DEF HostInv, BaseInv, Same
<1>19. FreshInv(h)'
  <2> SUFFICES ASSUME Bare(h)
               PROVE  FreshInv(h)'
    BY <1>1 DEF FreshInv
  <2>1. adding'[h].step = "idle"
    BY <1>1 DEF Bare
  <2>2. \A f \in Files : file'[h][f] = IF f \in n THEN Gone ELSE head.raw[f]
    BY <1>1, <1>4 DEF Bare
  <2>3. list'[h] = IF "list" \in n THEN NoList ELSE head.list
    BY <1>1, <1>4 DEF Bare
  <2>4. log'[h] = IF "log" \in n THEN {} ELSE head.log
    BY <1>1, <1>4 DEF Bare
  <2>5. sessions'[h] = Gone /\ skills'[h] = Gone
    BY <1>1 DEF Bare
  <2>6. job'[h].step = "unpack" /\ job'[h].archive = head /\ job'[h].names = n
    BY <1>5, <1>6
  <2> QED
    BY <2>1, <2>2, <2>3, <2>4, <2>5, <2>6 DEF FreshInv, AfterUnpack
<1> QED
  BY <1>7, <1>8, <1>9, <1>11, <1>12, <1>14, <1>15, <1>17, <1>18, <1>19 DEF Good, HostInv

LEMMA UnpackGood ==
  ASSUME FilesInv, NEW h \in Hosts, Unpack(h)
  PROVE  Good(h)
<1> DEFINE a == job[h].archive
<1>0. PICK e \in job[h].names :
        /\ job' = [job EXCEPT ![h].names = @ \ {e}]
        /\ IF e \in Files
           THEN file' = [file EXCEPT ![h][e] = a.raw[e]] ELSE UNCHANGED file
        /\ list' = IF e = "list" THEN [list EXCEPT ![h] = a.list] ELSE list
        /\ log' = IF e = "log" THEN [log EXCEPT ![h] = a.log] ELSE log
        /\ acked' = CASE e = "list" -> [acked EXCEPT ![h] = {}]
                      [] e = "log"  -> [acked EXCEPT ![h] = @ \cap list[h].tracked]
                      [] OTHER      -> acked
        /\ consent' = IF e = "list" THEN [consent EXCEPT ![h] = {}] ELSE consent
  BY Zenon DEF Unpack
<1> DEFINE n == job[h].names \ {e}
           j == [job[h] EXCEPT !.names = n]
           t == acked[h] \cap list[h].tracked
           new == [file[h] EXCEPT ![e] = a.raw[e]]
<1>1. /\ runtime' = runtime /\ skills' = skills /\ sessions' = sessions
      /\ blessed' = blessed /\ adding' = adding /\ lock' = lock /\ marker' = marker
      /\ base' = base /\ cursor' = cursor /\ head' = head /\ version' = version
      /\ crossed' = crossed /\ fresh' = fresh /\ unnoted' = unnoted /\ job[h].step = "unpack"
  BY DEF Unpack, Untouched
<1>2. HostInv(h) /\ Types
  BY DEF FilesInv
<1>3. job[h] \in Jobs /\ a \in Archives
  BY <1>1, <1>2 DEF Types, HostInv, KindInv, ImportSteps
<1>4. a.raw \in [Files -> Contents] /\ a.list \in Lists /\ a.log \in SUBSET Files
  BY <1>3 DEF Archives
<1>5. /\ j \in Jobs /\ j.step = "unpack" /\ j.kind = job[h].kind /\ j.archive = a
      /\ j.names = n /\ j.seq = job[h].seq /\ j.list = job[h].list
  BY <1>1, <1>3 DEF Jobs
<1>6. job' = [job EXCEPT ![h] = j]
  BY <1>0
<1> HIDE DEF j
<1>7. job' \in [Hosts -> Jobs] /\ job'[h] = j /\ \A g \in Hosts \ {h} : job'[g] = job[g]
  BY <1>2, <1>5, <1>6, JobOf
<1>8. "list" # "log"
  OBVIOUS
<1>9. /\ file' \in [Hosts -> [Files -> Contents]] /\ \A g \in Hosts \ {h} : file'[g] = file[g]
      /\ \A f \in Files : file'[h][f] = IF f = e THEN a.raw[f] ELSE file[h][f]
  <2>1. CASE e \in Files
    <3>1. new \in [Files -> Contents] /\ \A f \in Files : new[f] = IF f = e THEN a.raw[f] ELSE file[h][f]
      BY <1>2, <1>4, <2>1 DEF Types
    <3>2. file' = [file EXCEPT ![h] = new]
      BY <1>0, <2>1
    <3> HIDE DEF new
    <3> QED
      BY <1>2, <3>1, <3>2 DEF Types
  <2>2. CASE e \notin Files
    BY <1>0, <1>2, <2>2 DEF Types
  <2> QED
    BY <2>1, <2>2
<1>10. /\ list' \in [Hosts -> Lists] /\ \A g \in Hosts \ {h} : list'[g] = list[g]
       /\ list'[h] = IF e = "list" THEN a.list ELSE list[h]
  BY <1>0, <1>2, <1>4 DEF Types
<1>11. /\ log' \in [Hosts -> SUBSET Files] /\ \A g \in Hosts \ {h} : log'[g] = log[g]
       /\ log'[h] = IF e = "log" THEN a.log ELSE log[h]
  BY <1>0, <1>2, <1>4 DEF Types
<1>12. /\ consent' \in [Hosts -> SUBSET Externals]
       /\ \A g \in Hosts \ {h} : consent'[g] = consent[g]
  BY <1>0, <1>2 DEF Types
<1>13. /\ acked' \in [Hosts -> SUBSET Files] /\ \A g \in Hosts \ {h} : acked'[g] = acked[g]
       /\ e = "list" => acked'[h] = {}
       /\ e = "log" => acked'[h] = t
       /\ e \notin {"list", "log"} => acked'[h] = acked[h]
  <2>1. CASE e = "list"
    <3>1. acked' = [acked EXCEPT ![h] = {}]
      BY <1>0, <2>1
    <3> QED
      BY <1>2, <1>8, <2>1, <3>1 DEF Types
  <2>2. CASE e = "log"
    <3>1. acked' = [acked EXCEPT ![h] = t]
      BY <1>0, <1>8, <2>2
    <3>2. t \in SUBSET Files
      BY <1>2 DEF Types
    <3> HIDE DEF t
    <3> QED
      BY <1>2, <1>8, <2>2, <3>1, <3>2 DEF Types
  <2>3. CASE e \notin {"list", "log"}
    <3>1. acked' = acked
      BY <1>0, <2>3
    <3> QED
      BY <1>2, <2>3, <3>1 DEF Types
  <2> QED
    BY <2>1, <2>2, <2>3
<1>14. Types'
  BY <1>1, <1>2, <1>7, <1>9, <1>10, <1>11, <1>12, <1>13 DEF Types
<1>15. HeadInv' /\ Service
  BY <1>1, HeadKeeps
<1>16. Others(h)
  BY <1>1, <1>7, <1>9, <1>10, <1>11, <1>12, <1>13 DEF Others
<1>17. LockInv(h)'
  <2>1. adding[h].step = "save" => h \in crossed
    BY <1>1, <1>2 DEF HostInv, LockInv, Importing
  <2> QED
    BY <1>1, <1>2, <1>5, <1>7, <2>1 DEF HostInv, LockInv, SyncSteps
<1>18. KindInv(h)'
  BY <1>1, <1>2, <1>3, <1>5, <1>7 DEF HostInv, KindInv, SyncSteps, ImportSteps
<1>19. AddsInv(h)'
  <2> SUFFICES ASSUME h \notin crossed, NEW f \in acked'[h]
               PROVE  f \in list'[h].tracked \cup log'[h] \cup unnoted'[h]
    BY <1>1 DEF AddsInv
  <2>1. e # "list"
    BY <1>13
  <2>2. CASE e = "log"
    BY <1>8, <1>10, <1>13, <2>2
  <2>3. CASE e # "log"
    <3>1. acked'[h] = acked[h] /\ list'[h] = list[h] /\ log'[h] = log[h]
      BY <1>10, <1>11, <1>13, <2>1, <2>3
    <3> QED
      BY <1>1, <1>2, <3>1 DEF HostInv, AddsInv
  <2> QED
    BY <2>2, <2>3
<1>20. ConsentInv(h)'
  BY <1>5, <1>7 DEF ConsentInv, Importing
<1>21. TidyInv(h)'
  <2>1. Tidy(a)
    BY <1>1, <1>2 DEF HostInv, TidyInv, ImportSteps
  <2>2. runtime # "hermes" => skills[h] = Gone /\ sessions[h] = Gone
    BY <1>2 DEF HostInv, TidyInv
  <2> QED
    BY <1>1, <1>5, <1>7, <2>1, <2>2 DEF TidyInv, Tidy
<1>22. BaseInv(h)'
  BY <1>1, <1>2, <1>5, <1>7 DEF HostInv, BaseInv, Same, ImportSteps
<1>23. FreshInv(h)'
  <2> SUFFICES ASSUME h \in fresh
               PROVE  FreshInv(h)'
    BY <1>1 DEF FreshInv
  <2>1. /\ adding[h].step = "idle"
        /\ \A f \in Files : file[h][f] = IF f \in job[h].names THEN Gone ELSE a.raw[f]
        /\ list[h] = IF "list" \in job[h].names THEN NoList ELSE a.list
        /\ log[h] = IF "log" \in job[h].names THEN {} ELSE a.log
        /\ sessions[h] = Gone /\ skills[h] = Gone
    BY <1>1, <1>2 DEF HostInv, FreshInv, ImportSteps, AfterUnpack
  <2>2. \A f \in Files : file'[h][f] = IF f \in n THEN Gone ELSE a.raw[f]
    BY <1>9, <2>1
  <2>3. list'[h] = IF "list" \in n THEN NoList ELSE a.list
    BY <1>10, <2>1
  <2>4. log'[h] = IF "log" \in n THEN {} ELSE a.log
    BY <1>11, <2>1
  <2>5. /\ adding'[h].step = "idle" /\ sessions'[h] = Gone /\ skills'[h] = Gone
        /\ job'[h].step = "unpack" /\ job'[h].archive = a /\ job'[h].names = n
    BY <1>1, <1>5, <1>7, <2>1
  <2> QED
    BY <2>2, <2>3, <2>4, <2>5 DEF FreshInv, AfterUnpack
<1> QED
  BY <1>14, <1>15, <1>16, <1>17, <1>18, <1>19, <1>20, <1>21, <1>22, <1>23 DEF Good, HostInv

LEMMA MarkInertLoadGood ==
  ASSUME FilesInv, NEW h \in Hosts, MarkInertLoad(h)
  PROVE  Good(h)
<1> DEFINE j == [job[h] EXCEPT !.step = "inert_save", !.list = list[h]]
<1>1. job[h].step = "unpack" /\ job[h].names = {} /\ job' = [job EXCEPT ![h] = j]
  BY DEF MarkInertLoad
<1>2. HostInv(h) /\ Types /\ job[h] \in Jobs /\ list[h] \in Lists
  BY DEF FilesInv, Types
<1>3. /\ j \in Jobs /\ j.step = "inert_save" /\ j.list = list[h] /\ j.kind = job[h].kind
      /\ j.archive = job[h].archive /\ j.seq = job[h].seq /\ j.names = job[h].names
  BY <1>2 DEF Jobs, JobSteps
<1> HIDE DEF j
<1>4. Quiet(h) /\ job'[h] = j /\ list' = list /\ log' = log /\ lock' = lock
  BY <1>1, <1>3, GoesOn DEF MarkInertLoad
<1>5. LockInv(h)'
  <2>1. adding[h].step = "save" => h \in crossed
    BY <1>1, <1>2 DEF HostInv, LockInv, Importing
  <2> QED
    BY <1>2, <1>3, <1>4, <2>1 DEF HostInv, LockInv, SyncSteps, Quiet
<1>6. KindInv(h)'
  BY <1>1, <1>2, <1>3, <1>4 DEF HostInv, KindInv, SyncSteps, ImportSteps, Quiet
<1>7. AddsInv(h)'
  BY <1>1, <1>2, <1>4 DEF HostInv, AddsInv, Quiet
<1>8. ConsentInv(h)'
  BY <1>3, <1>4 DEF ConsentInv, Importing
<1>9. TidyInv(h)'
  <2>1. Tidy(job[h].archive)
    BY <1>1, <1>2 DEF HostInv, TidyInv, ImportSteps
  <2> QED
    BY <1>2, <1>3, <1>4, <2>1 DEF HostInv, TidyInv, Tidy, Quiet
<1>10. BaseInv(h)'
  BY <1>1, <1>2, <1>3, <1>4 DEF HostInv, BaseInv, Same, ImportSteps, Quiet
<1>11. FreshInv(h)'
  <2> SUFFICES ASSUME h \in fresh
               PROVE  FreshInv(h)'
    BY <1>4 DEF FreshInv, Quiet
  <2>1. /\ adding[h].step = "idle"
        /\ \A f \in Files : file[h][f] = job[h].archive.raw[f]
        /\ list[h] = job[h].archive.list /\ log[h] = job[h].archive.log
        /\ sessions[h] = Gone /\ skills[h] = Gone
    BY <1>1, <1>2 DEF HostInv, FreshInv, ImportSteps, AfterUnpack
  <2> QED
    BY <1>3, <1>4, <2>1 DEF FreshInv, AfterUnpack, Quiet
<1> QED
  BY <1>4, <1>5, <1>6, <1>7, <1>8, <1>9, <1>10, <1>11, QuietGood DEF HostInv

LEMMA InertFacts ==
  ASSUME NEW old \in Lists
  PROVE  /\ Inert(old) \in Lists /\ Inert(old).tracked = old.tracked
         /\ \A x \in Externals : Inert(old).external[x] # "verified"
<1> DEFINE e == [x \in Externals |-> IF old.external[x] = "verified" THEN "inert" ELSE old.external[x]]
<1>1. e \in [Externals -> {"none", "verified", "inert"}] /\ \A x \in Externals : e[x] # "verified"
  BY DEF Lists
<1>2. Inert(old) = [old EXCEPT !.external = e]
  BY DEF Inert
<1> HIDE DEF e
<1> QED
  BY <1>1, <1>2 DEF Lists

\* An import that goes on keeps its archive, its mark and what it knows.
LEMMA ImportGoesOn ==
  ASSUME FilesInv, NEW h \in Hosts, job[h].step \in ImportSteps,
         NEW s \in AfterUnpack, Step(h, s),
         runtime' = runtime, marker' = marker, base' = base, cursor' = cursor,
         head' = head, version' = version,
         runtime # "hermes" => skills'[h] = Gone /\ sessions'[h] = Gone
  PROVE  /\ KindInv(h)' /\ TidyInv(h)' /\ BaseInv(h)' /\ HeadInv' /\ Service
         /\ job' \in [Hosts -> Jobs] /\ \A g \in Hosts \ {h} : job'[g] = job[g]
         /\ job'[h].step = s /\ job'[h].archive = job[h].archive
<1>1. HostInv(h) /\ Types /\ s \in JobSteps
  BY DEF FilesInv, JobSteps, AfterUnpack
<1>2. /\ job' \in [Hosts -> Jobs] /\ \A g \in Hosts \ {h} : job'[g] = job[g]
      /\ job'[h].step = s /\ job'[h].kind = job[h].kind
      /\ job'[h].archive = job[h].archive /\ job'[h].seq = job[h].seq
  BY <1>1, StepOf
<1>3. KindInv(h)'
  BY <1>1, <1>2 DEF HostInv, KindInv, SyncSteps, ImportSteps, AfterUnpack
<1>4. TidyInv(h)'
  <2>1. Tidy(job[h].archive)
    BY <1>1 DEF HostInv, TidyInv
  <2> QED
    BY <1>2, <2>1 DEF TidyInv, Tidy, AfterUnpack
<1>5. BaseInv(h)'
  BY <1>1, <1>2 DEF HostInv, BaseInv, Same
<1> QED
  BY <1>2, <1>3, <1>4, <1>5, HeadKeeps

LEMMA MarkInertSaveGood ==
  ASSUME FilesInv, NEW h \in Hosts, MarkInertSave(h)
  PROVE  Good(h)
<1> DEFINE old == job[h].list
           s == AfterInert(runtime)
           a == job[h].archive
<1>1. /\ runtime' = runtime /\ file' = file /\ skills' = skills /\ sessions' = sessions
      /\ log' = log /\ blessed' = blessed /\ adding' = adding /\ lock' = lock
      /\ marker' = marker /\ base' = base /\ cursor' = cursor
      /\ head' = head /\ version' = version
      /\ acked' = acked /\ unnoted' = unnoted /\ consent' = consent
      /\ crossed' = crossed /\ fresh' = fresh
      /\ job[h].step = "inert_save" /\ Step(h, s)
      /\ Inert(old) # old => list' = [list EXCEPT ![h] = Inert(old)]
      /\ Inert(old) = old => list' = list
  BY DEF MarkInertSave, Untouched, disk, past
<1>2. HostInv(h) /\ Types
  BY DEF FilesInv
<1>3. old \in Lists
  BY <1>2 DEF Types, Jobs
<1>4. Inert(old) \in Lists /\ Inert(old).tracked = old.tracked
      /\ \A x \in Externals : Inert(old).external[x] # "verified"
  BY <1>3, InertFacts
<1>5. s \in {"sessions", "done"} /\ (s = "done" => runtime # "hermes")
  BY DEF AfterInert
<1>6. runtime # "hermes" => skills[h] = Gone /\ sessions[h] = Gone
  BY <1>2 DEF HostInv, TidyInv
<1> HIDE DEF s
<1>7. /\ KindInv(h)' /\ TidyInv(h)' /\ BaseInv(h)' /\ HeadInv' /\ Service
      /\ job' \in [Hosts -> Jobs] /\ \A g \in Hosts \ {h} : job'[g] = job[g]
      /\ job'[h].step = s /\ job'[h].archive = a
  <2>1. job[h].step \in ImportSteps /\ s \in AfterUnpack
    BY <1>1, <1>5 DEF ImportSteps, AfterUnpack
  <2> QED
    BY <1>1, <1>6, <2>1, ImportGoesOn
<1>8. /\ list' \in [Hosts -> Lists]
      /\ \A g \in Hosts \ {h} : list'[g] = list[g]
      /\ old = list[h] => list'[h] = Inert(old)
  <2>1. CASE Inert(old) # old
    BY <1>1, <1>2, <1>4, <2>1 DEF Types
  <2>2. CASE Inert(old) = old
    BY <1>1, <1>2, <2>2 DEF Types
  <2> QED
    BY <2>1, <2>2
<1>9. Types'
  BY <1>1, <1>2, <1>7, <1>8 DEF Types
<1>10. Others(h)
  BY <1>1, <1>7, <1>8 DEF Others
<1>11. h \notin crossed => old = list[h] /\ list'[h] = Inert(old)
  BY <1>1, <1>2, <1>8 DEF HostInv, LockInv
<1>12. LockInv(h)'
  <2>1. adding[h].step = "save" => h \in crossed
    BY <1>1, <1>2 DEF HostInv, LockInv, Importing
  <2> QED
    BY <1>1, <1>2, <1>5, <1>7, <2>1 DEF HostInv, LockInv, SyncSteps
<1>13. AddsInv(h)'
  <2>1. h \notin crossed => list'[h].tracked = list[h].tracked
    BY <1>4, <1>11
  <2> QED
    BY <1>1, <1>2, <2>1 DEF HostInv, AddsInv
<1>14. ConsentInv(h)'
  <2>1. h \notin crossed => Vouched(h)'
    BY <1>4, <1>11 DEF Vouched
  <2> QED
    BY <1>1, <1>5, <1>7, <2>1 DEF ConsentInv
<1>15. FreshInv(h)'
  <2> SUFFICES ASSUME h \in fresh
               PROVE  FreshInv(h)'
    BY <1>1 DEF FreshInv
  <2>1. /\ adding[h].step = "idle"
        /\ \A f \in Files : file[h][f] = a.raw[f]
        /\ list[h] = a.list /\ old = list[h] /\ log[h] = a.log
        /\ sessions[h] = Gone /\ skills[h] = Gone
    BY <1>1, <1>2 DEF HostInv, FreshInv, ImportSteps, AfterUnpack
  <2>2. list'[h] = Inert(a.list)
    BY <1>8, <2>1
  <2>3. s = "done" => a.sessions = Gone /\ a.skills = Gone
    BY <1>1, <1>2, <1>5 DEF HostInv, TidyInv, Tidy, ImportSteps
  <2> QED
    BY <1>1, <1>5, <1>7, <2>1, <2>2, <2>3 DEF FreshInv, AfterUnpack
<1> QED
  BY <1>7, <1>9, <1>10, <1>12, <1>13, <1>14, <1>15 DEF Good, HostInv

LEMMA RebuildSessionsGood ==
  ASSUME FilesInv, NEW h \in Hosts, RebuildSessions(h)
  PROVE  Good(h)
<1> DEFINE a == job[h].archive
<1>1. /\ runtime' = runtime /\ file' = file /\ skills' = skills
      /\ list' = list /\ log' = log /\ blessed' = blessed /\ adding' = adding /\ lock' = lock
      /\ marker' = marker /\ base' = base /\ cursor' = cursor
      /\ head' = head /\ version' = version
      /\ acked' = acked /\ unnoted' = unnoted /\ consent' = consent /\ crossed' = crossed
      /\ job[h].step = "sessions" /\ Step(h, "skills")
      /\ \/ a.sessions = Gone /\ sessions' = sessions /\ fresh' = fresh
         \/ a.sessions # Gone /\ sessions' = [sessions EXCEPT ![h] = a.sessions] /\ fresh' = fresh
         \/ sessions' = [sessions EXCEPT ![h] = Gone] /\ fresh' = fresh \ {h}
  BY DEF RebuildSessions, Untouched
<1>2. HostInv(h) /\ Types /\ job[h].step \in ImportSteps /\ "skills" \in AfterUnpack
  BY <1>1 DEF FilesInv, ImportSteps, AfterUnpack
<1>3. a \in Archives /\ Tidy(a)
  BY <1>2 DEF HostInv, KindInv, TidyInv
<1>4. a.sessions \in Contents /\ Gone \in Contents
  BY <1>3, Sentinels DEF Archives
<1>5. /\ sessions' \in [Hosts -> Contents] /\ fresh' \subseteq fresh
      /\ \A g \in Hosts \ {h} : sessions'[g] = sessions[g] /\ (g \in fresh' <=> g \in fresh)
      /\ sessions'[h] \in {sessions[h], a.sessions, Gone}
      /\ h \in fresh' => h \in fresh /\ (sessions[h] = Gone => sessions'[h] = a.sessions)
  BY <1>1, <1>2, <1>4 DEF Types
<1>6. runtime # "hermes" => skills'[h] = Gone /\ sessions'[h] = Gone
  BY <1>1, <1>2, <1>3, <1>5 DEF HostInv, TidyInv, Tidy
<1>7. /\ KindInv(h)' /\ TidyInv(h)' /\ BaseInv(h)' /\ HeadInv' /\ Service
      /\ job' \in [Hosts -> Jobs] /\ \A g \in Hosts \ {h} : job'[g] = job[g]
      /\ job'[h].step = "skills" /\ job'[h].archive = a
  BY <1>1, <1>2, <1>6, ImportGoesOn
<1>8. Types'
  BY <1>1, <1>2, <1>5, <1>7 DEF Types
<1>9. Others(h)
  BY <1>1, <1>5, <1>7 DEF Others
<1>10. LockInv(h)'
  BY <1>1, <1>2, <1>7 DEF HostInv, LockInv, SyncSteps, Importing
<1>11. AddsInv(h)'
  BY <1>1, <1>2, <1>7 DEF HostInv, AddsInv
<1>12. ConsentInv(h)'
  BY <1>1, <1>2, <1>7 DEF HostInv, ConsentInv, Importing, Vouched, AfterUnpack
<1>13. FreshInv(h)'
  <2> SUFFICES ASSUME h \in fresh'
               PROVE  FreshInv(h)'
    BY DEF FreshInv
  <2>1. /\ adding[h].step = "idle"
        /\ \A f \in Files : file[h][f] = a.raw[f]
        /\ list[h] = Inert(a.list) /\ log[h] = a.log
        /\ sessions[h] = Gone /\ skills[h] = Gone
    BY <1>1, <1>2, <1>5 DEF HostInv, FreshInv, ImportSteps, AfterUnpack
  <2>2. sessions'[h] = a.sessions
    BY <1>5, <2>1
  <2> QED
    BY <1>1, <1>7, <2>1, <2>2 DEF FreshInv, AfterUnpack
<1> QED
  BY <1>7, <1>8, <1>9, <1>10, <1>11, <1>12, <1>13 DEF Good, HostInv

LEMMA RestoreSkillsGood ==
  ASSUME FilesInv, NEW h \in Hosts, RestoreSkills(h)
  PROVE  Good(h)
<1> DEFINE a == job[h].archive
<1>1. /\ runtime' = runtime /\ file' = file /\ sessions' = sessions
      /\ list' = list /\ log' = log /\ blessed' = blessed /\ adding' = adding /\ lock' = lock
      /\ marker' = marker /\ base' = base /\ cursor' = cursor
      /\ head' = head /\ version' = version
      /\ acked' = acked /\ unnoted' = unnoted /\ consent' = consent
      /\ crossed' = crossed /\ fresh' = fresh
      /\ job[h].step = "skills" /\ Step(h, "done")
      /\ skills' = IF a.skills = Gone THEN skills ELSE [skills EXCEPT ![h] = a.skills]
  BY DEF RestoreSkills, Untouched, past
<1>2. HostInv(h) /\ Types /\ job[h].step \in ImportSteps /\ "done" \in AfterUnpack
  BY <1>1 DEF FilesInv, ImportSteps, AfterUnpack
<1>3. a \in Archives /\ Tidy(a)
  BY <1>2 DEF HostInv, KindInv, TidyInv
<1>4. a.skills \in Contents
  BY <1>3 DEF Archives
<1>5. /\ skills' \in [Hosts -> Contents] /\ \A g \in Hosts \ {h} : skills'[g] = skills[g]
      /\ skills'[h] = IF a.skills = Gone THEN skills[h] ELSE a.skills
  BY <1>1, <1>2, <1>4 DEF Types
<1>6. runtime # "hermes" => skills'[h] = Gone /\ sessions'[h] = Gone
  BY <1>1, <1>2, <1>3, <1>5 DEF HostInv, TidyInv, Tidy
<1>7. /\ KindInv(h)' /\ TidyInv(h)' /\ BaseInv(h)' /\ HeadInv' /\ Service
      /\ job' \in [Hosts -> Jobs] /\ \A g \in Hosts \ {h} : job'[g] = job[g]
      /\ job'[h].step = "done" /\ job'[h].archive = a
  BY <1>1, <1>2, <1>6, ImportGoesOn
<1>8. Types'
  BY <1>1, <1>2, <1>5, <1>7 DEF Types
<1>9. Others(h)
  BY <1>1, <1>5, <1>7 DEF Others
<1>10. LockInv(h)'
  BY <1>1, <1>2, <1>7 DEF HostInv, LockInv, SyncSteps, Importing
<1>11. AddsInv(h)'
  BY <1>1, <1>2, <1>7 DEF HostInv, AddsInv
<1>12. ConsentInv(h)'
  BY <1>1, <1>2, <1>7 DEF HostInv, ConsentInv, Importing, Vouched, AfterUnpack
<1>13. FreshInv(h)'
  <2> SUFFICES ASSUME h \in fresh
               PROVE  FreshInv(h)'
    BY <1>1 DEF FreshInv
  <2>1. /\ adding[h].step = "idle"
        /\ \A f \in Files : file[h][f] = a.raw[f]
        /\ list[h] = Inert(a.list) /\ log[h] = a.log
        /\ sessions[h] = a.sessions /\ skills[h] = Gone
    BY <1>1, <1>2 DEF HostInv, FreshInv, ImportSteps, AfterUnpack
  <2>2. skills'[h] = a.skills
    BY <1>5, <2>1
  <2> QED
    BY <1>1, <1>7, <2>1, <2>2 DEF FreshInv, AfterUnpack
<1> QED
  BY <1>7, <1>8, <1>9, <1>10, <1>11, <1>12, <1>13 DEF Good, HostInv

LEMMA RestoredGood ==
  ASSUME FilesInv, NEW h \in Hosts, Restored(h)
  PROVE  Good(h)
<1> DEFINE a == job[h].archive
<1>1. /\ runtime' = runtime /\ file' = file /\ skills' = skills /\ sessions' = sessions
      /\ list' = list /\ log' = log /\ blessed' = blessed /\ adding' = adding /\ lock' = lock
      /\ head' = head /\ version' = version
      /\ acked' = acked /\ unnoted' = unnoted /\ consent' = consent /\ fresh' = fresh
      /\ job[h].step = "done" /\ EndJob(h)
      /\ \/ /\ job[h].kind = "restore" /\ base' = [base EXCEPT ![h] = a]
            /\ cursor' = [cursor EXCEPT ![h] = job[h].seq] /\ marker' = marker \ {h}
         \/ /\ job[h].kind # "restore"
            /\ base' = base /\ cursor' = cursor /\ marker' = marker
      /\ crossed' = IF adding[h].step = "idle" THEN crossed ELSE crossed \cup {h}
  BY DEF Restored, Untouched, disk
<1>2. HostInv(h) /\ Types /\ job[h].step \in ImportSteps
  BY <1>1 DEF FilesInv, ImportSteps, AfterUnpack
<1>3. a \in Archives /\ job[h].seq \in Nat /\ job[h].seq > 0 /\ job[h].seq <= version
      /\ (job[h].seq = version => a = head)
  BY <1>2 DEF HostInv, KindInv, BaseInv, Types, Jobs
<1>4. /\ job' \in [Hosts -> Jobs] /\ \A g \in Hosts \ {h} : job'[g] = job[g]
      /\ job'[h].step = "idle"
  BY <1>1, <1>2, EndOf
<1>5. /\ base' \in [Hosts -> Archives \cup {Nothing}] /\ cursor' \in [Hosts -> Nat]
      /\ marker' \subseteq marker
      /\ \A g \in Hosts \ {h} : /\ base'[g] = base[g] /\ cursor'[g] = cursor[g]
                                /\ g \in marker' <=> g \in marker
      /\ \/ base'[h] = a /\ cursor'[h] = job[h].seq
         \/ base'[h] = base[h] /\ cursor'[h] = cursor[h]
  BY <1>1, <1>2, <1>3 DEF Types
<1>6. crossed' \subseteq Hosts /\ \A g \in Hosts \ {h} : g \in crossed' <=> g \in crossed
  BY <1>1, <1>2 DEF Types
<1>7. Types'
  BY <1>1, <1>2, <1>4, <1>5, <1>6 DEF Types
<1>8. HeadInv' /\ Service
  BY <1>1, HeadKeeps
<1>9. Others(h)
  BY <1>1, <1>4, <1>5, <1>6 DEF Others
<1>10. adding[h].step = "save" => h \in crossed'
  BY <1>1
<1>11. h \notin crossed' => h \notin crossed
  BY <1>1
<1>12. LockInv(h)'
  BY <1>1, <1>2, <1>4, <1>10 DEF HostInv, LockInv, SyncSteps, Importing
<1>13. KindInv(h)' /\ FreshInv(h)'
  BY <1>4 DEF KindInv, FreshInv, SyncSteps, ImportSteps, AfterUnpack
<1>14. AddsInv(h)'
  BY <1>1, <1>2, <1>11 DEF HostInv, AddsInv
<1>15. ConsentInv(h)'
  <2>1. h \notin crossed => Vouched(h)
    BY <1>1, <1>2 DEF HostInv, ConsentInv, Importing, AfterUnpack
  <2> QED
    BY <1>1, <1>4, <1>11, <2>1 DEF ConsentInv, Vouched
<1>16. TidyInv(h)'
  BY <1>1, <1>2, <1>4 DEF HostInv, TidyInv, ImportSteps, AfterUnpack
<1>17. BaseInv(h)'
  <2>1. job'[h].step \notin ImportSteps
    BY <1>4 DEF ImportSteps, AfterUnpack
  <2>2. CASE base'[h] = a /\ cursor'[h] = job[h].seq
    <3>1. a # Nothing /\ job[h].seq # 0
      BY <1>3, Sentinels
    <3>2. job[h].seq = version => Same(head, a)
      BY <1>3 DEF Same
    <3> QED
      BY <1>1, <1>3, <2>1, <2>2, <3>1, <3>2 DEF BaseInv, Same
  <2>3. CASE base'[h] = base[h] /\ cursor'[h] = cursor[h]
    BY <1>1, <1>2, <2>1, <2>3 DEF HostInv, BaseInv, Same
  <2> QED
    BY <1>5, <2>2, <2>3
<1> QED
  BY <1>7, <1>8, <1>9, <1>12, <1>13, <1>14, <1>15, <1>16, <1>17 DEF Good, HostInv

LEMMA KillJobGood ==
  ASSUME FilesInv, NEW h \in Hosts, EndJob(h),
         lock' = IF lock[h] = "job" THEN [lock EXCEPT ![h] = "nobody"] ELSE lock,
         unnoted' = IF job[h].step = "prune_log"
                    THEN [unnoted EXCEPT ![h] = unnoted[h] \cup job[h].names] ELSE unnoted,
         crossed' = IF job[h].kind = "import" /\ Importing(h) THEN crossed \cup {h} ELSE crossed,
         runtime' = runtime, file' = file, skills' = skills, sessions' = sessions,
         list' = list, log' = log, blessed' = blessed, adding' = adding, marker' = marker,
         base' = base, cursor' = cursor, head' = head, version' = version,
         acked' = acked, consent' = consent, fresh' = fresh
  PROVE  Good(h)
<1>2. HostInv(h) /\ Types
  BY DEF FilesInv
<1>3. /\ job' \in [Hosts -> Jobs] /\ \A g \in Hosts \ {h} : job'[g] = job[g]
      /\ job'[h].step = "idle"
  BY <1>2, EndOf
<1>4. /\ lock' \in [Hosts -> {"job", "add", "nobody"}]
      /\ \A g \in Hosts \ {h} : lock'[g] = lock[g]
      /\ lock'[h] = IF lock[h] = "job" THEN "nobody" ELSE lock[h]
  BY <1>2 DEF Types
<1>5. /\ unnoted' \in [Hosts -> SUBSET Files] /\ \A g \in Hosts \ {h} : unnoted'[g] = unnoted[g]
      /\ unnoted'[h] = IF job[h].step = "prune_log" THEN unnoted[h] \cup job[h].names ELSE unnoted[h]
  <2> DEFINE t == unnoted[h] \cup job[h].names
  <2>1. CASE job[h].step = "prune_log"
    <3>1. t \in SUBSET Files /\ unnoted' = [unnoted EXCEPT ![h] = t]
      BY <1>2, <2>1 DEF Types, HostInv, LockInv
    <3>2. t = unnoted[h] \cup job[h].names
      OBVIOUS
    <3> HIDE DEF t
    <3> QED
      BY <1>2, <2>1, <3>1, <3>2 DEF Types
  <2>2. CASE job[h].step # "prune_log"
    BY <1>2, <2>2 DEF Types
  <2> QED
    BY <2>1, <2>2
<1>6. /\ crossed' \subseteq Hosts /\ \A g \in Hosts \ {h} : g \in crossed' <=> g \in crossed
      /\ h \notin crossed' => h \notin crossed /\ ~(job[h].kind = "import" /\ Importing(h))
  BY <1>2 DEF Types
<1>7. Types'
  BY <1>2, <1>3, <1>4, <1>5, <1>6 DEF Types
<1>8. HeadInv' /\ Service
  BY HeadKeeps
<1>9. Others(h)
  BY <1>3, <1>4, <1>5, <1>6 DEF Others
<1>10. LockInv(h)'
  <2>1. lock'[h] = "add" <=> adding'[h].step = "save"
    BY <1>2, <1>4 DEF HostInv, LockInv
  <2> QED
    BY <1>2, <1>3, <1>6, <2>1 DEF HostInv, LockInv, SyncSteps, Importing
<1>11. KindInv(h)' /\ FreshInv(h)'
  BY <1>3 DEF KindInv, FreshInv, SyncSteps, ImportSteps, AfterUnpack
<1>12. AddsInv(h)'
  BY <1>2, <1>3, <1>5, <1>6 DEF HostInv, AddsInv
<1>13. ConsentInv(h)'
  <2> SUFFICES ASSUME h \notin crossed', h \notin marker
               PROVE  Vouched(h)
    BY <1>3 DEF ConsentInv, Vouched, AfterUnpack
  <2>1. ~Importing(h)
    <3>1. job[h].kind # "import" => job[h].step \notin {"unpack", "inert_save"}
      BY <1>2 DEF HostInv, KindInv, ImportSteps
    <3> QED
      BY <1>6, <3>1 DEF Importing
  <2> QED
    BY <1>2, <1>6, <2>1 DEF HostInv, ConsentInv
<1>14. TidyInv(h)'
  BY <1>2, <1>3 DEF HostInv, TidyInv, ImportSteps, AfterUnpack
<1>15. BaseInv(h)'
  BY <1>2, <1>3 DEF HostInv, BaseInv, Same, ImportSteps, AfterUnpack
<1> QED
  BY <1>7, <1>8, <1>9, <1>10, <1>11, <1>12, <1>13, <1>14, <1>15 DEF Good, HostInv

LEMMA KillAddGood ==
  ASSUME FilesInv, NEW h \in Hosts, adding[h].step # "idle",
         adding' = [adding EXCEPT ![h] = NoAdd],
         lock' = IF lock[h] = "add" THEN [lock EXCEPT ![h] = "nobody"] ELSE lock,
         job' = job, acked' = acked, unnoted' = unnoted, crossed' = crossed,
         runtime' = runtime, file' = file, skills' = skills, sessions' = sessions,
         list' = list, log' = log, blessed' = blessed, marker' = marker,
         base' = base, cursor' = cursor, head' = head, version' = version,
         consent' = consent, fresh' = fresh
  PROVE  Good(h)
<1>2. HostInv(h) /\ Types
  BY DEF FilesInv
<1>3. adding[h].step = "save" /\ lock[h] = "add"
  BY <1>2 DEF Types, Adds, HostInv, LockInv
<1>4. /\ adding' \in [Hosts -> Adds] /\ adding'[h].step = "idle"
      /\ lock' \in [Hosts -> {"job", "add", "nobody"}] /\ lock'[h] = "nobody"
      /\ \A g \in Hosts \ {h} : adding'[g] = adding[g] /\ lock'[g] = lock[g]
  BY <1>2, <1>3, NoAddType DEF Types
<1>5. Types'
  BY <1>2, <1>4 DEF Types
<1>6. HeadInv' /\ Service
  BY HeadKeeps
<1>7. Others(h)
  BY <1>4 DEF Others
<1>8. LockInv(h)'
  BY <1>2, <1>3, <1>4 DEF HostInv, LockInv
<1>9. KindInv(h)' /\ AddsInv(h)' /\ TidyInv(h)'
  BY <1>2 DEF HostInv, KindInv, AddsInv, TidyInv, Tidy
<1>10. ConsentInv(h)'
  BY <1>2 DEF HostInv, ConsentInv, Importing, Vouched
<1>11. BaseInv(h)'
  BY <1>2 DEF HostInv, BaseInv, Same
<1>12. FreshInv(h)'
  BY <1>2, <1>3 DEF HostInv, FreshInv
<1> QED
  BY <1>5, <1>6, <1>7, <1>8, <1>9, <1>10, <1>11, <1>12 DEF Good, HostInv

LEMMA KillGood ==
  ASSUME FilesInv, NEW h \in Hosts, Kill(h)
  PROVE  Good(h)
<1>1. /\ runtime' = runtime /\ file' = file /\ skills' = skills /\ sessions' = sessions
      /\ list' = list /\ log' = log /\ blessed' = blessed /\ marker' = marker
      /\ base' = base /\ cursor' = cursor /\ head' = head /\ version' = version
      /\ acked' = acked /\ consent' = consent /\ fresh' = fresh
  BY DEF Kill, disk
<1>2. CASE adding' = adding
  <2>1. adding[h].step = "idle" \/ adding'[h] = adding[h]
    BY <1>2
  <2>2. CASE /\ EndJob(h)
             /\ lock' = IF lock[h] = "job" THEN [lock EXCEPT ![h] = "nobody"] ELSE lock
             /\ unnoted' = IF job[h].step = "prune_log"
                           THEN [unnoted EXCEPT ![h] = unnoted[h] \cup job[h].names] ELSE unnoted
             /\ crossed' = IF job[h].kind = "import" /\ Importing(h) THEN crossed \cup {h} ELSE crossed
    BY <1>1, <1>2, <2>2, KillJobGood
  <2>3. CASE /\ adding[h].step # "idle" /\ adding' = [adding EXCEPT ![h] = NoAdd]
             /\ lock' = IF lock[h] = "add" THEN [lock EXCEPT ![h] = "nobody"] ELSE lock
             /\ job' = job /\ unnoted' = unnoted /\ crossed' = crossed
    BY <1>1, <2>3, KillAddGood
  <2> QED
    BY <2>2, <2>3 DEF Kill
<1>3. CASE adding' # adding
  BY <1>1, <1>3, KillAddGood DEF Kill
<1> QED
  BY <1>2, <1>3

-----------------------------------------------------------------------------
(***************************************************************************)
(* Theorems                                                                *)
(***************************************************************************)
LEMMA InitInv == Init => FilesInv
<1> SUFFICES ASSUME Init
             PROVE  FilesInv
  OBVIOUS
<1>1. PICK m \in Hosts, f \in [Files -> {CHOOSE t \in Texts : TRUE, Gone}] :
        /\ file = [g \in Hosts |-> IF g = m THEN f ELSE [x \in Files |-> Gone]]
        /\ list = [g \in Hosts |-> IF g # m THEN NoList
                                   ELSE [NoList EXCEPT !.tracked = {n \in Notes : f[n] # Gone}]]
  BY DEF Init
<1>2. /\ runtime \in Runtimes
      /\ skills = [h \in Hosts |-> Gone] /\ sessions = [h \in Hosts |-> Gone]
      /\ log = [h \in Hosts |-> {}]
      /\ blessed = {} /\ marker = {}
      /\ job = [h \in Hosts |-> NoJob] /\ adding = [h \in Hosts |-> NoAdd]
      /\ lock = [h \in Hosts |-> "nobody"]
      /\ base = [h \in Hosts |-> Nothing] /\ cursor = [h \in Hosts |-> 0]
      /\ head = Nothing /\ version = 0
      /\ acked = [h \in Hosts |-> {}] /\ unnoted = [h \in Hosts |-> {}]
      /\ consent = [h \in Hosts |-> {}]
      /\ crossed = {} /\ fresh = {}
  BY DEF Init
<1>3. file \in [Hosts -> [Files -> Contents]]
  <2>1. (CHOOSE t \in Texts : TRUE) \in Texts
    BY TrackedAssumption
  <2>2. \A x \in Files : f[x] \in Contents
    BY <2>1, Sentinels DEF Contents
  <2>3. f \in [Files -> Contents] /\ [x \in Files |-> Gone] \in [Files -> Contents]
    BY <2>2, Sentinels
  <2> QED
    BY <1>1, <2>3
<1>4. /\ list \in [Hosts -> Lists]
      /\ \A h \in Hosts : \A x \in Externals : list[h].external[x] = "none"
  <2> DEFINE n == {x \in Notes : f[x] # Gone}
             own == [NoList EXCEPT !.tracked = n]
  <2>1. n \in SUBSET Files
    BY DEF Files
  <2> HIDE DEF n
  <2>2. own \in Lists /\ own.external = NoList.external
    BY <2>1, NoListType DEF Lists
  <2>3. \A x \in Externals : NoList.external[x] = "none"
    BY DEF NoList
  <2>4. list = [g \in Hosts |-> IF g # m THEN NoList ELSE own]
    BY <1>1 DEF n
  <2> HIDE DEF own
  <2> QED
    BY <2>2, <2>3, <2>4, NoListType
<1>5. Types
  <2>1. job \in [Hosts -> Jobs] /\ adding \in [Hosts -> Adds]
    BY <1>2, NoJobType, NoAddType
  <2> QED
    BY <1>2, <1>3, <1>4, <2>1, Sentinels DEF Types
<1>6. HeadInv
  BY <1>2 DEF HeadInv
<1>7. ASSUME NEW h \in Hosts
      PROVE  HostInv(h)
  <2>1. job[h].step = "idle" /\ adding[h].step = "idle" /\ lock[h] = "nobody"
    BY <1>2, NoJobType, NoAddType
  <2>2. LockInv(h) /\ KindInv(h) /\ FreshInv(h)
    BY <2>1 DEF LockInv, KindInv, FreshInv, SyncSteps, ImportSteps, AfterUnpack, Importing
  <2>3. AddsInv(h)
    BY <1>2 DEF AddsInv
  <2>4. ConsentInv(h)
    BY <1>4, <2>1 DEF ConsentInv, Vouched
  <2>5. TidyInv(h)
    BY <1>2, <2>1 DEF TidyInv, ImportSteps, AfterUnpack
  <2>6. BaseInv(h)
    BY <1>2, <2>1 DEF BaseInv, ImportSteps, AfterUnpack
  <2> QED
    BY <2>2, <2>3, <2>4, <2>5, <2>6 DEF HostInv
<1> QED
  BY <1>5, <1>6, <1>7 DEF FilesInv

LEMMA StepInv == FilesInv /\ [Next]_vars => FilesInv'
<1> SUFFICES ASSUME FilesInv, [Next]_vars
             PROVE  FilesInv'
  OBVIOUS
<1>1. ASSUME Next
      PROVE  FilesInv'
  <2>1. PICK h \in Hosts :
          \/ EditFile(h) \/ EditSkills(h) \/ Converse(h)
          \/ \E f \in Files \cup Externals : AddFile(h, f)
          \/ AddSave(h)
          \/ Sync(h) \/ PruneSave(h) \/ PruneLog(h)
          \/ Collect(h) \/ Pack(h) \/ PackFails(h) \/ Upload(h)
          \/ \E kind \in {"restore", "import"} : Restore(h, kind)
          \/ Unpack(h) \/ MarkInertLoad(h) \/ MarkInertSave(h)
          \/ RebuildSessions(h) \/ RestoreSkills(h) \/ Restored(h)
          \/ Kill(h)
    BY <1>1, Zenon DEF Next
  <2>2. Good(h)
    <3>1. CASE EditFile(h) \/ EditSkills(h) \/ Converse(h)
      BY <3>1, EditGood
    <3>2. CASE \E f \in Files \cup Externals : AddFile(h, f)
      BY <3>2, AddFileGood
    <3>3. CASE AddSave(h)
      BY <3>3, AddSaveGood
    <3>4. CASE Sync(h)
      BY <3>4, SyncGood
    <3>5. CASE PruneSave(h)
      BY <3>5, PruneSaveGood
    <3>6. CASE PruneLog(h)
      BY <3>6, PruneLogGood
    <3>7. CASE Collect(h)
      BY <3>7, CollectGood
    <3>8. CASE Pack(h)
      BY <3>8, PackGood
    <3>9. CASE PackFails(h)
      BY <3>9, PackFailsGood
    <3>10. CASE Upload(h)
      BY <3>10, UploadGood
    <3>11. CASE \E kind \in {"restore", "import"} : Restore(h, kind)
      BY <3>11, RestoreGood
    <3>12. CASE Unpack(h)
      BY <3>12, UnpackGood
    <3>13. CASE MarkInertLoad(h)
      BY <3>13, MarkInertLoadGood
    <3>14. CASE MarkInertSave(h)
      BY <3>14, MarkInertSaveGood
    <3>15. CASE RebuildSessions(h)
      BY <3>15, RebuildSessionsGood
    <3>16. CASE RestoreSkills(h)
      BY <3>16, RestoreSkillsGood
    <3>17. CASE Restored(h)
      BY <3>17, RestoredGood
    <3>18. CASE Kill(h)
      BY <3>18, KillGood
    <3> QED
      BY <2>1, <3>1, <3>2, <3>3, <3>4, <3>5, <3>6, <3>7, <3>8, <3>9, <3>10, <3>11, <3>12,
         <3>13, <3>14, <3>15, <3>16, <3>17, <3>18
  <2> QED
    BY <2>2, OthersKeep
<1>2. ASSUME UNCHANGED vars
      PROVE  FilesInv'
  <2>1. /\ runtime' = runtime /\ file' = file /\ skills' = skills /\ sessions' = sessions
        /\ list' = list /\ log' = log /\ blessed' = blessed /\ job' = job /\ adding' = adding
        /\ lock' = lock /\ marker' = marker /\ base' = base /\ cursor' = cursor
        /\ head' = head /\ version' = version
        /\ acked' = acked /\ unnoted' = unnoted
        /\ consent' = consent /\ crossed' = crossed /\ fresh' = fresh
    BY <1>2 DEF vars, disk, past
  <2>2. Types' /\ HeadInv'
    BY <2>1 DEF FilesInv, Types, HeadInv, Tidy
  <2>3. ASSUME NEW h \in Hosts
        PROVE  HostInv(h)'
    <3>1. HostInv(h)
      BY DEF FilesInv
    <3>2. LockInv(h)' /\ KindInv(h)' /\ AddsInv(h)' /\ ConsentInv(h)'
      BY <2>1, <3>1 DEF HostInv, LockInv, KindInv, AddsInv, ConsentInv, Importing, Vouched
    <3>3. TidyInv(h)' /\ BaseInv(h)' /\ FreshInv(h)'
      BY <2>1, <3>1 DEF HostInv, TidyInv, Tidy, BaseInv, Same, FreshInv
    <3> QED
      BY <3>2, <3>3 DEF HostInv
  <2> QED
    BY <2>2, <2>3 DEF FilesInv
<1> QED
  BY <1>1, <1>2

\* FilesInv is an invariant: the locks, the marks and the histories are what the
\* properties below need of every interleaving.
THEOREM FilesInvariance == Spec => []FilesInv
BY InitInv, StepInv, PTL DEF Spec

\* alf add: a reported add is not lost to a sync that prunes the list at the
\* same time. A prune killed between the list and the log loses its names, and
\* no other does.
THEOREM AddsSurviveHolds == Spec => []AddsSurvive
<1>1. FilesInv => AddsSurvive
  BY DEF FilesInv, HostInv, AddsInv, AddsSurvive
<1> QED
  BY <1>1, FilesInvariance, PTL

\* mark_external_inert: no sync packs an external file its host's user has not
\* consented to.
THEOREM ExternalsNeedConsentHolds == Spec => []ExternalsNeedConsent
<1>1. FilesInv => ExternalsNeedConsent
  BY DEF FilesInv, HostInv, ConsentInv, ExternalsNeedConsent
<1> QED
  BY <1>1, FilesInvariance, PTL

\* A record of the archive without its skills, in the form of the property.
LEMMA SameArchive ==
  ASSUME NEW a \in Archives, NEW b \in Archives, Same(a, b)
  PROVE  [a EXCEPT !.skills = Gone] = [b EXCEPT !.skills = Gone]
BY DEF Archives, Same

\* execute_delta, restore: a host at the latest version has the head as its base.
THEOREM HeadMatchesBaseHolds == Spec => []HeadMatchesBase
<1>1. FilesInv => HeadMatchesBase
  <2> SUFFICES ASSUME FilesInv, NEW h \in Hosts, cursor[h] = version, version > 0
               PROVE  [head EXCEPT !.skills = Gone] = [base[h] EXCEPT !.skills = Gone]
    BY DEF HeadMatchesBase
  <2>1. Types /\ HeadInv /\ BaseInv(h)
    BY DEF FilesInv, HostInv
  <2>2. version # 0
    BY <2>1 DEF Types
  <2>3. head \in Archives /\ base[h] \in Archives
    BY <2>1, <2>2 DEF Types, HeadInv, BaseInv
  <2>4. Same(head, base[h])
    BY <2>1 DEF BaseInv
  <2> QED
    BY <2>3, <2>4, SameArchive
<1> QED
  BY <1>1, FilesInvariance, PTL

\* What a host that restored an archive packs of it.
LEMMA RoundTrip ==
  ASSUME FilesInv, NEW h \in fresh, job[h].step = "done"
  PROVE  Packed(h, Names(h)) = [job[h].archive EXCEPT !.packed = {}, !.list = Inert(@)]
<1> DEFINE a == job[h].archive
           l == Inert(a.list)
           p == Packed(h, Names(h))
<1>1. Types /\ h \in Hosts /\ HostInv(h) /\ job[h].step \in ImportSteps
  BY DEF FilesInv, Types, ImportSteps, AfterUnpack
<1>2. a \in Archives /\ Tidy(a)
  BY <1>1 DEF HostInv, KindInv, TidyInv
<1>3. /\ \A f \in Files : file[h][f] = a.raw[f]
      /\ list[h] = l /\ log[h] = a.log /\ sessions[h] = a.sessions /\ skills[h] = a.skills
  BY <1>1 DEF HostInv, FreshInv, AfterUnpack
<1>4. a.list \in Lists /\ a.raw \in [Files -> Contents]
  BY <1>2 DEF Archives
<1>5. l \in Lists /\ l.tracked = a.list.tracked
      /\ \A x \in Externals : l.external[x] # "verified"
  BY <1>4, InertFacts
<1>6. /\ p \in Archives
      /\ \A f \in Files : p.raw[f] = IF f \in Names(h) THEN file[h][f] ELSE Gone
      /\ p.list = list[h] /\ p.log = log[h] /\ p.packed = Names(h) \cap Externals
      /\ p.skills = skills[h] /\ p.sessions = sessions[h]
  BY <1>1, PackedFacts
<1>7. /\ Names(h) \cap Files = Tracked(h)
      /\ \A x \in Names(h) \cap Externals : list[h].external[x] = "verified"
  BY <1>1, NamesFacts
<1> HIDE DEF p, l
<1>8. p.packed = {}
  BY <1>3, <1>5, <1>6, <1>7
<1>9. p.raw = a.raw
  <2>1. ASSUME NEW f \in Files
        PROVE  p.raw[f] = a.raw[f]
    <3>1. f \in Names(h) <=> f \in Sources \cup a.list.tracked /\ a.raw[f] # Gone
      BY <1>3, <1>5, <1>7 DEF Tracked
    <3>2. a.raw[f] # Gone => f \in Sources \cup a.list.tracked
      BY <1>2 DEF Tidy
    <3> QED
      BY <1>3, <1>6, <3>1, <3>2
  <2>2. p.raw \in [Files -> Contents]
    BY <1>6 DEF Archives
  <2> QED
    BY <1>4, <2>1, <2>2
<1>10. p = [a EXCEPT !.packed = {}, !.list = l]
  BY <1>2, <1>3, <1>6, <1>8, <1>9 DEF Archives
<1> QED
  BY <1>10 DEF p, l

\* import on a new machine: what it exports next is the archive again.
THEOREM RestoreRoundTripsHolds == Spec => RestoreRoundTrips
<1> DEFINE Again(h) ==
             job[h].step = "done" /\ job'[h].step = "idle" /\ kills' = kills =>
               Packed(h, Names(h)) = [job[h].archive EXCEPT !.packed = {}, !.list = Inert(@)]
<1>1. FilesInv => \A h \in fresh : Again(h)
  BY RoundTrip
<1> HIDE DEF Again
<1>2. FilesInv => [\A h \in fresh : Again(h)]_vars
  BY <1>1
<1>3. Spec => [][\A h \in fresh : Again(h)]_vars
  BY <1>2, FilesInvariance, PTL
<1> QED
  BY <1>3 DEF Again, RestoreRoundTrips

=============================================================================
