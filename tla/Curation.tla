------------------------------ MODULE Curation ------------------------------
(***************************************************************************)
(* The memory of one agent through its syncs: what is extracted is matched *)
(* with the base (alf-core/src/reconcile.rs), diffed, and replayed in the  *)
(* cloud, while the agent curates its memory in place.                     *)
(*                                                                         *)
(* A definition called Faulty... is the one after it with a plausible bug. *)
(***************************************************************************)
EXTENDS Extraction

CONSTANTS MaxTime, MaxSections, MaxSyncs, MaxEdits   \* bounds, the last for each runtime

ASSUME CurationAssumption ==
  /\ {MaxTime, MaxSections, MaxSyncs} \subseteq Nat /\ MaxTime # 0
  /\ MaxEdits \in [Runtimes -> Nat]

VARIABLES
  now,
  base,     \* the archive of the last sync, or Nothing
  cloud,    \* the service's snapshot and deltas, or Nothing
  refused,  \* history: the writer has refused an archive
  since,    \* history: what was done since the last sync
  edits,    \* history: how many edits there were
  syncs     \* history: how many syncs

vars == <<runtime, workspace, now, base, cloud, refused, since, edits, syncs>>

-----------------------------------------------------------------------------
(***************************************************************************)
(* Reconciliation                                                          *)
(***************************************************************************)
\* Markdown sections declare a slot for a heading, rows and entries do not.
HeadingKey(r) == IF r.scope = Store \/ runtime = "hermes" THEN NoHeading ELSE r.text.heading

\* The k-th unmatched old record under a key goes with the k-th new one.
Ranked(old, new, was, is) ==
  LET Rank(keys, among, i) == Cardinality({j \in among : j < i /\ keys[j] = keys[i]})
      Fits(p) == {c \in new : was[p] = is[c] /\ Rank(was, old, p) = Rank(is, new, c)}
  IN UNION {{p} \X Fits(p) : p \in old}

\* The keys of the passes.
Unmoved(records) == [i \in DOMAIN records |-> <<records[i].id, records[i].text>>]
Texts(records)   == [i \in DOMAIN records |-> <<records[i].scope, records[i].text>>]
Slots(records)   == [i \in DOMAIN records |-> <<records[i].scope, HeadingKey(records[i])>>]
Births(records)  == [i \in DOMAIN records |-> records[i].id]

Left(indices, pairs, side) == indices \ {pair[side] : pair \in pairs}

\* What moves without the memory changing is the base's.
CarryIdentity(p, c) ==
  [c EXCEPT !.id = p.id, !.text = p.text, !.created = p.created, !.updated = p.updated, !.stash = p.stash]

KeepAnchors(p, c) == [c EXCEPT !.id = p.id, !.created = p.created]

FaultyFreshId(r, taken) == r.id  \* collisions are not looked for

\* remint_id: a birth id that is taken gives way to the first free one.
FreshId(r, taken) ==
  LET reminted(n) == [scope |-> r.scope, text |-> r.text, nth |-> n, reminted |-> TRUE]
      free == {n \in 1..(Cardinality(taken) + 1) : reminted(n) \notin taken}
  IN IF r.id \notin taken THEN r.id
     ELSE reminted(CHOOSE n \in free : \A m \in free : n <= m)

FaultyP2(old, new, prev, curr) == {}  \* headings are not matched

\* Sections only: a row's text may begin like a heading.
P2(old, new, prev, curr) ==
  Ranked({p \in old : HeadingKey(prev[p]) # NoHeading}, {c \in new : HeadingKey(curr[c]) # NoHeading},
         Slots(prev), Slots(curr))

FaultyReconcile(prev, curr) == curr  \* the export is taken as it is

\* The five passes, in their order: each takes what it pairs.
Reconcile(prev, curr) ==
  LET old0 == DOMAIN prev                  new0 == DOMAIN curr
      p0 == Ranked(old0, new0, Unmoved(prev), Unmoved(curr))
      old1 == Left(old0, p0, 1)            new1 == Left(new0, p0, 2)
      p1 == Ranked(old1, new1, Texts(prev), Texts(curr))
      old2 == Left(old1, p1, 1)            new2 == Left(new1, p1, 2)
      p2 == P2(old2, new2, prev, curr)
      old3 == Left(old2, p2, 1)            new3 == Left(new2, p2, 2)
      p3 == Ranked(old3, new3, Births(prev), Births(curr))
      new4 == Left(new3, p3, 2)
      Partner(pairs, c) == prev[(CHOOSE pair \in pairs : pair[2] = c)[1]]
      In(pairs, c) == \E pair \in pairs : pair[2] = c
      \* P4: what is taken after the first i records have been placed
      taken[i \in 0..Len(curr)] ==
        IF i = 0 THEN Ids(prev)
        ELSE taken[i - 1] \cup (IF i \in new4 THEN {FreshId(curr[i], taken[i - 1])} ELSE {})
  IN [c \in 1..Len(curr) |->
        CASE In(p0 \cup p1, c) -> CarryIdentity(Partner(p0 \cup p1, c), curr[c])
          [] In(p2, c)         -> KeepAnchors(Partner(p2, c), curr[c])
          [] In(p3, c)         -> KeepAnchors(Partner(p3, c), curr[c])
          [] OTHER             -> [curr[c] EXCEPT !.id = FreshId(curr[c], taken[c - 1])]]

-----------------------------------------------------------------------------
Init ==
  /\ runtime \in Runtimes
  /\ \E one, two \in [heading : Headings, body : Bodies] :
       \E sections \in {<<>>, <<one, two>>} :
         files = [f \in Files |-> IF f \in MemoryFiles \ Whole THEN sections ELSE <<>>]
  /\ mtime = [f \in Files \cup {Store} |-> 1]
  /\ store = [row \in Rows |-> Nothing]
  /\ docs = [d \in Documents |-> Nothing]
  /\ now = 1
  /\ base = Nothing /\ cloud = Nothing
  /\ refused = FALSE /\ since = "nothing" /\ edits = 0 /\ syncs = 0

-----------------------------------------------------------------------------
(***************************************************************************)
(* The agent curates its memory                                            *)
(***************************************************************************)
\* Touches do not count beside anything else.
Did(what) ==
  /\ edits < MaxEdits[runtime] /\ edits' = edits + 1
  /\ since' = CASE since \in {"nothing", "touch"} -> what
               [] since \notin {"nothing", "touch"} /\ what = "touch" -> since
               [] OTHER                          -> "several"
  /\ UNCHANGED <<runtime, now, base, cloud, refused, syncs>>

Write(f, sections, what) ==
  /\ f \in MemoryFiles
  /\ files' = [files EXCEPT ![f] = sections]
  /\ mtime' = [mtime EXCEPT ![f] = now]
  /\ Did(what)
  /\ UNCHANGED <<store, docs>>

\* Without a heading to hold on to, an edit is a memory gone and another come.
EditBody ==
  \E f \in Files : \E i \in DOMAIN files[f], body \in Bodies \cup {NoBody} :
    LET old == files[f][i]
        new == [old EXCEPT !.body = body]
    IN /\ new # old
       /\ Write(f, [files[f] EXCEPT ![i] = new],
                IF ~Kept(old) \/ ~Kept(new)                    THEN "other"
                ELSE IF old.heading = NoHeading \/ runtime = "hermes" THEN "rewrite"
                ELSE "edit")

Retitle ==
  \E f \in Files : \E i \in DOMAIN files[f], heading \in Headings \cup {NoHeading} :
    /\ heading # files[f][i].heading
    /\ heading = NoHeading => i = 1
    /\ Write(f, [files[f] EXCEPT ![i].heading = heading], "other")

\* A preamble comes first; a file that is one record has one.
InsertSection ==
  \E f \in Files, body \in Bodies : \E heading \in Headings \cup {NoHeading}, i \in 1..(Len(files[f]) + 1) :
    /\ Len(files[f]) < IF f \in Whole THEN 1 ELSE MaxSections
    /\ heading = NoHeading => i = 1
    /\ i = 1 /\ files[f] # <<>> => files[f][1].heading # NoHeading
    /\ Write(f, InsertAt(files[f], i, [heading |-> heading, body |-> body]), "insert")

RemoveSection ==
  \E f \in Files : \E i \in DOMAIN files[f] :
    Write(f, RemoveAt(files[f], i), IF Kept(files[f][i]) THEN "remove" ELSE "touch")

Reorder ==
  \E f \in Files : \E i, j \in DOMAIN files[f] :
    /\ i < j /\ files[f][i].heading # NoHeading
    /\ Write(f, [files[f] EXCEPT ![i] = files[f][j], ![j] = files[f][i]], "touch")

Touch == \E f \in Files : mtime[f] # now /\ Write(f, files[f], "touch")

WriteStore(row, cells, what) ==
  /\ HasRows
  /\ store' = [store EXCEPT ![row] = cells]
  /\ mtime' = [mtime EXCEPT ![Store] = now]
  /\ Did(what)
  /\ UNCHANGED <<files, docs>>

AddRow ==
  \E row \in Rows, body \in Bodies \cup {NoBody} :
    /\ store[row] = Nothing \/ (store[row] = Forgotten /\ StoreIsRaw)
    /\ WriteStore(row, [body |-> body, importance |-> 0, link |-> Nothing, created |-> now, updated |-> now],
                  "insert")

\* Only ZeroClaw's rows show their other cells in the record.
EditRow ==
  \E row \in Live, body \in Bodies, importance \in 0..1 :
    LET cells == [store[row] EXCEPT !.body = body, !.importance = importance, !.updated = now]
    IN /\ <<body, importance>> # <<store[row].body, store[row].importance>>
       /\ WriteStore(row, cells,
                     IF runtime = "zeroclaw" \/ body # store[row].body THEN "edit" ELSE "touch")

Supersede ==
  \E old \in Live, row \in Live :
    /\ runtime = "zeroclaw" /\ old # row /\ store[old].link = Nothing
    /\ WriteStore(old, [store[old] EXCEPT !.link = row], "other")

ForgetRow == \E row \in Live : WriteStore(row, Forgotten, "remove")

WriteDocument ==
  \E d \in Documents, new \in Versions \cup {Nothing} :
    /\ new # docs[d]
    /\ docs' = [docs EXCEPT ![d] = new]
    /\ Did("other")
    /\ UNCHANGED <<files, mtime, store>>

Tick ==
  /\ now < MaxTime
  /\ now' = now + 1
  /\ UNCHANGED <<runtime, workspace, base, cloud, refused, since, edits, syncs>>

-----------------------------------------------------------------------------
(***************************************************************************)
(* Syncs and restores                                                      *)
(***************************************************************************)
Finish(archive) ==
  /\ base' = archive
  /\ syncs' = syncs + 1
  /\ since' = "nothing"
  /\ UNCHANGED <<runtime, workspace, now, refused, edits>>

Fail ==
  /\ refused' = TRUE
  /\ UNCHANGED <<runtime, workspace, now, base, cloud, since, edits, syncs>>

\* There is nothing to match: the export is the snapshot.
FirstSync ==
  /\ syncs < MaxSyncs /\ base = Nothing
  /\ IF Export.refused THEN Fail
     ELSE cloud' = [snapshot |-> Export, deltas |-> <<>>] /\ Finish(Export)

FaultyEffective ==  \* carried records stay in the partition of the export
  LET records == Reconcile(ReadAllMemory(base), ReadAllMemory(Export))
      Place(k) == Len(ReadAllMemory([partitions |-> SubSeq(Export.partitions, 1, k)]))
      parts == [k \in DOMAIN Export.partitions |->
                  [Export.partitions[k] EXCEPT !.records = SubSeq(records, Place(k - 1) + 1, Place(k))]]
  IN WriteArchive(parts, Export.raw, Export.docs)

\* The archive is rewritten when the reconciled records differ from it.
Effective ==
  LET export == Export
      exported == ReadAllMemory(export)
      records == Reconcile(ReadAllMemory(base), exported)
  IN IF records = exported THEN export ELSE ReplaceMemoryRecords(export, records, now)

\* execute_delta. With no changes the base stays as it is.
Sync ==
  /\ syncs < MaxSyncs /\ base # Nothing
  /\ LET curr == Effective
     IN IF Export.refused \/ curr.refused THEN Fail
        ELSE IF NoChanges(base, curr) THEN Finish(base) /\ UNCHANGED cloud
        ELSE /\ cloud' = [cloud EXCEPT !.deltas = Append(@, WriteDelta(base, curr))]
             /\ Finish(curr)

Rebuilt == Rebuild(cloud.snapshot, cloud.deltas, now)

\* The files and the rows of the base, at another time.
Reverted(archive) ==
  /\ \A f \in MemoryFiles : files'[f] = IF f \in DOMAIN archive.raw THEN archive.raw[f] ELSE <<>>
  /\ HasRows /\ ~StoreIsRaw => since \in {"nothing", "touch"} /\ store' = store

\* A restore of the head: what an import that fails has written stays.
Restore ==
  LET archive == Rebuilt
      unpacked == Unpacked(archive.raw)
  IN /\ cloud # Nothing
     /\ edits < MaxEdits[runtime] /\ edits' = edits + 1
     /\ files' = RestoredFiles(archive.raw) /\ docs' = RestoredDocs(archive)
     /\ mtime' = [n \in DOMAIN mtime |-> IF n \in unpacked THEN now ELSE mtime[n]]
     /\ IF ImportFails(archive) THEN since' = "several" /\ UNCHANGED <<store, base>>
        ELSE /\ store' = RestoredStore(archive)
             /\ base' = archive
             /\ since' = IF Reverted(archive) THEN "touch" ELSE "several"
     /\ UNCHANGED <<runtime, now, cloud, refused, syncs>>

Next ==
  \/ EditBody \/ Retitle \/ InsertSection \/ RemoveSection \/ Reorder \/ Touch
  \/ AddRow \/ EditRow \/ Supersede \/ ForgetRow \/ WriteDocument \/ Tick
  \/ FirstSync \/ Sync \/ Restore

Spec == Init /\ [][Next]_vars

-----------------------------------------------------------------------------
(***************************************************************************)
(* Properties                                                              *)
(***************************************************************************)
Blanks(archive) == \E r \in ToSet(ReadAllMemory(archive)) : Blank(r)

\* What a sync keeps and what a restore rebuilds passes `alf validate`, with
\* every record in the partition of its date, whatever quarter it was edited,
\* carried or replayed in; unless a row has an empty cell for a text.
ArchivesValidate ==
  base # Nothing =>
    \A archive \in {base, Rebuilt} :
      /\ Valid(archive) \/ (Blanks(archive) /\ HasRows)
      /\ Counted(archive) /\ WellPartitioned(archive)
      /\ \A k \in DOMAIN archive.partitions : \A r \in ToSet(archive.partitions[k].records) :
           Quarter(r) = archive.partitions[k].from

Agree(a, b) ==
  /\ ToSet(ReadAllMemory(a)) = ToSet(ReadAllMemory(b))
  /\ a.raw = b.raw
  /\ \A d \in Documents : a.docs[d] = b.docs[d] \/ (d = Identity /\ b.docs[d] = Nothing)

\* The base is what the service replays: after any number of deltas, record
\* for record with ids and anchors, file for file and layer for layer (but for
\* an identity that has gone).
CloudAgrees == base # Nothing => Agree(Rebuilt, base)

\* No two records of an archive share an id, whatever texts come back, move or
\* repeat: the writer would refuse it, and every sync from then on fail.
NoSyncIsRefused == ~refused /\ (base # Nothing => ~Rebuilt.refused)

SyncStep == syncs' = syncs + 1 /\ base # Nothing

Sizes(delta) == <<Len(delta.create), Len(delta.update), Cardinality(delta.delete)>>

\* reconcile.rs: touching, re-saving and re-ranking gives no entries, one
\* body edited under its heading one update, one section more or less one
\* create or one delete; and a text edited with no heading above one of each.
SmallestDelta ==
  [][SyncStep =>
      LET sizes == Sizes(MemoryDelta(ReadAllMemory(base), ReadAllMemory(base')))
      IN sizes = CASE since \in {"nothing", "touch"} -> <<0, 0, 0>>
                   [] since = "edit"                 -> <<0, 1, 0>>
                   [] since = "insert"               -> <<1, 0, 0>>
                   [] since = "remove"               -> <<0, 0, 1>>
                   [] since = "rewrite"              -> <<1, 0, 1>>
                   [] OTHER                          -> sizes]_vars

Alone(archive, r) ==
  \A s \in ToSet(ReadAllMemory(archive)) : s.scope = r.scope /\ HeadingKey(s) = HeadingKey(r) => s = r

\* A section that keeps its heading keeps its id and its date, however its body
\* is edited and the file around it curated; a row keeps its date.
HeadingKeepsIdentity ==
  [][SyncStep =>
      \A r \in ToSet(ReadAllMemory(base)), s \in ToSet(ReadAllMemory(base')) :
        /\ r.scope = s.scope
        /\ IF r.scope = Store THEN r.id = s.id
           ELSE /\ HeadingKey(r) = HeadingKey(s) /\ HeadingKey(r) # NoHeading
                /\ Alone(base, r) /\ Alone(base', s)
        => r.id = s.id /\ r.created = s.created]_vars

\* A restore right after a sync changes no file, and brings back the rows'
\* texts, but for rows that the reconciliation has taken for one another.
RestoreBringsItBack ==
  [][since = "nothing" /\ Restore /\ Clash(RowsOf(Rebuilt)) > Len(RowsOf(Rebuilt)) =>
      /\ files' = files
      /\ \A body \in Bodies \cup {NoBody} :
           Cardinality({row \in Live : store[row].body = body})
             = Cardinality({row \in Live' : store'[row].body = body})]_vars

\* reconcile.rs:44-47, rows can only pair by id.
RowsPairById ==
  base # Nothing => \A r \in ToSet(ReadAllMemory(base)) : r.scope = Store => r.id = r.stash.place

=============================================================================
