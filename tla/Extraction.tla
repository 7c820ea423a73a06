----------------------------- MODULE Extraction -----------------------------
(***************************************************************************)
(* An agent's memory and the records an export reads off it, for each      *)
(* runtime: sections of markdown files, entries of Hermes' curated file,   *)
(* rows of ZeroClaw's brain.db, sessions of Hermes' state.db, rows of a    *)
(* table a generic map names; and what a restore makes of an archive.      *)
(*                                                                         *)
(* A section is its heading and its body. A birth id names a record after  *)
(* its file, its first text and its place among equal texts (ids.rs); a    *)
(* row keeps its native id, whatever its text becomes.                     *)
(***************************************************************************)
EXTENDS ArchiveFormat

CONSTANTS
  Runtimes,    \* among "openclaw", "zeroclaw", "markdown", "hermes", "generic"
  Files,
  Whole,       \* files that are one record each
  Dated,       \* files with a date for a name
  Rows,        \* native ids of a store's rows
  Headings,
  Bodies,
  Store,       \* the scope of rows: they have no heading
  Forgotten,   \* a row that was deleted, whose id is not used again
  Versions     \* of documents

Section == [heading : Headings \cup {NoHeading}, body : Bodies \cup {NoBody}]

BirthIds == [scope : Files \cup {Store}, text : Section, nth : Nat, reminted : BOOLEAN]

ASSUME ExtractionAssumption ==
  /\ Runtimes \subseteq {"openclaw", "zeroclaw", "markdown", "hermes", "generic"}
  /\ Whole \subseteq Files /\ Dated \subseteq Files /\ IsFiniteSet(Files) /\ IsFiniteSet(Rows)
  /\ Store \notin Files /\ NoHeading \notin Headings /\ NoBody \notin Bodies
  /\ \A row \in Rows : row \notin BirthIds
  /\ Nothing \notin Versions /\ Documents \cap Files = {} /\ Store \notin Documents

VARIABLES
  runtime,  \* ZeroClaw has two memory backends, "zeroclaw" (sqlite) and "markdown"
  files,    \* per file: its sections; none, and it is not there
  mtime,    \* per file, and of the store's
  store,    \* per row: its cells, Nothing or Forgotten
  docs      \* per document: its version, or Nothing

workspace == <<files, mtime, store, docs>>

\* The files of a runtime's memory: Hermes curates a single one.
MemoryFiles ==
  CASE runtime \in {"openclaw", "generic"} -> Files
    [] runtime = "markdown"                -> Files \ Whole
    [] runtime = "hermes"                  -> Files \ (Whole \cup Dated)
    [] runtime = "zeroclaw"                -> {}

HasRows == runtime \in {"zeroclaw", "hermes", "generic"}

\* A generic map's database is one of the workspace's files.
StoreIsRaw == runtime = "generic"

-----------------------------------------------------------------------------
(***************************************************************************)
(* Records                                                                 *)
(***************************************************************************)
\* alf-core's chunker drops a section without a body, ZeroClaw's own keeps it,
\* and so does Hermes, whose entries are no sections.
Kept(section) ==
  IF runtime \in {"openclaw", "generic"} THEN section.body # NoBody ELSE section # NoText

EqualBefore(seq, i) == Cardinality({j \in 1..(i - 1) : seq[j] = seq[i]})

\* Daily files carry their date, the others the time of their last write.
Written(f) == IF f \in Dated THEN 1 ELSE mtime[f]

\* The stash is raw_source_format, its place the line numbers or the index of
\* an entry, for rows their key.
FileRecords(f) ==
  LET kept == Keep(files[f], {i \in DOMAIN files[f] : Kept(files[f][i])})
  IN [i \in 1..Len(kept) |->
       [id |-> [scope |-> f, text |-> kept[i], nth |-> EqualBefore(kept, i), reminted |-> FALSE],
        scope |-> f, text |-> kept[i], importance |-> 0, supersedes |-> Nothing,
        created |-> Written(f),
        updated |-> IF runtime \in {"openclaw", "generic"} THEN mtime[f] ELSE 0,
        stash |-> [place |-> i, cells |-> Nothing]]]

Live == {row \in Rows : store[row] \notin {Nothing, Forgotten}}

\* The stash is the row as it is, for ZeroClaw and Hermes to get it back from.
\* ZeroClaw's links point forward, to what replaced a row; records point back.
RowRecord(row) ==
  LET cells == store[row]
      replaced == {old \in Live : store[old].link = row}
  IN [id |-> row, scope |-> Store, text |-> [heading |-> NoHeading, body |-> cells.body],
      importance |-> IF runtime = "zeroclaw" THEN cells.importance ELSE 0,
      supersedes |-> IF runtime # "zeroclaw" \/ replaced = {} THEN Nothing ELSE CHOOSE old \in replaced : TRUE,
      created |-> IF runtime = "generic" THEN mtime[Store] ELSE cells.created,
      updated |-> CASE runtime = "zeroclaw" -> cells.updated
                    [] runtime = "generic"  -> mtime[Store]
                    [] runtime = "hermes"   -> 0,
      stash |-> [place |-> row, cells |-> IF runtime = "generic" THEN Nothing ELSE cells]]

RowRecords ==
  IF HasRows THEN LET rows == SetToSeq(Live) IN [i \in DOMAIN rows |-> RowRecord(rows[i])] ELSE <<>>

Extracted ==
  LET names == SetToSeq(MemoryFiles)
  IN FlattenSeq([i \in DOMAIN names |-> FileRecords(names[i])]) \o RowRecords

\* The raw layer: every file as it is, the markdown of the identity among them.
Raw ==
  LET present == {f \in MemoryFiles : files[f] # <<>>}
      told == {d \in Documents \ {Credentials} : docs[d] # Nothing}
  IN [n \in present \cup told \cup (IF StoreIsRaw THEN {Store} ELSE {}) |->
       IF n \in present THEN files[n] ELSE IF n \in told THEN docs[n] ELSE store]

Export == WriteArchive(ExportPartitions(Extracted), Raw, docs)

-----------------------------------------------------------------------------
(***************************************************************************)
(* Restores                                                                *)
(***************************************************************************)
\* What a restore writes of a raw layer: a ZeroClaw install's files may be other
\* agents' as well, and those that are there stay as they are.
Unpacked(raw) ==
  IF runtime \in {"zeroclaw", "markdown"} THEN DOMAIN raw \ DOMAIN Raw ELSE DOMAIN raw

\* What an archive does not have is left where it is.
RestoredFiles(raw) == [f \in Files |-> IF f \in Unpacked(raw) THEN raw[f] ELSE files[f]]

\* The vault is written when there is something in it.
RestoredDocs(archive) ==
  [d \in Documents |->
     IF d = Credentials
     THEN IF archive.docs[d] = Nothing THEN docs[d] ELSE archive.docs[d]
     ELSE IF d \in Unpacked(archive.raw) THEN archive.raw[d] ELSE docs[d]]

RowsOf(archive) ==
  LET records == ReadAllMemory(archive) IN Keep(records, {i \in DOMAIN records : records[i].scope = Store})

\* NativeRow::from_record: the stash first, and the record for what it lacks.
NativeRow(record) ==
  [record.stash.cells EXCEPT !.body = record.text.body,
                             !.link = IF @ = Nothing THEN record.supersedes ELSE @]

\* The first record whose key an earlier one has, or one past the end: a store
\* takes a key once.
Clash(rows) ==
  Min({i \in 1..Len(rows) : \E j \in 1..(i - 1) : rows[j].stash.place = rows[i].stash.place}
      \cup {Len(rows) + 1})

Inserted(rows, Cells(_)) ==
  [row \in Rows |->
     IF \E i \in DOMAIN rows : rows[i].stash.place = row
     THEN Cells(CHOOSE r \in ToSet(rows) : r.stash.place = row)
     ELSE IF store[row] = Nothing THEN Nothing ELSE Forgotten]

\* ZeroClaw's slice is deleted and inserted in one transaction; Hermes'
\* database is removed and rebuilt insert by insert, when there is a session to
\* put in it, and a rebuild that fails is a warning; a generic database is a
\* raw file.
RestoredStore(archive) ==
  LET rows == RowsOf(archive)
  IN CASE runtime = "zeroclaw"                -> Inserted(rows, NativeRow)
       [] runtime = "hermes" /\ rows # <<>>   -> Inserted(SubSeq(rows, 1, Clash(rows) - 1),
                                                          LAMBDA r : r.stash.cells)
       [] runtime = "generic"                 -> archive.raw[Store]
       [] OTHER                               -> store

\* An import fails as a whole only at ZeroClaw's store.
ImportFails(archive) == runtime = "zeroclaw" /\ Clash(RowsOf(archive)) <= Len(RowsOf(archive))

=============================================================================
