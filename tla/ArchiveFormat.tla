---------------------------- MODULE ArchiveFormat ----------------------------
(***************************************************************************)
(* Archives (.alf) and deltas (.alf-delta): what AlfWriter makes of the    *)
(* records and layers it is given, what a delta carries, how a snapshot    *)
(* and deltas are rebuilt into one archive, and what `alf validate` says   *)
(* of it (alf-core/src/archive.rs, delta.rs, rebuild.rs, validation.rs).   *)
(*                                                                         *)
(* A record has an id, a text and a date of creation; a quarter is an      *)
(* instant. Raw files are a function from their names.                     *)
(***************************************************************************)
EXTENDS Naturals, FiniteSets, Sequences, SequencesExt, FiniteSetsExt

CONSTANTS
  Documents,   \* identity, principals and credentials
  Identity, Credentials,
  Nothing,     \* an absent document
  NoHeading,   \* a preamble, a document without a title, a row
  NoBody       \* nothing but a heading

ASSUME FormatAssumption == {Identity, Credentials} \subseteq Documents /\ Nothing \notin Nat

Ids(records) == {records[i].id : i \in DOMAIN records}

Repeats(records) == \E i, j \in DOMAIN records : i # j /\ records[i].id = records[j].id

WithId(records, id) == CHOOSE r \in ToSet(records) : r.id = id

\* The members of a sequence at some of its places, in their order.
Keep(seq, at) ==
  LET kept[i \in 0..Len(seq)] ==
        IF i = 0 THEN <<>> ELSE IF i \in at THEN Append(kept[i - 1], seq[i]) ELSE kept[i - 1]
  IN kept[Len(seq)]

-----------------------------------------------------------------------------
(***************************************************************************)
(* Partitions                                                              *)
(***************************************************************************)
Quarter(record) == record.created

\* Records are grouped by quarter, the quarters in their order.
Grouped(records) ==
  LET In(q) == {i \in DOMAIN records : Quarter(records[i]) = q}
      latest == Max({Quarter(r) : r \in ToSet(records)} \cup {0})
      grouped[q \in 0..latest] ==
        IF q = 0 THEN <<>> ELSE IF In(q) = {} THEN grouped[q - 1]
        ELSE Append(grouped[q - 1], Keep(records, In(q)))
  IN grouped[latest]

Partition(group, sealed) ==
  [from |-> Quarter(Head(group)), to |-> Quarter(Head(group)), record_count |-> Len(group),
   sealed |-> sealed, records |-> group]

\* An export leaves its partitions open.
ExportPartitions(records) ==
  LET groups == Grouped(records) IN [k \in DOMAIN groups |-> Partition(groups[k], FALSE)]

\* A rewritten archive seals the quarters that are over.
RebuiltPartitions(records, today) ==
  LET groups == Grouped(records)
  IN [k \in DOMAIN groups |-> Partition(groups[k], Quarter(Head(groups[k])) < today)]

-----------------------------------------------------------------------------
(***************************************************************************)
(* Archives                                                                *)
(***************************************************************************)
Refused == [refused |-> TRUE]

\* A partition with an id that has been seen, in itself or before, is refused.
AddMemoryPartition(writer, partition) ==
  LET ids == Ids(partition.records)
  IN [writer EXCEPT !.partitions = Append(@, partition),
                    !.seen = @ \cup ids,
                    !.record_count = @ + Len(partition.records),
                    !.refused = @ \/ ids \cap writer.seen # {} \/ Repeats(partition.records)]

NewWriter == [partitions |-> <<>>, seen |-> {}, record_count |-> 0, refused |-> FALSE]

AddMemoryPartitions(partitions) ==
  LET writer[k \in 0..Len(partitions)] ==
        IF k = 0 THEN NewWriter ELSE AddMemoryPartition(writer[k - 1], partitions[k])
  IN writer[Len(partitions)]

WriteArchive(partitions, raw, docs) ==
  LET writer == AddMemoryPartitions(partitions)
  IN IF writer.refused THEN Refused
     ELSE [refused |-> FALSE, partitions |-> writer.partitions,
           record_count |-> writer.record_count, raw |-> raw, docs |-> docs]

ReadAllMemory(archive) ==
  FlattenSeq([k \in DOMAIN archive.partitions |-> archive.partitions[k].records])

\* Only the memory layer is written anew.
ReplaceMemoryRecords(archive, records, today) ==
  WriteArchive(RebuiltPartitions(records, today), archive.raw, archive.docs)

-----------------------------------------------------------------------------
(***************************************************************************)
(* Deltas                                                                  *)
(***************************************************************************)
\* compute_delta, by id.
MemoryDelta(prev, curr) ==
  [create |-> Keep(curr, {i \in DOMAIN curr : curr[i].id \notin Ids(prev)}),
   update |-> Keep(curr, {i \in DOMAIN curr : curr[i].id \in Ids(prev) /\ curr[i] # WithId(prev, curr[i].id)}),
   delete |-> Ids(prev) \ Ids(curr)]

FaultyApplyDelta(records, delta) ==  \* deletions are not replayed
  [i \in DOMAIN records |->
     IF records[i].id \in Ids(delta.update) THEN WithId(delta.update, records[i].id) ELSE records[i]]
  \o delta.create

\* apply_delta: the others keep their order, creations come last.
ApplyDelta(records, delta) ==
  LET updated == [i \in DOMAIN records |->
                    IF records[i].id \in Ids(delta.update) THEN WithId(delta.update, records[i].id)
                    ELSE records[i]]
  IN Keep(updated, {i \in DOMAIN updated : updated[i].id \notin delta.delete}) \o delta.create

\* diff_raw_trees, with the bytes of what changed.
RawDelta(prev, curr) ==
  [changed |-> [n \in {n \in DOMAIN curr : n \notin DOMAIN prev \/ prev[n] # curr[n]} |-> curr[n]],
   deleted |-> DOMAIN prev \ DOMAIN curr]

FaultyOverlay(raw, delta) ==  \* what the snapshot has comes first
  [n \in (DOMAIN raw \ delta.deleted) \cup DOMAIN delta.changed |->
     IF n \in DOMAIN raw THEN raw[n] ELSE delta.changed[n]]

Overlay(raw, delta) ==
  [n \in (DOMAIN raw \ delta.deleted) \cup DOMAIN delta.changed |->
     IF n \in DOMAIN delta.changed THEN delta.changed[n] ELSE raw[n]]

\* identity_changed and diff_principals leave updated_at out, so that a version
\* is what a document says; a credential's version is its ciphertext.
ChangedDocs(prev, curr) == {d \in Documents : prev[d] # curr[d]}

\* A changed document is sent whole, an empty one when the layer has gone;
\* the format cannot say that an identity has gone.
CarriedDocs(prev, curr) ==
  {d \in ChangedDocs(prev, curr) : d = Identity => curr[d] # Nothing}

WriteDelta(prev, curr) ==
  [memory |-> MemoryDelta(ReadAllMemory(prev), ReadAllMemory(curr)),
   raw |-> RawDelta(prev.raw, curr.raw),
   docs |-> [d \in CarriedDocs(prev.docs, curr.docs) |-> curr.docs[d]]]

\* A change of the identity alone counts, also when it cannot be carried.
NoChanges(prev, curr) ==
  LET delta == WriteDelta(prev, curr)
  IN /\ delta.memory.create = <<>> /\ delta.memory.update = <<>> /\ delta.memory.delete = {}
     /\ DOMAIN delta.raw.changed = {} /\ delta.raw.deleted = {}
     /\ ChangedDocs(prev.docs, curr.docs) = {}

Replay(layers, delta) ==
  [records |-> ApplyDelta(layers.records, delta.memory),
   raw |-> Overlay(layers.raw, delta.raw),
   docs |-> [d \in Documents |-> IF d \in DOMAIN delta.docs THEN delta.docs[d] ELSE layers.docs[d]]]

LayersOf(archive) == [records |-> ReadAllMemory(archive), raw |-> archive.raw, docs |-> archive.docs]

\* The layers of the snapshot, delta after delta.
Replayed(snapshot, deltas) ==
  LET layers[i \in 0..Len(deltas)] ==
        IF i = 0 THEN LayersOf(snapshot) ELSE Replay(layers[i - 1], deltas[i])
  IN layers[Len(deltas)]

\* rebuild_snapshot
Rebuild(snapshot, deltas, today) ==
  LET layers == Replayed(snapshot, deltas)
  IN WriteArchive(RebuiltPartitions(layers.records, today), layers.raw, layers.docs)

-----------------------------------------------------------------------------
(***************************************************************************)
(* alf validate                                                            *)
(***************************************************************************)
CountOf(partitions) ==
  LET total[k \in 0..Len(partitions)] ==
        IF k = 0 THEN 0 ELSE total[k - 1] + partitions[k].record_count
  IN total[Len(partitions)]

Counted(archive) ==
  /\ archive.record_count = CountOf(archive.partitions)
  /\ archive.record_count = Len(ReadAllMemory(archive))

\* validate_memory_inventory
WellPartitioned(archive) ==
  \A k \in DOMAIN archive.partitions :
    LET p == archive.partitions[k]
    IN /\ k > 1 => archive.partitions[k - 1].from <= p.from
       /\ p.sealed => p.to # Nothing
       /\ p.to # Nothing => p.from <= p.to

NoText == [heading |-> NoHeading, body |-> NoBody]

\* validate_memory_record
Blank(record) == record.text = NoText

Valid(archive) ==
  /\ Counted(archive)
  /\ WellPartitioned(archive)
  /\ \A r \in ToSet(ReadAllMemory(archive)) : ~Blank(r)

=============================================================================
