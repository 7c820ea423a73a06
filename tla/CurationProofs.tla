--------------------------- MODULE CurationProofs ---------------------------
(***************************************************************************)
(* Proofs about Curation, for every runtime, set of files, rows, headings  *)
(* and bodies, and every bound: no sync is refused, archives validate, the *)
(* cloud holds the base, and a heading keeps its identity.                 *)
(*                                                                         *)
(* What the recursive functions of ArchiveFormat compute is proved by      *)
(* induction over a set of indices, from the well-foundedness of Nat.      *)
(***************************************************************************)
EXTENDS Curation, SequenceTheorems, FiniteSetTheorems, WellFoundedInduction, TLAPS

-----------------------------------------------------------------------------
(***************************************************************************)
(* Induction, sequences and recursive functions                            *)
(***************************************************************************)
LEMMA LeastOf ==
  ASSUME NEW T, T \subseteq Nat, T # {}
  PROVE  \E x \in T : \A y \in T : x <= y
  <1>1. PICK t \in T : \A u \in T : ~ (<<u, t>> \in OpToRel(<, Nat))
    BY NatLessThanWellFounded, WFMin, Zenon
  <1>2. \A u \in T : ~ (u < t) BY <1>1 DEF OpToRel
  <1>3. \A u \in T : t <= u BY <1>2
  <1>4. QED BY <1>3

\* Induction up to a bound, over a set.
LEMMA Induction ==
  ASSUME NEW m \in Nat, NEW G, 0 \in G,
         \A n \in 0..m : n > 0 /\ n - 1 \in G => n \in G
  PROVE  \A n \in 0..m : n \in G
  <1> DEFINE T == {n \in 0..m : n \notin G}
  <1> SUFFICES ASSUME T # {} PROVE FALSE OBVIOUS
  <1>1. T \subseteq Nat OBVIOUS
  <1> HIDE DEF T
  <1>2. PICK x \in T : \A y \in T : x <= y BY <1>1, LeastOf
  <1> USE DEF T
  <1>3. x \in 0..m /\ x \notin G /\ x # 0 OBVIOUS
  <1>4. x - 1 \in 0..m /\ x - 1 \notin T BY <1>2, <1>3
  <1>5. QED BY <1>3, <1>4

\* The greatest member of a bounded set.
LEMMA MaxIn ==
  ASSUME NEW m \in Nat, NEW S, S \subseteq 0..m, S # {}
  PROVE  Max(S) \in S /\ \A y \in S : y <= Max(S)
  <1> DEFINE T == {n \in 0..m : m - n \in S}
  <1>1. T \subseteq Nat /\ T # {}
    <2>1. PICK s \in S : TRUE OBVIOUS
    <2>2. m - s \in 0..m /\ m - (m - s) = s BY <2>1
    <2>3. QED BY <2>1, <2>2
  <1> HIDE DEF T
  <1>2. PICK x \in T : \A y \in T : x <= y BY <1>1, LeastOf
  <1> USE DEF T
  <1>3. x \in 0..m /\ m - x \in S BY <1>2
  <1>4. ASSUME NEW y \in S PROVE y <= m - x
    <2>1. y \in 0..m /\ m - y \in 0..m /\ m - (m - y) = y OBVIOUS
    <2>2. m - y \in T BY <2>1
    <2>3. x <= m - y BY <1>2, <2>2
    <2>4. QED BY <1>3, <2>1, <2>3
  <1>5. QED BY <1>3, <1>4 DEF Max

IsSeq(seq) == seq \in Seq(ToSet(seq))

\* A sequence over a set has its members there.
LEMMA SeqIsSeq ==
  ASSUME NEW S, NEW seq \in Seq(S)
  PROVE  /\ IsSeq(seq) /\ Len(seq) \in Nat /\ DOMAIN seq = 1..Len(seq)
         /\ \A k \in DOMAIN seq : seq[k] \in S
         /\ ToSet(seq) \subseteq S
  <1>1. Len(seq) \in Nat /\ DOMAIN seq = 1..Len(seq) BY LenProperties
  <1>2. \A k \in DOMAIN seq : seq[k] \in S BY <1>1, ElementOfSeq
  <1>3. ToSet(seq) = Range(seq) BY DEF ToSet, Range
  <1>4. QED BY <1>1, <1>2, <1>3, SeqOfRange, RangeOfSeq DEF IsSeq

\* Places and members of a sequence.
LEMMA IsSeqFacts ==
  ASSUME NEW seq, IsSeq(seq)
  PROVE  /\ Len(seq) \in Nat /\ DOMAIN seq = 1..Len(seq)
         /\ \A k \in DOMAIN seq : seq[k] \in ToSet(seq)
  BY LenProperties DEF IsSeq, ToSet

\* The empty sequence has no members.
LEMMA EmptyIsSeq == IsSeq(<<>>) /\ ToSet(<<>>) = {}
  <1>1. \A s \in Seq({}) : IsSeq(s) /\ ToSet(s) \subseteq {} BY SeqIsSeq
  <1>2. <<>> \in Seq({}) BY EmptySeq
  <1>3. IsSeq(<<>>) /\ ToSet(<<>>) \subseteq {} BY <1>1, <1>2
  <1>4. QED BY <1>3

\* A function on 1..n is a sequence.
LEMMA FunctionIsSeq ==
  ASSUME NEW n \in Nat, NEW f, DOMAIN f = 1..n, f = [k \in DOMAIN f |-> f[k]]
  PROVE  IsSeq(f) /\ Len(f) = n
  <1>1. f \in [1..n -> ToSet(f)] BY DEF ToSet
  <1>2. f \in Seq(ToSet(f)) BY <1>1, SeqDef
  <1>3. Len(f) \in Nat /\ DOMAIN f = 1..Len(f) BY <1>2, LenProperties
  <1>4. QED BY <1>2, <1>3 DEF IsSeq

\* One more at the end.
LEMMA AppendFacts ==
  ASSUME NEW seq, IsSeq(seq), NEW e
  PROVE  /\ IsSeq(Append(seq, e))
         /\ ToSet(Append(seq, e)) = ToSet(seq) \cup {e}
         /\ Len(Append(seq, e)) = Len(seq) + 1
         /\ DOMAIN Append(seq, e) = 1..(Len(seq) + 1)
         /\ \A k \in 1..Len(seq) : Append(seq, e)[k] = seq[k]
         /\ Append(seq, e)[Len(seq) + 1] = e
  <1> DEFINE S == ToSet(seq) \cup {e}
             more == Append(seq, e)
  <1>1. seq \in Seq(S) /\ e \in S BY SeqMonotonic DEF IsSeq
  <1>2. Len(seq) \in Nat /\ DOMAIN seq = 1..Len(seq) BY IsSeqFacts
  <1> HIDE DEF S
  <1>3. /\ more \in Seq(S) /\ Len(more) = Len(seq) + 1
        /\ \A k \in 1..Len(seq) : more[k] = seq[k]
        /\ more[Len(seq) + 1] = e
    BY <1>1, AppendProperties
  <1>4. IsSeq(more) /\ DOMAIN more = 1..(Len(seq) + 1) BY <1>3, SeqIsSeq
  <1> HIDE DEF more
  <1>5. ToSet(more) = ToSet(seq) \cup {e} BY <1>2, <1>3, <1>4 DEF ToSet
  <1>6. QED BY <1>3, <1>4, <1>5 DEF more

\* One sequence after another.
LEMMA ConcatFacts ==
  ASSUME NEW s, IsSeq(s), NEW t, IsSeq(t)
  PROVE  /\ IsSeq(s \o t)
         /\ ToSet(s \o t) = ToSet(s) \cup ToSet(t)
         /\ Len(s \o t) = Len(s) + Len(t)
         /\ DOMAIN (s \o t) = 1..(Len(s) + Len(t))
         /\ \A k \in 1..(Len(s) + Len(t)) :
              (s \o t)[k] = IF k <= Len(s) THEN s[k] ELSE t[k - Len(s)]
  <1> DEFINE S == ToSet(s) \cup ToSet(t)
             u == s \o t
  <1>1. s \in Seq(S) /\ t \in Seq(S) BY SeqMonotonic DEF IsSeq
  <1>2. /\ Len(s) \in Nat /\ DOMAIN s = 1..Len(s)
        /\ Len(t) \in Nat /\ DOMAIN t = 1..Len(t)
    BY IsSeqFacts
  <1> HIDE DEF S
  <1>3. /\ u \in Seq(S) /\ Len(u) = Len(s) + Len(t)
        /\ \A k \in 1..(Len(s) + Len(t)) : u[k] = IF k <= Len(s) THEN s[k] ELSE t[k - Len(s)]
    BY <1>1, ConcatProperties
  <1>4. IsSeq(u) /\ DOMAIN u = 1..(Len(s) + Len(t)) BY <1>3, SeqIsSeq
  <1> HIDE DEF u
  <1>5. ToSet(u) = ToSet(s) \cup ToSet(t)
    <2>1. ASSUME NEW k \in 1..(Len(s) + Len(t)) PROVE u[k] \in ToSet(s) \cup ToSet(t)
      <3>1. CASE k <= Len(s) BY <3>1, <1>2, <1>3 DEF ToSet
      <3>2. CASE ~(k <= Len(s))
        <4>1. k - Len(s) \in 1..Len(t) BY <3>2, <1>2
        <4>2. QED BY <3>2, <4>1, <1>2, <1>3 DEF ToSet
      <3>3. QED BY <3>1, <3>2
    <2>2. ASSUME NEW k \in 1..Len(s) PROVE s[k] \in ToSet(u)
      <3>1. k \in 1..(Len(s) + Len(t)) /\ k <= Len(s) BY <1>2
      <3>2. QED BY <3>1, <1>3, <1>4 DEF ToSet
    <2>3. ASSUME NEW k \in 1..Len(t) PROVE t[k] \in ToSet(u)
      <3>1. /\ k + Len(s) \in 1..(Len(s) + Len(t)) /\ ~(k + Len(s) <= Len(s))
            /\ (k + Len(s)) - Len(s) = k
        BY <1>2
      <3>2. u[k + Len(s)] = t[k] BY <3>1, <1>3
      <3>3. QED BY <3>1, <3>2, <1>4 DEF ToSet
    <2>4. QED BY <2>1, <2>2, <2>3, <1>2, <1>4 DEF ToSet
  <1>6. QED BY <1>3, <1>4, <1>5 DEF u

\* The steps of the recursive functions: one lemma serves them all.
Step(op, c, a, k) ==
  CASE op = "keep"    -> IF k \in c.at THEN Append(a, c.seq[k]) ELSE a
    [] op = "group"   -> IF {i \in DOMAIN c : Quarter(c[i]) = k} = {} THEN a
                         ELSE Append(a, Keep(c, {i \in DOMAIN c : Quarter(c[i]) = k}))
    [] op = "flatten" -> a \o c[k]
    [] op = "write"   -> AddMemoryPartition(a, c[k])
    [] op = "count"   -> a + c[k].record_count
    [] op = "replay"  -> Replay(a, c[k])
    [] op = "taken"   -> a \cup (IF k \in c.new THEN {FreshId(c.curr[k], a)} ELSE {})

Recurs(op, c, first, h, lo, n) ==
  h = [k \in lo..n |-> IF k = lo THEN first ELSE Step(op, c, h[k - 1], k)]

Unrolls(op, c, first, h, lo, n) ==
  /\ lo <= n => h[lo] = first
  /\ \A k \in (lo + 1)..n : h[k] = Step(op, c, h[k - 1], k)

\* A recursive function over an interval exists.
LEMMA RecursionExists ==
  ASSUME NEW op, NEW c, NEW first, NEW lo \in {0, 1}, NEW n \in Nat
  PROVE  \E h : Recurs(op, c, first, h, lo, n)
  <1> DEFINE G == {m \in Nat : \E h : Recurs(op, c, first, h, lo, m)}
  <1>1. 0 \in G
    <2> DEFINE h == [k \in lo..0 |-> first]
    <2>1. \A k \in lo..0 : k = lo OBVIOUS
    <2>2. h = [k \in lo..0 |-> IF k = lo THEN first ELSE Step(op, c, h[k - 1], k)]
      BY <2>1
    <2> HIDE DEF h
    <2>3. Recurs(op, c, first, h, lo, 0) BY <2>2 DEF Recurs
    <2>4. QED BY <2>3
  <1>2. ASSUME NEW m \in 0..n, m > 0, m - 1 \in G PROVE m \in G
    <2>1. PICK h : Recurs(op, c, first, h, lo, m - 1) BY <1>2
    <2> DEFINE longer == [k \in lo..m |-> IF k = lo THEN first
                                          ELSE IF k = m THEN Step(op, c, h[m - 1], m) ELSE h[k]]
    <2>2. ASSUME NEW k \in lo..m, k # lo
          PROVE  longer[k] = Step(op, c, longer[k - 1], k)
      <3>1. k - 1 \in lo..(m - 1) /\ k - 1 \in lo..m /\ k - 1 # m BY <2>2
      <3>2. h[k - 1] = IF k - 1 = lo THEN first ELSE Step(op, c, h[k - 1 - 1], k - 1)
        BY <2>1, <3>1 DEF Recurs
      <3>3. longer[k - 1] = h[k - 1] BY <3>1, <3>2
      <3>4. CASE k = m BY <2>2, <3>3, <3>4
      <3>5. CASE k # m
        <4>1. k \in lo..(m - 1) BY <3>5
        <4>2. h[k] = Step(op, c, h[k - 1], k) BY <2>1, <2>2, <4>1 DEF Recurs
        <4>3. longer[k] = h[k] BY <2>2, <3>5
        <4>4. QED BY <3>3, <4>2, <4>3
      <3>6. QED BY <3>4, <3>5
    <2>3. lo \in lo..m => longer[lo] = first OBVIOUS
    <2>4. longer = [k \in lo..m |-> longer[k]] OBVIOUS
    <2> HIDE DEF longer
    <2>5. longer = [k \in lo..m |-> IF k = lo THEN first ELSE Step(op, c, longer[k - 1], k)]
      BY <2>2, <2>3, <2>4
    <2>6. Recurs(op, c, first, longer, lo, m) BY <2>5 DEF Recurs
    <2>7. QED BY <1>2, <2>6
  <1> HIDE DEF G
  <1>3. n \in 0..n OBVIOUS
  <1>4. n \in G BY <1>1, <1>2, <1>3, Induction
  <1>5. QED BY <1>4 DEF G

\* What the recursive definition says of each of its values.
LEMMA RecursionUnrolls ==
  ASSUME NEW op, NEW c, NEW first, NEW lo \in {0, 1}, NEW n \in Nat, NEW h,
         Recurs(op, c, first, h, lo, n)
  PROVE  Unrolls(op, c, first, h, lo, n)
  <1>1. lo <= n => h[lo] = first BY DEF Recurs
  <1>2. ASSUME NEW k \in (lo + 1)..n PROVE h[k] = Step(op, c, h[k - 1], k)
    <2>1. k \in lo..n /\ k # lo OBVIOUS
    <2>2. QED BY <2>1 DEF Recurs
  <1>3. QED BY <1>1, <1>2 DEF Unrolls

\* Keep, place by place.
LEMMA KeepUnrolls ==
  ASSUME NEW seq, Len(seq) \in Nat, NEW at
  PROVE  \E h : /\ Unrolls("keep", [seq |-> seq, at |-> at], <<>>, h, 0, Len(seq))
                /\ Keep(seq, at) = h[Len(seq)]
  <1> DEFINE n == Len(seq)
             c == [seq |-> seq, at |-> at]
             Rec(h) == h = [i \in 0..n |->
                              IF i = 0 THEN <<>>
                              ELSE IF i \in at THEN Append(h[i - 1], seq[i]) ELSE h[i - 1]]
             h == CHOOSE g : Rec(g)
  <1>1. \A g : Rec(g) <=> Recurs("keep", c, <<>>, g, 0, n) BY DEF Recurs, Step
  <1>2. Keep(seq, at) = h[n] BY DEF Keep
  <1> HIDE DEF Rec, c
  <1>3. Rec(h) BY <1>1, RecursionExists
  <1> HIDE DEF h
  <1>4. QED BY <1>1, <1>2, <1>3, RecursionUnrolls DEF c

\* CountOf, partition by partition.
LEMMA CountUnrolls ==
  ASSUME NEW partitions, Len(partitions) \in Nat
  PROVE  \E h : /\ Unrolls("count", partitions, 0, h, 0, Len(partitions))
                /\ CountOf(partitions) = h[Len(partitions)]
  <1> DEFINE n == Len(partitions)
             Rec(h) == h = [k \in 0..n |->
                              IF k = 0 THEN 0 ELSE h[k - 1] + partitions[k].record_count]
             h == CHOOSE g : Rec(g)
  <1>1. \A g : Rec(g) <=> Recurs("count", partitions, 0, g, 0, n) BY DEF Recurs, Step
  <1>2. CountOf(partitions) = h[n] BY DEF CountOf
  <1> HIDE DEF Rec
  <1>3. Rec(h) BY <1>1, RecursionExists
  <1> HIDE DEF h
  <1>4. QED BY <1>1, <1>2, <1>3, RecursionUnrolls

\* AddMemoryPartitions, partition by partition.
LEMMA WriterUnrolls ==
  ASSUME NEW partitions, Len(partitions) \in Nat
  PROVE  \E h : /\ Unrolls("write", partitions, NewWriter, h, 0, Len(partitions))
                /\ AddMemoryPartitions(partitions) = h[Len(partitions)]
  <1> DEFINE n == Len(partitions)
             Rec(h) == h = [k \in 0..n |->
                              IF k = 0 THEN NewWriter
                              ELSE AddMemoryPartition(h[k - 1], partitions[k])]
             h == CHOOSE g : Rec(g)
  <1>1. \A g : Rec(g) <=> Recurs("write", partitions, NewWriter, g, 0, n) BY DEF Recurs, Step
  <1>2. AddMemoryPartitions(partitions) = h[n] BY DEF AddMemoryPartitions
  <1> HIDE DEF Rec
  <1>3. Rec(h) BY <1>1, RecursionExists
  <1> HIDE DEF h
  <1>4. QED BY <1>1, <1>2, <1>3, RecursionUnrolls

\* Replayed, delta by delta.
LEMMA ReplayUnrolls ==
  ASSUME NEW snapshot, NEW deltas, Len(deltas) \in Nat
  PROVE  \E h : /\ Unrolls("replay", deltas, LayersOf(snapshot), h, 0, Len(deltas))
                /\ Replayed(snapshot, deltas) = h[Len(deltas)]
  <1> DEFINE n == Len(deltas)
             Rec(h) == h = [i \in 0..n |->
                              IF i = 0 THEN LayersOf(snapshot) ELSE Replay(h[i - 1], deltas[i])]
             h == CHOOSE g : Rec(g)
  <1>1. \A g : Rec(g) <=> Recurs("replay", deltas, LayersOf(snapshot), g, 0, n)
    BY DEF Recurs, Step
  <1>2. Replayed(snapshot, deltas) = h[n] BY DEF Replayed
  <1> HIDE DEF Rec
  <1>3. Rec(h) BY <1>1, RecursionExists
  <1> HIDE DEF h
  <1>4. QED BY <1>1, <1>2, <1>3, RecursionUnrolls

\* FlattenSeq, sequence by sequence.
LEMMA FlattenUnrolls ==
  ASSUME NEW seqs, Len(seqs) \in Nat, Len(seqs) # 0
  PROVE  \E h : /\ Unrolls("flatten", seqs, seqs[1], h, 1, Len(seqs))
                /\ FlattenSeq(seqs) = h[Len(seqs)]
  <1> DEFINE n == Len(seqs)
             Rec(h) == h = [i \in 1..n |-> IF i = 1 THEN seqs[i] ELSE h[i - 1] \o seqs[i]]
             h == CHOOSE g : Rec(g)
  <1>1. \A g : Rec(g) <=> Recurs("flatten", seqs, seqs[1], g, 1, n)
    <2>1. \A g : [i \in 1..n |-> IF i = 1 THEN seqs[i] ELSE g[i - 1] \o seqs[i]]
                 = [i \in 1..n |-> IF i = 1 THEN seqs[1] ELSE g[i - 1] \o seqs[i]]
      OBVIOUS
    <2>2. QED BY <2>1 DEF Recurs, Step
  <1>2. FlattenSeq(seqs) = h[n] BY DEF FlattenSeq
  <1> HIDE DEF Rec
  <1>3. Rec(h) BY <1>1, RecursionExists
  <1> HIDE DEF h
  <1>4. QED BY <1>1, <1>2, <1>3, RecursionUnrolls

LatestOf(records) == Max({Quarter(r) : r \in ToSet(records)} \cup {0})

\* Grouped, quarter by quarter.
LEMMA GroupUnrolls ==
  ASSUME NEW records, LatestOf(records) \in Nat
  PROVE  \E h : /\ Unrolls("group", records, <<>>, h, 0, LatestOf(records))
                /\ Grouped(records) = h[LatestOf(records)]
  <1> DEFINE n == LatestOf(records)
             Rec(h) == h = [q \in 0..n |->
                              IF q = 0 THEN <<>>
                              ELSE IF {i \in DOMAIN records : Quarter(records[i]) = q} = {}
                              THEN h[q - 1]
                              ELSE Append(h[q - 1],
                                     Keep(records, {i \in DOMAIN records : Quarter(records[i]) = q}))]
             h == CHOOSE g : Rec(g)
  <1>1. \A g : Rec(g) <=> Recurs("group", records, <<>>, g, 0, n)
    BY DEF Recurs, Step
  <1>2. Grouped(records) = h[n] BY DEF Grouped, LatestOf
  <1> HIDE DEF Rec, n
  <1>3. Rec(h) BY <1>1, RecursionExists DEF n
  <1> HIDE DEF h
  <1>4. QED BY <1>1, <1>2, <1>3, RecursionUnrolls DEF n

-----------------------------------------------------------------------------
(***************************************************************************)
(* Records                                                                 *)
(***************************************************************************)

\* One record for an id.
Unique(records) == IsSeq(records) /\ ~Repeats(records)

\* An id names one record.
LEMMA UniqueById ==
  ASSUME NEW records, Unique(records)
  PROVE  \A r, s \in ToSet(records) : r.id = s.id => r = s
  BY DEF Unique, Repeats, ToSet

\* No records share no id.
LEMMA EmptyUnique == Unique(<<>>)
  <1>1. DOMAIN <<>> = {} BY EmptyIsSeq, IsSeqFacts
  <1>2. QED BY <1>1, EmptyIsSeq DEF Unique, Repeats

\* The ids are those of the members.
LEMMA IdsOfSet ==
  ASSUME NEW records
  PROVE  Ids(records) = {r.id : r \in ToSet(records)}
  BY DEF Ids, ToSet

\* A record with a new id can be appended.
LEMMA AppendUnique ==
  ASSUME NEW records, Unique(records), NEW r, r.id \notin Ids(records)
  PROVE  Unique(Append(records, r))
  <1> DEFINE more == Append(records, r)
             n == Len(records)
  <1>1. n \in Nat /\ DOMAIN records = 1..n BY IsSeqFacts DEF Unique
  <1>2. /\ IsSeq(more) /\ DOMAIN more = 1..(n + 1)
        /\ \A k \in 1..n : more[k] = records[k]
        /\ more[n + 1] = r
    BY AppendFacts DEF Unique
  <1> HIDE DEF more, n
  <1>3. \A k \in 1..n : records[k].id # r.id BY <1>1 DEF Ids
  <1>4. ~Repeats(more) BY <1>1, <1>2, <1>3 DEF Repeats, Unique
  <1>5. QED BY <1>2, <1>4 DEF Unique, more

\* Records without an id in common can be put together.
LEMMA ConcatUnique ==
  ASSUME NEW s, Unique(s), NEW t, Unique(t), Ids(s) \cap Ids(t) = {}
  PROVE  Unique(s \o t)
  <1> DEFINE u == s \o t
             m == Len(s)
             n == Len(t)
  <1>1. m \in Nat /\ DOMAIN s = 1..m /\ n \in Nat /\ DOMAIN t = 1..n
    BY IsSeqFacts DEF Unique
  <1>2. /\ IsSeq(u) /\ DOMAIN u = 1..(m + n)
        /\ \A k \in 1..(m + n) : u[k] = IF k <= m THEN s[k] ELSE t[k - m]
    BY ConcatFacts DEF Unique
  <1> HIDE DEF u, m, n
  <1>3. ASSUME NEW j \in 1..(m + n), NEW k \in 1..(m + n), j < k PROVE u[j].id # u[k].id
    <2>1. CASE k <= m
      <3>1. j \in 1..m /\ k \in 1..m /\ j # k BY <2>1, <1>1, <1>3
      <3>2. u[j] = s[j] /\ u[k] = s[k] BY <3>1, <2>1, <1>1, <1>2, <1>3
      <3>3. QED BY <3>1, <3>2, <1>1 DEF Unique, Repeats
    <2>2. CASE j <= m /\ ~(k <= m)
      <3>1. j \in 1..m /\ k - m \in 1..n BY <2>2, <1>1
      <3>2. u[j] = s[j] /\ u[k] = t[k - m] BY <2>2, <1>2
      <3>3. s[j].id \in Ids(s) /\ t[k - m].id \in Ids(t) BY <3>1, <1>1 DEF Ids
      <3>4. QED BY <3>2, <3>3
    <2>3. CASE ~(j <= m)
      <3>1. j - m \in 1..n /\ k - m \in 1..n /\ j - m # k - m /\ ~(k <= m)
        BY <2>3, <1>1, <1>3
      <3>2. u[j] = t[j - m] /\ u[k] = t[k - m] BY <2>3, <3>1, <1>2
      <3>3. QED BY <3>1, <3>2, <1>1 DEF Unique, Repeats
    <2>4. QED BY <2>1, <2>2, <2>3
  <1>4. \A j, k \in 1..(m + n) : j # k => j < k \/ k < j BY <1>1
  <1>5. ~Repeats(u) BY <1>2, <1>3, <1>4 DEF Repeats
  <1>6. QED BY <1>2, <1>5 DEF Unique, u

\* What is kept are the members at the places, still with an id each.
LEMMA KeepFacts ==
  ASSUME NEW seq, IsSeq(seq), NEW at
  PROVE  /\ IsSeq(Keep(seq, at))
         /\ ToSet(Keep(seq, at)) = {seq[i] : i \in at \cap DOMAIN seq}
         /\ Unique(seq) => Unique(Keep(seq, at))
  <1> DEFINE n == Len(seq)
             c == [seq |-> seq, at |-> at]
  <1>1. n \in Nat /\ DOMAIN seq = 1..n BY IsSeqFacts
  <1>2. PICK h : Unrolls("keep", c, <<>>, h, 0, n) /\ Keep(seq, at) = h[n] BY <1>1, KeepUnrolls
  <1>3. /\ h[0] = <<>>
        /\ \A k \in 1..n : h[k] = IF k \in at THEN Append(h[k - 1], seq[k]) ELSE h[k - 1]
    <2>1. c.seq = seq /\ c.at = at OBVIOUS
    <2> HIDE DEF c, n
    <2>2. QED BY <1>1, <1>2, <2>1 DEF Unrolls, Step
  <1> HIDE DEF n, c
  <1> DEFINE Good(k) == /\ IsSeq(h[k])
                        /\ ToSet(h[k]) = {seq[i] : i \in at \cap 1..k}
                        /\ Unique(seq) => Unique(h[k])
             G == {k \in 0..n : Good(k)}
  <1>4. 0 \in G
    <2>1. Good(0)
      <3>1. at \cap 1..0 = {} OBVIOUS
      <3>2. QED BY <1>3, <3>1, EmptyIsSeq, EmptyUnique
    <2> HIDE DEF Good
    <2>2. QED BY <1>1, <2>1
  <1>5. ASSUME NEW k \in 0..n, k > 0, k - 1 \in G PROVE k \in G
    <2>1. k \in 1..n /\ Good(k - 1) BY <1>1, <1>5
    <2>2. CASE k \notin at
      <3>1. h[k] = h[k - 1] BY <1>3, <2>1, <2>2
      <3>2. at \cap 1..k = at \cap 1..(k - 1) BY <2>1, <2>2, <1>1
      <3>3. Good(k) BY <2>1, <3>1, <3>2
      <3> HIDE DEF Good
      <3>4. QED BY <3>3
    <2>3. CASE k \in at
      <3>1. h[k] = Append(h[k - 1], seq[k]) BY <1>3, <2>1, <2>3
      <3>2. at \cap 1..k = (at \cap 1..(k - 1)) \cup {k} BY <2>1, <2>3, <1>1
      <3>3. IsSeq(h[k]) /\ ToSet(h[k]) = ToSet(h[k - 1]) \cup {seq[k]} BY <2>1, <3>1, AppendFacts
      <3>4. ToSet(h[k]) = {seq[i] : i \in at \cap 1..k} BY <2>1, <3>2, <3>3
      <3>5. ASSUME Unique(seq) PROVE Unique(h[k])
        <4>1. seq[k].id \notin Ids(h[k - 1])
          <5>1. Ids(h[k - 1]) = {r.id : r \in ToSet(h[k - 1])} BY IdsOfSet
          <5>2. \A i \in 1..(k - 1) : seq[i].id # seq[k].id
            BY <3>5, <1>1, <2>1 DEF Unique, Repeats
          <5>3. QED BY <5>1, <5>2, <2>1
        <4>2. QED BY <4>1, <3>1, <3>5, <2>1, AppendUnique
      <3>6. Good(k) BY <3>3, <3>4, <3>5
      <3> HIDE DEF Good
      <3>7. QED BY <3>6
    <2>4. QED BY <2>2, <2>3
  <1> HIDE DEF G
  <1>6. \A k \in 0..n : k \in G BY <1>1, <1>4, <1>5, Induction
  <1>7. n \in G BY <1>1, <1>6
  <1> USE DEF G
  <1>8. Good(n) BY <1>7
  <1>9. QED BY <1>1, <1>2, <1>8

\* Flattening loses nothing, and no id comes twice when the parts share none.
LEMMA FlattenFacts ==
  ASSUME NEW seqs, IsSeq(seqs), \A k \in DOMAIN seqs : Unique(seqs[k]),
         \A j, k \in DOMAIN seqs : j < k => Ids(seqs[j]) \cap Ids(seqs[k]) = {}
  PROVE  /\ Unique(FlattenSeq(seqs))
         /\ ToSet(FlattenSeq(seqs)) = UNION {ToSet(seqs[k]) : k \in DOMAIN seqs}
  <1> DEFINE n == Len(seqs)
  <1>1. n \in Nat /\ DOMAIN seqs = 1..n BY IsSeqFacts
  <1>2. CASE n = 0
    <2>1. FlattenSeq(seqs) = seqs /\ DOMAIN seqs = {} BY <1>1, <1>2 DEF FlattenSeq
    <2>2. QED BY <2>1 DEF Unique, Repeats, ToSet
  <1>3. CASE n # 0
    <2>1. PICK h : Unrolls("flatten", seqs, seqs[1], h, 1, n) /\ FlattenSeq(seqs) = h[n]
      BY <1>1, <1>3, FlattenUnrolls
    <2> HIDE DEF n
    <2>2. h[1] = seqs[1] /\ \A k \in 2..n : h[k] = h[k - 1] \o seqs[k]
      <3>1. 1 <= n /\ 1 + 1 = 2 BY <1>1, <1>3
      <3>2. \A k : Step("flatten", seqs, h[k - 1], k) = h[k - 1] \o seqs[k] BY DEF Step
      <3>3. h[1] = seqs[1] /\ \A k \in (1 + 1)..n : h[k] = Step("flatten", seqs, h[k - 1], k)
        BY <2>1, <3>1 DEF Unrolls
      <3>4. QED BY <3>1, <3>2, <3>3
    <2> DEFINE Good(k) == /\ Unique(h[k])
                          /\ ToSet(h[k]) = UNION {ToSet(seqs[j]) : j \in 1..k}
               G == {k \in 0..n : k = 0 \/ Good(k)}
    <2>3. 0 \in G BY <1>1
    <2>4. ASSUME NEW k \in 0..n, k > 0, k - 1 \in G PROVE k \in G
      <3>1. CASE k = 1
        <4>1. 1..k = {1} /\ 1 \in DOMAIN seqs BY <3>1, <1>1, <1>3
        <4>2. Good(k) BY <3>1, <4>1, <2>2
        <4> HIDE DEF Good
        <4>3. QED BY <4>2
      <3>2. CASE k # 1
        <4>1. k \in 2..n /\ k \in DOMAIN seqs /\ Good(k - 1) BY <3>2, <2>4, <1>1
        <4>2. h[k] = h[k - 1] \o seqs[k] BY <4>1, <2>2
        <4>3. Ids(h[k - 1]) \cap Ids(seqs[k]) = {}
          <5>1. Ids(h[k - 1]) = {r.id : r \in ToSet(h[k - 1])} BY IdsOfSet
          <5>2. \A j \in 1..(k - 1) : Ids(seqs[j]) = {r.id : r \in ToSet(seqs[j])} BY IdsOfSet
          <5>3. \A j \in 1..(k - 1) : Ids(seqs[j]) \cap Ids(seqs[k]) = {} BY <1>1, <4>1
          <5>4. ASSUME NEW r \in ToSet(h[k - 1]) PROVE r.id \notin Ids(seqs[k])
            <6>1. PICK j \in 1..(k - 1) : r \in ToSet(seqs[j]) BY <4>1
            <6>2. r.id \in Ids(seqs[j]) BY <5>2, <6>1
            <6>3. QED BY <5>3, <6>2
          <5>5. QED BY <5>1, <5>4
        <4>4. Unique(seqs[k]) BY <4>1
        <4>5. Unique(h[k]) BY <4>1, <4>2, <4>3, <4>4, ConcatUnique
        <4>6. ToSet(h[k]) = ToSet(h[k - 1]) \cup ToSet(seqs[k])
          BY <4>1, <4>2, <4>4, ConcatFacts DEF Unique
        <4>7. 1..k = 1..(k - 1) \cup {k} BY <4>1, <1>1
        <4>8. Good(k) BY <4>1, <4>5, <4>6, <4>7
        <4> HIDE DEF Good
        <4>9. QED BY <4>8
      <3>3. QED BY <3>1, <3>2
    <2> HIDE DEF G
    <2>5. \A k \in 0..n : k \in G BY <1>1, <2>3, <2>4, Induction
    <2>6. n \in G BY <1>1, <2>5
    <2> USE DEF G
    <2>7. Good(n) BY <2>6, <1>3
    <2>8. QED BY <1>1, <2>1, <2>7
  <1>4. QED BY <1>2, <1>3

\* Quarter after quarter.
Grouping(groups, records, q) ==
  /\ IsSeq(groups)
  /\ \A k \in DOMAIN groups :
       /\ groups[k] # <<>> /\ Unique(groups[k])
       /\ \A r \in ToSet(groups[k]) : Quarter(r) = Quarter(Head(groups[k]))
       /\ Quarter(Head(groups[k])) \in 1..q
  /\ \A j, k \in DOMAIN groups :
       j < k => Quarter(Head(groups[j])) < Quarter(Head(groups[k]))
  /\ UNION {ToSet(groups[k]) : k \in DOMAIN groups} = {r \in ToSet(records) : Quarter(r) \in 1..q}

\* The first is a member.
LEMMA HeadFacts ==
  ASSUME NEW seq, IsSeq(seq), seq # <<>>
  PROVE  Head(seq) \in ToSet(seq)
  BY HeadTailProperties DEF IsSeq

\* The records of one quarter more make one group more.
LEMMA GroupingGrows ==
  ASSUME NEW records, Unique(records), NEW q \in Nat, q > 0,
         NEW groups, Grouping(groups, records, q - 1),
         NEW In, In = {i \in DOMAIN records : Quarter(records[i]) = q},
         NEW more, more = IF In = {} THEN groups ELSE Append(groups, Keep(records, In))
  PROVE  Grouping(more, records, q)
  <1> DEFINE n == Len(groups)
             g == Keep(records, In)
  <1>1. n \in Nat /\ DOMAIN groups = 1..n BY IsSeqFacts DEF Grouping
  <1>2. {r \in ToSet(records) : Quarter(r) \in 1..q}
          = {r \in ToSet(records) : Quarter(r) \in 1..(q - 1)} \cup {records[i] : i \in In}
    <2>1. 1..q = 1..(q - 1) \cup {q} OBVIOUS
    <2>2. QED BY <2>1 DEF ToSet
  <1>3. \A k \in DOMAIN groups : Quarter(Head(groups[k])) \in 1..q /\ Quarter(Head(groups[k])) < q
    BY DEF Grouping
  <1>4. CASE In = {}
    <2>1. more = groups /\ {records[i] : i \in In} = {} BY <1>4
    <2>2. QED BY <2>1, <1>2, <1>3 DEF Grouping
  <1>5. CASE In # {}
    <2>1. /\ IsSeq(g) /\ Unique(g)
          /\ ToSet(g) = {records[i] : i \in In \cap DOMAIN records}
      BY KeepFacts DEF Unique
    <2>2. In \cap DOMAIN records = In OBVIOUS
    <2> HIDE DEF g
    <2>3. \A r \in ToSet(g) : Quarter(r) = q BY <2>1
    <2>4. g # <<>> BY <1>5, <2>1, <2>2, EmptyIsSeq
    <2>5. Quarter(Head(g)) = q BY <2>1, <2>3, <2>4, HeadFacts
    <2>6. /\ IsSeq(more) /\ DOMAIN more = 1..(n + 1)
          /\ \A k \in 1..n : more[k] = groups[k]
          /\ more[n + 1] = g
      BY <1>5, AppendFacts DEF Grouping, g
    <2> HIDE DEF n
    <2>7. ASSUME NEW k \in DOMAIN more
          PROVE  /\ more[k] # <<>> /\ Unique(more[k])
                 /\ \A r \in ToSet(more[k]) : Quarter(r) = Quarter(Head(more[k]))
                 /\ Quarter(Head(more[k])) \in 1..q
      <3>1. CASE k = n + 1
        <4>1. more[k] = g BY <3>1, <2>6
        <4>2. q \in 1..q OBVIOUS
        <4>3. QED BY <4>1, <4>2, <2>1, <2>3, <2>4, <2>5
      <3>2. CASE k # n + 1
        <4>1. k \in DOMAIN groups /\ more[k] = groups[k] BY <3>2, <1>1, <2>6
        <4>2. QED BY <4>1, <1>3 DEF Grouping
      <3>3. QED BY <3>1, <3>2
    <2>8. ASSUME NEW j \in DOMAIN more, NEW k \in DOMAIN more, j < k
          PROVE  Quarter(Head(more[j])) < Quarter(Head(more[k]))
      <3>1. j \in DOMAIN groups /\ more[j] = groups[j] BY <2>6, <2>8, <1>1
      <3>2. CASE k = n + 1 BY <3>1, <3>2, <1>3, <2>5, <2>6
      <3>3. CASE k # n + 1
        <4>1. k \in DOMAIN groups /\ more[k] = groups[k] BY <3>3, <1>1, <2>6
        <4>2. QED BY <3>1, <4>1, <2>8 DEF Grouping
      <3>4. QED BY <3>2, <3>3
    <2>9. UNION {ToSet(more[k]) : k \in DOMAIN more}
            = (UNION {ToSet(groups[k]) : k \in DOMAIN groups}) \cup ToSet(g)
      <3>1. DOMAIN more = DOMAIN groups \cup {n + 1} BY <1>1, <2>6
      <3>2. \A k \in DOMAIN groups : more[k] = groups[k] BY <1>1, <2>6
      <3>3. n + 1 \in DOMAIN more /\ more[n + 1] = g BY <1>1, <2>6
      <3>4. ASSUME NEW k \in DOMAIN more
            PROVE  ToSet(more[k]) \subseteq (UNION {ToSet(groups[j]) : j \in DOMAIN groups}) \cup ToSet(g)
        <4>1. CASE k \in DOMAIN groups
          <5>1. more[k] = groups[k] BY <3>2, <4>1
          <5>2. QED BY <4>1, <5>1
        <4>2. CASE k = n + 1 BY <3>3, <4>2
        <4>3. QED BY <3>1, <4>1, <4>2
      <3>5. ASSUME NEW k \in DOMAIN groups
            PROVE  ToSet(groups[k]) \subseteq UNION {ToSet(more[j]) : j \in DOMAIN more}
        <4>1. k \in DOMAIN more /\ more[k] = groups[k] BY <3>1, <3>2
        <4>2. QED BY <4>1
      <3>6. ToSet(g) \subseteq UNION {ToSet(more[j]) : j \in DOMAIN more} BY <3>3
      <3>7. UNION {ToSet(more[k]) : k \in DOMAIN more}
              \subseteq (UNION {ToSet(groups[k]) : k \in DOMAIN groups}) \cup ToSet(g)
        BY <3>4
      <3>8. UNION {ToSet(groups[k]) : k \in DOMAIN groups}
              \subseteq UNION {ToSet(more[k]) : k \in DOMAIN more}
        BY <3>5
      <3>9. QED BY <3>6, <3>7, <3>8
    <2>10. UNION {ToSet(more[k]) : k \in DOMAIN more} = {r \in ToSet(records) : Quarter(r) \in 1..q}
      BY <1>2, <2>1, <2>2, <2>9 DEF Grouping
    <2>11. QED BY <2>6, <2>7, <2>8, <2>10 DEF Grouping
  <1>6. QED BY <1>4, <1>5

\* Grouping by quarter loses no record and orders the quarters.
LEMMA GroupFacts ==
  ASSUME NEW records, Unique(records), NEW m \in Nat,
         \A r \in ToSet(records) : Quarter(r) \in 1..m
  PROVE  /\ Grouping(Grouped(records), records, LatestOf(records))
         /\ UNION {ToSet(Grouped(records)[k]) : k \in DOMAIN Grouped(records)} = ToSet(records)
  <1> DEFINE n == LatestOf(records)
             S == {Quarter(r) : r \in ToSet(records)} \cup {0}
  <1>1. n \in Nat /\ \A r \in ToSet(records) : Quarter(r) \in 1..n
    <2>1. S \subseteq 0..m /\ S # {} OBVIOUS
    <2>2. n = Max(S) BY DEF LatestOf
    <2>3. n \in S /\ \A y \in S : y <= n BY <2>1, <2>2, MaxIn
    <2>4. QED BY <2>1, <2>3
  <1>2. PICK h : Unrolls("group", records, <<>>, h, 0, n) /\ Grouped(records) = h[n]
    BY <1>1, GroupUnrolls
  <1> DEFINE In(q) == {i \in DOMAIN records : Quarter(records[i]) = q}
  <1>3. /\ h[0] = <<>>
        /\ \A q \in 1..n : h[q] = IF In(q) = {} THEN h[q - 1]
                                  ELSE Append(h[q - 1], Keep(records, In(q)))
    <2> HIDE DEF n
    <2>1. \A q : Step("group", records, h[q - 1], q)
                = IF In(q) = {} THEN h[q - 1] ELSE Append(h[q - 1], Keep(records, In(q)))
      BY DEF Step
    <2>2. 0 <= n /\ 0 + 1 = 1 BY <1>1
    <2>3. h[0] = <<>> /\ \A q \in (0 + 1)..n : h[q] = Step("group", records, h[q - 1], q)
      BY <1>2, <2>2 DEF Unrolls
    <2>4. QED BY <2>1, <2>2, <2>3
  <1> HIDE DEF n
  <1> DEFINE G == {q \in 0..n : Grouping(h[q], records, q)}
  <1>4. 0 \in G
    <2>1. DOMAIN <<>> = {} BY EmptyIsSeq, IsSeqFacts
    <2>2. Grouping(<<>>, records, 0) BY <2>1, EmptyIsSeq DEF Grouping
    <2>3. QED BY <1>1, <1>3, <2>2
  <1>5. ASSUME NEW q \in 0..n, q > 0, q - 1 \in G PROVE q \in G
    <2>1. h[q] = IF In(q) = {} THEN h[q - 1] ELSE Append(h[q - 1], Keep(records, In(q)))
      BY <1>1, <1>3, <1>5
    <2>2. q \in Nat /\ Grouping(h[q - 1], records, q - 1) BY <1>1, <1>5
    <2>3. Grouping(h[q], records, q)
      <3>1. \A I, more : /\ I = {i \in DOMAIN records : Quarter(records[i]) = q}
                         /\ more = IF I = {} THEN h[q - 1] ELSE Append(h[q - 1], Keep(records, I))
                         => Grouping(more, records, q)
        BY <1>5, <2>2, GroupingGrows
      <3>2. QED BY <2>1, <3>1
    <2>4. QED BY <2>3
  <1> HIDE DEF G
  <1>6. \A q \in 0..n : q \in G BY <1>1, <1>4, <1>5, Induction
  <1>7. n \in G BY <1>1, <1>6
  <1> USE DEF G
  <1>8. Grouping(h[n], records, n) BY <1>7
  <1>9. {r \in ToSet(records) : Quarter(r) \in 1..n} = ToSet(records) BY <1>1
  <1>10. QED BY <1>2, <1>8, <1>9 DEF Grouping, n

-----------------------------------------------------------------------------
(***************************************************************************)
(* The writer                                                              *)
(***************************************************************************)

\* Groups share no ids.
LEMMA GroupsDisjoint ==
  ASSUME NEW records, Unique(records), NEW q \in Nat, NEW groups, Grouping(groups, records, q)
  PROVE  \A j, k \in DOMAIN groups : j < k => Ids(groups[j]) \cap Ids(groups[k]) = {}
  <1> SUFFICES ASSUME NEW j \in DOMAIN groups, NEW k \in DOMAIN groups, j < k,
                      NEW r \in ToSet(groups[j]), NEW s \in ToSet(groups[k]), r.id = s.id
               PROVE  FALSE
    BY IdsOfSet
  <1>1. r \in ToSet(records) /\ s \in ToSet(records) BY DEF Grouping
  <1>2. r = s BY <1>1, UniqueById
  <1>3. Quarter(r) = Quarter(Head(groups[j])) /\ Quarter(s) = Quarter(Head(groups[k]))
    BY DEF Grouping
  <1>4. /\ Quarter(Head(groups[j])) \in Nat /\ Quarter(Head(groups[k])) \in Nat
        /\ Quarter(Head(groups[j])) < Quarter(Head(groups[k]))
    BY DEF Grouping
  <1>5. QED BY <1>2, <1>3, <1>4

\* A sequence grows by its prefixes.
LEMMA PrefixFacts ==
  ASSUME NEW seq, IsSeq(seq)
  PROVE  /\ <<>> = [j \in 1..0 |-> seq[j]]
         /\ \A k \in 1..Len(seq) :
              Append([j \in 1..(k - 1) |-> seq[j]], seq[k]) = [j \in 1..k |-> seq[j]]
         /\ seq = [j \in 1..Len(seq) |-> seq[j]]
  <1>1. Len(seq) \in Nat /\ DOMAIN seq = 1..Len(seq) BY IsSeqFacts
  <1>2. <<>> = [j \in 1..0 |-> seq[j]]
    <2> DEFINE e == [j \in 1..0 |-> seq[j]]
    <2>1. IsSeq(e) /\ Len(e) = 0
      <3>1. DOMAIN e = 1..0 /\ e = [j \in DOMAIN e |-> e[j]] OBVIOUS
      <3> HIDE DEF e
      <3>2. QED BY <3>1, FunctionIsSeq
    <2> HIDE DEF e
    <2>2. e = <<>> BY <2>1, EmptySeq DEF IsSeq
    <2>3. QED BY <2>2 DEF e
  <1>3. ASSUME NEW k \in 1..Len(seq)
        PROVE  Append([j \in 1..(k - 1) |-> seq[j]], seq[k]) = [j \in 1..k |-> seq[j]]
    <2> DEFINE p == [j \in 1..(k - 1) |-> seq[j]]
               u == Append(p, seq[k])
    <2>1. IsSeq(p) /\ Len(p) = k - 1
      <3>1. DOMAIN p = 1..(k - 1) /\ p = [j \in DOMAIN p |-> p[j]] OBVIOUS
      <3>2. k - 1 \in Nat BY <1>1
      <3> HIDE DEF p
      <3>3. QED BY <3>1, <3>2, FunctionIsSeq
    <2>2. \A j \in 1..(k - 1) : p[j] = seq[j] OBVIOUS
    <2> HIDE DEF p
    <2>3. /\ IsSeq(u) /\ DOMAIN u = 1..((k - 1) + 1)
          /\ \A j \in 1..(k - 1) : u[j] = p[j]
          /\ u[(k - 1) + 1] = seq[k]
      BY <2>1, AppendFacts
    <2> HIDE DEF u
    <2>4. (k - 1) + 1 = k BY <1>1
    <2>5. \A j \in 1..k : u[j] = seq[j] BY <1>1, <2>2, <2>3, <2>4
    <2>6. u = [j \in 1..k |-> u[j]] BY <2>3, <2>4 DEF IsSeq
    <2>7. u = [j \in 1..k |-> seq[j]] BY <2>5, <2>6
    <2>8. QED BY <2>7 DEF u, p
  <1>4. seq = [j \in 1..Len(seq) |-> seq[j]] BY <1>1 DEF IsSeq
  <1>5. QED BY <1>2, <1>3, <1>4

WriterAt(partitions, seen, count) ==
  [partitions |-> partitions, seen |-> seen, record_count |-> count, refused |-> FALSE]

Fresh(p, seen) == ~Repeats(p.records) /\ Ids(p.records) \cap seen = {}

WriterAfter(partitions, seen, count, p) ==
  WriterAt(Append(partitions, p), seen \cup Ids(p.records), count + Len(p.records))

\* A partition without an id that was seen is taken.
LEMMA WriterStep ==
  ASSUME NEW partitions, NEW seen, NEW count, NEW p, Fresh(p, seen)
  PROVE  AddMemoryPartition(WriterAt(partitions, seen, count), p)
           = WriterAfter(partitions, seen, count, p)
  <1> DEFINE w == WriterAt(partitions, seen, count)
  <1>1. w = [partitions |-> partitions, seen |-> seen, record_count |-> count, refused |-> FALSE]
    BY DEF WriterAt
  <1>2. /\ w.partitions = partitions /\ w.seen = seen /\ w.record_count = count
        /\ w.refused = FALSE
    BY <1>1
  <1>3. (w.refused \/ Ids(p.records) \cap w.seen # {} \/ Repeats(p.records)) = FALSE
    BY <1>2 DEF Fresh
  <1> HIDE DEF w
  <1>4. AddMemoryPartition(w, p)
          = [w EXCEPT !.partitions = Append(partitions, p), !.seen = seen \cup Ids(p.records),
                      !.record_count = count + Len(p.records), !.refused = FALSE]
    BY <1>2, <1>3 DEF AddMemoryPartition
  <1>5. QED BY <1>1, <1>4 DEF WriterAt, WriterAfter, w

HoldsGroups(parts, groups) ==
  /\ IsSeq(parts) /\ DOMAIN parts = DOMAIN groups
  /\ \A k \in DOMAIN groups : parts[k].records = groups[k] /\ parts[k].record_count = Len(groups[k])

\* The writer takes the groups of records with an id each, and counts them.
LEMMA WriterAccepts ==
  ASSUME NEW records, Unique(records), NEW q \in Nat,
         NEW groups, Grouping(groups, records, q),
         NEW parts, HoldsGroups(parts, groups)
  PROVE  \E seen : /\ AddMemoryPartitions(parts) = WriterAt(parts, seen, CountOf(parts))
                   /\ CountOf(parts) = Len(FlattenSeq(groups))
  <1> DEFINE n == Len(parts)
             S(k) == {r.id : r \in UNION {ToSet(groups[j]) : j \in 1..k}}
             P(k) == [j \in 1..k |-> parts[j]]
  <1>1. /\ n \in Nat /\ DOMAIN parts = 1..n /\ DOMAIN groups = 1..n
        /\ IsSeq(groups) /\ Len(groups) = n
        /\ \A k \in 1..n : Unique(groups[k])
        /\ IsSeq(parts) /\ DOMAIN parts = DOMAIN groups
        /\ \A k \in 1..n : parts[k].records = groups[k] /\ parts[k].record_count = Len(groups[k])
    BY IsSeqFacts DEF Grouping, HoldsGroups
  <1>2. PICK w : Unrolls("write", parts, NewWriter, w, 0, n) /\ AddMemoryPartitions(parts) = w[n]
    BY <1>1, WriterUnrolls
  <1>3. PICK c : Unrolls("count", parts, 0, c, 0, n) /\ CountOf(parts) = c[n]
    BY <1>1, CountUnrolls
  <1>4. PICK f : n # 0 => Unrolls("flatten", groups, groups[1], f, 1, n) /\ FlattenSeq(groups) = f[n]
    BY <1>1, FlattenUnrolls
  <1>5. P(n) = parts /\ P(0) = <<>> /\ \A k \in 1..n : Append(P(k - 1), parts[k]) = P(k)
    BY <1>1, PrefixFacts
  <1>6. S(0) = {} /\ \A k \in 1..n : S(k - 1) \cup Ids(groups[k]) = S(k)
    <2>1. 1..0 = {} OBVIOUS
    <2>2. \A k \in 1..n : 1..k = 1..(k - 1) \cup {k} BY <1>1
    <2>3. \A k \in 1..n : Ids(groups[k]) = {r.id : r \in ToSet(groups[k])} BY IdsOfSet
    <2> HIDE DEF n
    <2>4. ASSUME NEW k \in 1..n PROVE S(k - 1) \cup Ids(groups[k]) = S(k)
      <3>1. UNION {ToSet(groups[j]) : j \in 1..k}
              = (UNION {ToSet(groups[j]) : j \in 1..(k - 1)}) \cup ToSet(groups[k])
        BY <2>2
      <3>2. QED BY <3>1, <2>3
    <2>5. QED BY <2>1, <2>4
  <1>7. ASSUME NEW k \in 1..n PROVE Ids(groups[k]) \cap S(k - 1) = {}
    <2>1. \A j \in 1..(k - 1) : Ids(groups[j]) \cap Ids(groups[k]) = {}
      <3>1. \A j \in 1..(k - 1) : j \in DOMAIN groups /\ j < k BY <1>1
      <3>2. QED BY <1>1, <3>1, GroupsDisjoint
    <2>2. \A j \in 1..(k - 1) : Ids(groups[j]) = {r.id : r \in ToSet(groups[j])} BY IdsOfSet
    <2>3. ASSUME NEW j \in 1..(k - 1), NEW r \in ToSet(groups[j]) PROVE r.id \notin Ids(groups[k])
      <3>1. r.id \in Ids(groups[j]) BY <2>2
      <3>2. QED BY <2>1, <3>1
    <2>4. QED BY <2>3
  <1>8. /\ w[0] = NewWriter /\ c[0] = 0
        /\ \A k \in 1..n : w[k] = AddMemoryPartition(w[k - 1], parts[k])
        /\ \A k \in 1..n : c[k] = c[k - 1] + Len(groups[k])
    <2>1. 0 <= n /\ 0 + 1 = 1 BY <1>1
    <2>2. \A k : Step("write", parts, w[k - 1], k) = AddMemoryPartition(w[k - 1], parts[k]) BY DEF Step
    <2>3. \A k : Step("count", parts, c[k - 1], k) = c[k - 1] + parts[k].record_count BY DEF Step
    <2> HIDE DEF n
    <2>4. w[0] = NewWriter /\ \A k \in (0 + 1)..n : w[k] = Step("write", parts, w[k - 1], k)
      BY <1>2, <2>1 DEF Unrolls
    <2>5. c[0] = 0 /\ \A k \in (0 + 1)..n : c[k] = Step("count", parts, c[k - 1], k)
      BY <1>3, <2>1 DEF Unrolls
    <2>6. QED BY <1>1, <2>1, <2>2, <2>3, <2>4, <2>5
  <1>9. n # 0 => f[1] = groups[1] /\ \A k \in 2..n : f[k] = f[k - 1] \o groups[k]
    <2>1. n # 0 => 1 <= n BY <1>1
    <2>2. 1 + 1 = 2 OBVIOUS
    <2>3. \A k : Step("flatten", groups, f[k - 1], k) = f[k - 1] \o groups[k] BY DEF Step
    <2> HIDE DEF n
    <2>4. n # 0 => f[1] = groups[1] /\ \A k \in (1 + 1)..n : f[k] = Step("flatten", groups, f[k - 1], k)
      BY <1>4, <2>1 DEF Unrolls
    <2>5. QED BY <2>2, <2>3, <2>4
  <1> HIDE DEF n, S, P
  <1> DEFINE Good(k) == /\ w[k] = WriterAt(P(k), S(k), c[k])
                        /\ c[k] \in Nat
                        /\ k > 0 => IsSeq(f[k]) /\ Len(f[k]) = c[k]
             G == {k \in 0..n : Good(k)}
  <1>10. 0 \in G
    <2>1. w[0] = WriterAt(<<>>, {}, 0) BY <1>8 DEF NewWriter, WriterAt
    <2>2. WriterAt(<<>>, {}, 0) = WriterAt(P(0), S(0), c[0]) BY <1>5, <1>6, <1>8
    <2>3. Good(0) BY <1>8, <2>1, <2>2
    <2> HIDE DEF Good
    <2>4. QED BY <1>1, <2>3
  <1>11. ASSUME NEW k \in 0..n, k > 0, k - 1 \in G PROVE k \in G
    <2>1. k \in 1..n /\ Good(k - 1) BY <1>1, <1>11
    <2>2. IsSeq(groups[k]) /\ ~Repeats(groups[k]) /\ Len(groups[k]) \in Nat
      BY <1>1, <2>1, IsSeqFacts DEF Unique
    <2>3. parts[k].records = groups[k] BY <1>1, <2>1
    <2>4. w[k] = WriterAt(P(k), S(k), c[k])
      <3>1. w[k] = AddMemoryPartition(WriterAt(P(k - 1), S(k - 1), c[k - 1]), parts[k])
        BY <1>8, <2>1
      <3>2. Fresh(parts[k], S(k - 1)) BY <1>7, <2>1, <2>2, <2>3 DEF Fresh
      <3>3. AddMemoryPartition(WriterAt(P(k - 1), S(k - 1), c[k - 1]), parts[k])
              = WriterAfter(P(k - 1), S(k - 1), c[k - 1], parts[k])
        BY <3>2, WriterStep
      <3>4. WriterAfter(P(k - 1), S(k - 1), c[k - 1], parts[k]) = WriterAt(P(k), S(k), c[k])
        BY <1>5, <1>6, <1>8, <2>1, <2>3 DEF WriterAfter
      <3>5. QED BY <3>1, <3>3, <3>4
    <2>5. c[k] \in Nat BY <1>8, <2>1, <2>2
    <2>6. IsSeq(f[k]) /\ Len(f[k]) = c[k]
      <3>1. CASE k = 1
        <4>1. f[1] = groups[1] /\ c[1] = c[0] + Len(groups[1]) /\ c[0] = 0
          <5>1. 1 \in 1..n /\ n # 0 /\ 1 - 1 = 0 BY <1>1, <2>1, <3>1
          <5>2. QED BY <1>8, <1>9, <5>1
        <4>2. QED BY <3>1, <4>1, <2>2
      <3>2. CASE k # 1
        <4>1. k \in 2..n /\ k - 1 > 0 /\ n # 0 BY <1>1, <2>1, <3>2
        <4>2. f[k] = f[k - 1] \o groups[k] BY <1>9, <4>1
        <4>3. IsSeq(f[k - 1]) /\ Len(f[k - 1]) = c[k - 1] BY <2>1, <4>1
        <4>4. c[k] = c[k - 1] + Len(groups[k]) BY <1>8, <2>1
        <4>5. /\ IsSeq(f[k - 1] \o groups[k])
              /\ Len(f[k - 1] \o groups[k]) = Len(f[k - 1]) + Len(groups[k])
          BY <2>2, <4>3, ConcatFacts
        <4>6. QED BY <4>2, <4>3, <4>4, <4>5
      <3>3. QED BY <3>1, <3>2
    <2>7. Good(k) BY <2>4, <2>5, <2>6
    <2> HIDE DEF Good
    <2>8. QED BY <2>7
  <1> HIDE DEF G
  <1>12. \A k \in 0..n : k \in G BY <1>1, <1>10, <1>11, Induction
  <1>13. n \in G BY <1>1, <1>12
  <1> USE DEF G
  <1>14. Good(n) BY <1>13
  <1>15. c[n] = Len(FlattenSeq(groups))
    <2>1. CASE n = 0
      <3>1. FlattenSeq(groups) = groups BY <1>1, <2>1 DEF FlattenSeq
      <3>2. QED BY <1>1, <1>8, <2>1, <3>1
    <2>2. CASE n # 0 BY <1>1, <1>4, <1>14, <2>2
    <2>3. QED BY <2>1, <2>2
  <1>16. QED BY <1>2, <1>3, <1>5, <1>14, <1>15

\* What a reader finds in an archive that the writer has taken.
Sound(a, records) ==
  /\ a.refused = FALSE
  /\ Unique(ReadAllMemory(a)) /\ ToSet(ReadAllMemory(a)) = ToSet(records)
  /\ Counted(a) /\ WellPartitioned(a)
  /\ \A k \in DOMAIN a.partitions : \A r \in ToSet(a.partitions[k].records) :
       Quarter(r) = a.partitions[k].from

\* Partitions made of the groups make a sound archive, sealed or not.
LEMMA WriteSound ==
  ASSUME NEW records, Unique(records), NEW m \in Nat, \A r \in ToSet(records) : Quarter(r) \in 1..m,
         NEW sealed, NEW parts,
         parts = [k \in DOMAIN Grouped(records) |-> Partition(Grouped(records)[k], sealed[k])],
         NEW raw, NEW documents
  PROVE  /\ Sound(WriteArchive(parts, raw, documents), records)
         /\ WriteArchive(parts, raw, documents).raw = raw
         /\ WriteArchive(parts, raw, documents).docs = documents
  <1> DEFINE groups == Grouped(records)
             q == LatestOf(records)
             a == WriteArchive(parts, raw, documents)
  <1>1. /\ Grouping(groups, records, q)
        /\ UNION {ToSet(groups[k]) : k \in DOMAIN groups} = ToSet(records)
    BY GroupFacts
  <1>2. q \in Nat
    <2> DEFINE T == {Quarter(r) : r \in ToSet(records)} \cup {0}
    <2>1. T \subseteq 0..m /\ T # {} OBVIOUS
    <2>2. q = Max(T) BY DEF LatestOf
    <2> HIDE DEF q, T
    <2>3. q \in T BY <2>1, <2>2, MaxIn
    <2>4. q \in 0..m BY <2>1, <2>3
    <2>5. QED BY <2>4
  <1>3. IsSeq(groups) /\ Len(groups) \in Nat /\ DOMAIN groups = 1..Len(groups)
    BY <1>1, IsSeqFacts DEF Grouping
  <1>4. /\ DOMAIN parts = DOMAIN groups
        /\ \A k \in DOMAIN groups : parts[k] = Partition(groups[k], sealed[k])
        /\ parts = [k \in DOMAIN parts |-> parts[k]]
    OBVIOUS
  <1> HIDE DEF groups, q
  <1>5. IsSeq(parts) BY <1>3, <1>4, FunctionIsSeq
  <1>6. \A k \in DOMAIN groups : /\ parts[k].records = groups[k]
                                 /\ parts[k].record_count = Len(groups[k])
                                 /\ parts[k].from = Quarter(Head(groups[k]))
                                 /\ parts[k].to = Quarter(Head(groups[k]))
    BY <1>4 DEF Partition
  <1>7. PICK seen : /\ AddMemoryPartitions(parts) = WriterAt(parts, seen, CountOf(parts))
                    /\ CountOf(parts) = Len(FlattenSeq(groups))
    <2>1. HoldsGroups(parts, groups) BY <1>4, <1>5, <1>6 DEF HoldsGroups
    <2>2. Grouping(groups, records, q) BY <1>1
    <2>3. QED BY <1>2, <2>1, <2>2, WriterAccepts
  <1>8. a = [refused |-> FALSE, partitions |-> parts, record_count |-> CountOf(parts),
             raw |-> raw, docs |-> documents]
    <2>1. /\ AddMemoryPartitions(parts).refused = FALSE
          /\ AddMemoryPartitions(parts).partitions = parts
          /\ AddMemoryPartitions(parts).record_count = CountOf(parts)
      BY <1>7 DEF WriterAt
    <2>2. QED BY <2>1 DEF WriteArchive
  <1> HIDE DEF a
  <1>9. /\ a.refused = FALSE /\ a.partitions = parts /\ a.record_count = CountOf(parts)
        /\ a.raw = raw /\ a.docs = documents
    BY <1>8
  <1>10. ReadAllMemory(a) = FlattenSeq(groups)
    <2>1. [k \in DOMAIN parts |-> parts[k].records] = [k \in DOMAIN groups |-> groups[k]]
      BY <1>4, <1>6
    <2>2. groups = [k \in DOMAIN groups |-> groups[k]] BY <1>3, PrefixFacts
    <2>3. QED BY <1>9, <2>1, <2>2 DEF ReadAllMemory
  <1>11. Unique(ReadAllMemory(a)) /\ ToSet(ReadAllMemory(a)) = ToSet(records)
    <2>1. \A k \in DOMAIN groups : Unique(groups[k]) BY <1>1 DEF Grouping
    <2>2. \A j, k \in DOMAIN groups : j < k => Ids(groups[j]) \cap Ids(groups[k]) = {}
      BY <1>1, <1>2, GroupsDisjoint
    <2>3. QED BY <1>1, <1>3, <1>10, <2>1, <2>2, FlattenFacts
  <1>12. Counted(a) BY <1>7, <1>9, <1>10 DEF Counted
  <1>13. WellPartitioned(a)
    <2>1. ASSUME NEW k \in DOMAIN parts
          PROVE  /\ k > 1 => parts[k - 1].from <= parts[k].from
                 /\ parts[k].to # Nothing
                 /\ parts[k].from <= parts[k].to
      <3>1. parts[k].from \in Nat /\ parts[k].to = parts[k].from
        BY <1>1, <1>4, <1>6 DEF Grouping
      <3>2. parts[k].to # Nothing BY <3>1, FormatAssumption
      <3>3. ASSUME k > 1 PROVE parts[k - 1].from <= parts[k].from
        <4>1. k - 1 \in DOMAIN groups /\ k \in DOMAIN groups /\ k - 1 < k BY <1>3, <1>4, <3>3
        <4>2. /\ parts[k - 1].from \in Nat
              /\ parts[k - 1].from < parts[k].from
          <5>1. /\ Quarter(Head(groups[k - 1])) \in Nat
                /\ Quarter(Head(groups[k - 1])) < Quarter(Head(groups[k]))
            BY <1>1, <4>1 DEF Grouping
          <5>2. QED BY <1>6, <4>1, <5>1
        <4>3. QED BY <3>1, <4>2
      <3>4. QED BY <3>1, <3>2, <3>3
    <2>2. QED BY <1>9, <2>1 DEF WellPartitioned
  <1>14. \A k \in DOMAIN a.partitions : \A r \in ToSet(a.partitions[k].records) :
           Quarter(r) = a.partitions[k].from
    BY <1>1, <1>4, <1>6, <1>9 DEF Grouping
  <1>15. Sound(a, records) BY <1>9, <1>11, <1>12, <1>13, <1>14 DEF Sound
  <1>16. QED BY <1>9, <1>15 DEF a

\* So do those of an export,
LEMMA ExportSound ==
  ASSUME NEW records, Unique(records), NEW m \in Nat, \A r \in ToSet(records) : Quarter(r) \in 1..m,
         NEW raw, NEW documents
  PROVE  LET a == WriteArchive(ExportPartitions(records), raw, documents)
         IN Sound(a, records) /\ a.raw = raw /\ a.docs = documents
  <1> DEFINE sealed == [k \in DOMAIN Grouped(records) |-> FALSE]
             parts == ExportPartitions(records)
  <1>1. parts = [k \in DOMAIN Grouped(records) |-> Partition(Grouped(records)[k], sealed[k])]
    BY DEF ExportPartitions
  <1> HIDE DEF sealed, parts
  <1>2. QED BY <1>1, WriteSound DEF parts

\* and those of a rewritten archive.
LEMMA RebuildSound ==
  ASSUME NEW records, Unique(records), NEW m \in Nat, \A r \in ToSet(records) : Quarter(r) \in 1..m,
         NEW today, NEW raw, NEW documents
  PROVE  LET a == WriteArchive(RebuiltPartitions(records, today), raw, documents)
         IN Sound(a, records) /\ a.raw = raw /\ a.docs = documents
  <1> DEFINE sealed == [k \in DOMAIN Grouped(records) |-> Quarter(Head(Grouped(records)[k])) < today]
             parts == RebuiltPartitions(records, today)
  <1>1. parts = [k \in DOMAIN Grouped(records) |-> Partition(Grouped(records)[k], sealed[k])]
    BY DEF RebuiltPartitions
  <1> HIDE DEF sealed, parts
  <1>2. QED BY <1>1, WriteSound DEF parts

-----------------------------------------------------------------------------
(***************************************************************************)
(* Deltas                                                                  *)
(***************************************************************************)
LEMMA WithIdFacts ==
  ASSUME NEW records, NEW id \in Ids(records)
  PROVE  WithId(records, id) \in ToSet(records) /\ WithId(records, id).id = id
  <1>1. \E r \in ToSet(records) : r.id = id BY IdsOfSet
  <1>2. QED BY <1>1 DEF WithId

\* A delta brings any records that are those of its base to those of its archive.
LEMMA DeltaApplies ==
  ASSUME NEW records, Unique(records), NEW prev, Unique(prev), NEW curr, Unique(curr),
         ToSet(records) = ToSet(prev)
  PROVE  LET result == ApplyDelta(records, MemoryDelta(prev, curr))
         IN Unique(result) /\ ToSet(result) = ToSet(curr)
  <1> DEFINE new == {i \in DOMAIN curr : curr[i].id \notin Ids(prev)}
             old == {i \in DOMAIN curr : curr[i].id \in Ids(prev) /\ curr[i] # WithId(prev, curr[i].id)}
             create == Keep(curr, new)
             update == Keep(curr, old)
             gone == Ids(prev) \ Ids(curr)
             n == Len(records)
             changed(r) == IF r.id \in Ids(update) THEN WithId(update, r.id) ELSE r
             updated == [i \in DOMAIN records |-> changed(records[i])]
             kept == {i \in DOMAIN updated : updated[i].id \notin gone}
  <1>1. /\ MemoryDelta(prev, curr) = [create |-> create, update |-> update, delete |-> gone]
        /\ ApplyDelta(records, MemoryDelta(prev, curr)) = Keep(updated, kept) \o create
    BY DEF MemoryDelta, ApplyDelta
  <1>2. n \in Nat /\ DOMAIN records = 1..n BY IsSeqFacts DEF Unique
  <1>3. Unique(create) /\ ToSet(create) = {curr[i] : i \in new}
    <2>1. new \cap DOMAIN curr = new OBVIOUS
    <2> HIDE DEF new
    <2>2. QED BY <2>1, KeepFacts DEF Unique
  <1>4. ToSet(update) = {curr[i] : i \in old}
    <2>1. old \cap DOMAIN curr = old OBVIOUS
    <2> HIDE DEF old
    <2>2. QED BY <2>1, KeepFacts DEF Unique
  <1>5. Ids(records) = Ids(prev) BY IdsOfSet
  <1> HIDE DEF create, update
  <1>6. ASSUME NEW r \in ToSet(prev)
        PROVE  /\ changed(r).id = r.id
               /\ r.id \notin gone => changed(r) \in ToSet(curr)
    <2>1. CASE r.id \in Ids(update)
      <3>1. WithId(update, r.id) \in ToSet(update) /\ WithId(update, r.id).id = r.id
        BY <2>1, WithIdFacts
      <3>2. QED BY <2>1, <3>1, <1>4 DEF ToSet
    <2>2. CASE r.id \notin Ids(update)
      <3>1. SUFFICES ASSUME r.id \in Ids(curr), r.id \in Ids(prev) PROVE r \in ToSet(curr)
        BY <2>2, IdsOfSet
      <3>2. PICK i \in DOMAIN curr : curr[i].id = r.id BY <3>1 DEF Ids
      <3>3. WithId(prev, r.id) = r BY <3>1, WithIdFacts, UniqueById
      <3>4. i \notin old
        <4>1. i \in old => curr[i] \in ToSet(update) BY <1>4
        <4>2. curr[i] \in ToSet(update) => curr[i].id \in Ids(update) BY IdsOfSet
        <4>3. QED BY <2>2, <3>2, <4>1, <4>2
      <3>5. curr[i] = r BY <3>1, <3>2, <3>3, <3>4
      <3>6. QED BY <3>2, <3>5 DEF ToSet
    <2>3. QED BY <2>1, <2>2
  <1>7. /\ IsSeq(updated) /\ DOMAIN updated = 1..n
        /\ \A i \in 1..n : updated[i] = changed(records[i])
        /\ \A i \in 1..n : records[i] \in ToSet(prev)
    <2>1. DOMAIN updated = 1..n /\ updated = [i \in DOMAIN updated |-> updated[i]] BY <1>2
    <2>2. \A i \in 1..n : updated[i] = changed(records[i]) BY <1>2
    <2>3. \A i \in 1..n : records[i] \in ToSet(prev) BY <1>2 DEF ToSet
    <2> HIDE DEF updated, changed, n
    <2>4. IsSeq(updated) BY <1>2, <2>1, FunctionIsSeq
    <2>5. QED BY <2>1, <2>2, <2>3, <2>4
  <1> HIDE DEF updated, changed
  <1>8. Unique(updated)
    <2>1. \A i \in 1..n : updated[i].id = records[i].id BY <1>6, <1>7
    <2>2. ~Repeats(updated) BY <1>2, <1>7, <2>1 DEF Unique, Repeats
    <2>3. QED BY <1>7, <2>2 DEF Unique
  <1>9. Unique(Keep(updated, kept)) /\ ToSet(Keep(updated, kept)) = {updated[i] : i \in kept}
    <2>1. kept \cap DOMAIN updated = kept OBVIOUS
    <2> HIDE DEF kept
    <2>2. QED BY <1>7, <1>8, <2>1, KeepFacts
  <1>10. {updated[i] : i \in kept} = {r \in ToSet(curr) : r.id \in Ids(prev)}
    <2>1. ASSUME NEW i \in kept PROVE updated[i] \in ToSet(curr) /\ updated[i].id \in Ids(prev)
      <3>1. /\ i \in 1..n /\ records[i] \in ToSet(prev) /\ updated[i] = changed(records[i])
            /\ updated[i].id \notin gone
        BY <1>7
      <3>2. updated[i].id = records[i].id BY <1>6, <3>1
      <3>3. records[i].id \in Ids(prev) BY <3>1, IdsOfSet
      <3>4. QED BY <1>6, <3>1, <3>2, <3>3
    <2>2. ASSUME NEW r \in ToSet(curr), r.id \in Ids(prev) PROVE \E i \in kept : updated[i] = r
      <3>1. PICK i \in 1..n : records[i].id = r.id BY <1>2, <1>5, <2>2 DEF Ids
      <3>2. updated[i] = changed(records[i]) /\ updated[i].id = r.id BY <1>6, <1>7, <3>1
      <3>3. r.id \notin gone BY IdsOfSet
      <3>4. i \in kept BY <1>7, <3>2, <3>3
      <3>5. updated[i] \in ToSet(curr) BY <1>6, <1>7, <3>1, <3>2, <3>3
      <3>6. updated[i] = r BY <3>2, <3>5, UniqueById
      <3>7. QED BY <3>4, <3>6
    <2>3. QED BY <2>1, <2>2
  <1>11. ToSet(create) = {r \in ToSet(curr) : r.id \notin Ids(prev)} BY <1>3 DEF ToSet
  <1> HIDE DEF kept, new, old, gone
  <1> DEFINE kp == Keep(updated, kept)
  <1>12. Unique(kp) /\ ToSet(kp) = {r \in ToSet(curr) : r.id \in Ids(prev)} BY <1>9, <1>10
  <1> HIDE DEF kp
  <1>13. Ids(kp) \cap Ids(create) = {}
    <2>1. Ids(kp) = {r.id : r \in ToSet(kp)} /\ Ids(create) = {r.id : r \in ToSet(create)} BY IdsOfSet
    <2>2. QED BY <1>11, <1>12, <2>1
  <1>14. Unique(kp \o create) BY <1>3, <1>12, <1>13, ConcatUnique
  <1>15. ToSet(kp \o create) = ToSet(kp) \cup ToSet(create)
    BY <1>3, <1>12, ConcatFacts DEF Unique
  <1>16. ToSet(kp \o create) = ToSet(curr) BY <1>11, <1>12, <1>15
  <1>17. QED BY <1>1, <1>14, <1>16 DEF kp

IsFunction(f) == f = [x \in DOMAIN f |-> f[x]]

\* A raw delta brings the files of its base to those of its archive.
LEMMA RawApplies ==
  ASSUME NEW prev, NEW curr, IsFunction(curr)
  PROVE  Overlay(prev, RawDelta(prev, curr)) = curr
  <1> DEFINE delta == RawDelta(prev, curr)
             names == {n \in DOMAIN curr : n \notin DOMAIN prev \/ prev[n] # curr[n]}
             result == Overlay(prev, delta)
  <1>1. /\ delta.changed = [n \in names |-> curr[n]] /\ DOMAIN delta.changed = names
        /\ delta.deleted = DOMAIN prev \ DOMAIN curr
    BY DEF RawDelta
  <1> HIDE DEF delta
  <1>2. (DOMAIN prev \ delta.deleted) \cup DOMAIN delta.changed = DOMAIN curr BY <1>1
  <1>3. result = [n \in DOMAIN curr |-> IF n \in names THEN delta.changed[n] ELSE prev[n]]
    BY <1>1, <1>2 DEF Overlay
  <1>4. \A n \in DOMAIN curr : (IF n \in names THEN delta.changed[n] ELSE prev[n]) = curr[n]
    BY <1>1
  <1>5. result = [n \in DOMAIN curr |-> curr[n]] BY <1>3, <1>4
  <1>6. QED BY <1>5 DEF IsFunction, delta

\* The documents that layers replayed on a base have in common with it.
DocsAgree(a, b) == \A d \in Documents : a[d] = b[d] \/ (d = Identity /\ b[d] = Nothing)

\* What a service replays, against an archive.
LayersAgree(layers, archive) ==
  /\ Unique(layers.records) /\ ToSet(layers.records) = ToSet(ReadAllMemory(archive))
  /\ layers.raw = archive.raw
  /\ DocsAgree(layers.docs, archive.docs)

\* Layers that agree with the base of a delta agree, replayed, with its archive.
LEMMA ReplayAgrees ==
  ASSUME NEW layers, NEW prev, Unique(ReadAllMemory(prev)), LayersAgree(layers, prev),
         NEW curr, Unique(ReadAllMemory(curr)), IsFunction(curr.raw)
  PROVE  LayersAgree(Replay(layers, WriteDelta(prev, curr)), curr)
  <1> DEFINE delta == WriteDelta(prev, curr)
             after == Replay(layers, delta)
             carried == CarriedDocs(prev.docs, curr.docs)
  <1>1. /\ delta.memory = MemoryDelta(ReadAllMemory(prev), ReadAllMemory(curr))
        /\ delta.raw = RawDelta(prev.raw, curr.raw)
        /\ delta.docs = [d \in carried |-> curr.docs[d]] /\ DOMAIN delta.docs = carried
    BY DEF WriteDelta
  <1> HIDE DEF delta, carried
  <1>2. /\ after.records = ApplyDelta(layers.records, delta.memory)
        /\ after.raw = Overlay(layers.raw, delta.raw)
        /\ after.docs = [d \in Documents |->
                           IF d \in DOMAIN delta.docs THEN delta.docs[d] ELSE layers.docs[d]]
    BY DEF Replay
  <1> HIDE DEF after
  <1>3. Unique(after.records) /\ ToSet(after.records) = ToSet(ReadAllMemory(curr))
    BY <1>1, <1>2, DeltaApplies DEF LayersAgree
  <1>4. after.raw = curr.raw BY <1>1, <1>2, RawApplies DEF LayersAgree
  <1>5. DocsAgree(after.docs, curr.docs)
    <2>1. ASSUME NEW d \in Documents
          PROVE  after.docs[d] = curr.docs[d] \/ (d = Identity /\ curr.docs[d] = Nothing)
      <3>1. CASE d \in carried BY <1>1, <1>2, <3>1
      <3>2. CASE d \notin carried
        <4>1. after.docs[d] = layers.docs[d] BY <1>1, <1>2, <3>2
        <4>2. prev.docs[d] = curr.docs[d] \/ (d = Identity /\ curr.docs[d] = Nothing)
          BY <3>2 DEF carried, CarriedDocs, ChangedDocs
        <4>3. layers.docs[d] = prev.docs[d] \/ (d = Identity /\ prev.docs[d] = Nothing)
          BY DEF LayersAgree, DocsAgree
        <4>4. QED BY <4>1, <4>2, <4>3
      <3>3. QED BY <3>1, <3>2
    <2>2. QED BY <2>1 DEF DocsAgree
  <1>6. QED BY <1>3, <1>4, <1>5 DEF LayersAgree, after, delta

\* One delta more is one step more.
LEMMA ReplayedMore ==
  ASSUME NEW snapshot, NEW deltas, IsSeq(deltas), NEW delta
  PROVE  Replayed(snapshot, Append(deltas, delta)) = Replay(Replayed(snapshot, deltas), delta)
  <1> DEFINE n == Len(deltas)
             more == Append(deltas, delta)
  <1>1. n \in Nat /\ DOMAIN deltas = 1..n BY IsSeqFacts
  <1>2. /\ IsSeq(more) /\ Len(more) = n + 1
        /\ \A k \in 1..n : more[k] = deltas[k]
        /\ more[n + 1] = delta
    BY AppendFacts
  <1> HIDE DEF more
  <1>3. PICK g : Unrolls("replay", deltas, LayersOf(snapshot), g, 0, n) /\ Replayed(snapshot, deltas) = g[n]
    BY <1>1, ReplayUnrolls
  <1>4. PICK h : Unrolls("replay", more, LayersOf(snapshot), h, 0, n + 1) /\ Replayed(snapshot, more) = h[n + 1]
    BY <1>1, <1>2, ReplayUnrolls
  <1>5. \A k, ds, f : Step("replay", ds, f[k - 1], k) = Replay(f[k - 1], ds[k]) BY DEF Step
  <1> HIDE DEF n
  <1>6. 0 <= n /\ 0 <= n + 1 /\ 0 + 1 = 1 BY <1>1
  <1>7. g[0] = LayersOf(snapshot) /\ \A k \in 1..n : g[k] = Replay(g[k - 1], deltas[k])
    BY <1>3, <1>5, <1>6 DEF Unrolls
  <1>8. h[0] = LayersOf(snapshot) /\ \A k \in 1..(n + 1) : h[k] = Replay(h[k - 1], more[k])
    BY <1>4, <1>5, <1>6 DEF Unrolls
  <1> DEFINE G == {k \in 0..n : g[k] = h[k]}
  <1>9. 0 \in G BY <1>1, <1>7, <1>8
  <1>10. ASSUME NEW k \in 0..n, k > 0, k - 1 \in G PROVE k \in G
    <2>1. k \in 1..n /\ k \in 1..(n + 1) /\ g[k - 1] = h[k - 1] BY <1>1, <1>10
    <2>2. QED BY <1>2, <1>7, <1>8, <2>1
  <1> HIDE DEF G
  <1>11. \A k \in 0..n : k \in G BY <1>1, <1>9, <1>10, Induction
  <1>12. n \in G BY <1>1, <1>11
  <1>13. g[n] = h[n] BY <1>12 DEF G
  <1>14. n + 1 \in 1..(n + 1) /\ (n + 1) - 1 = n BY <1>1
  <1>15. h[n + 1] = Replay(h[n], delta) BY <1>2, <1>8, <1>14
  <1>16. QED BY <1>3, <1>4, <1>13, <1>15 DEF more

\* Without deltas the layers are those of the snapshot.
LEMMA ReplayedNone ==
  ASSUME NEW snapshot
  PROVE  Replayed(snapshot, <<>>) = LayersOf(snapshot)
  <1>1. Len(<<>>) = 0 OBVIOUS
  <1>2. PICK h : Unrolls("replay", <<>>, LayersOf(snapshot), h, 0, 0) /\ Replayed(snapshot, <<>>) = h[0]
    BY <1>1, ReplayUnrolls
  <1>3. QED BY <1>2 DEF Unrolls

-----------------------------------------------------------------------------
(***************************************************************************)
(* Reconciliation                                                          *)
(***************************************************************************)
RankOf(keys, among, i) == Cardinality({j \in among : j < i /\ keys[j] = keys[i]})

\* Among equal keys a later place has a higher rank.
LEMMA RankGrows ==
  ASSUME NEW m \in Nat, NEW among \in SUBSET (1..m), NEW keys,
         NEW i \in among, NEW k \in among, i < k, keys[i] = keys[k]
  PROVE  RankOf(keys, among, i) \in Nat /\ RankOf(keys, among, i) < RankOf(keys, among, k)
  <1> DEFINE S == {j \in among : j < i /\ keys[j] = keys[i]}
             T == {j \in among : j < k /\ keys[j] = keys[k]}
  <1>1. i \in Nat /\ k \in Nat /\ \A j \in among : j \in Nat /\ j \in 1..m OBVIOUS
  <1>2. T \in SUBSET (1..m) /\ S \in SUBSET T
    <2>1. \A j \in among : j < i => j < k BY <1>1
    <2>2. QED BY <1>1, <2>1
  <1>3. i \in T /\ i \notin S OBVIOUS
  <1>4. RankOf(keys, among, i) = Cardinality(S) /\ RankOf(keys, among, k) = Cardinality(T)
    BY DEF RankOf
  <1> HIDE DEF S, T
  <1>5. IsFiniteSet(1..m) BY FS_Interval
  <1>6. IsFiniteSet(T) BY <1>2, <1>5, FS_Subset
  <1>7. /\ IsFiniteSet(S) /\ Cardinality(S) <= Cardinality(T)
        /\ Cardinality(T) = Cardinality(S) => T = S
    BY <1>2, <1>6, FS_Subset
  <1>8. Cardinality(S) \in Nat /\ Cardinality(T) \in Nat BY <1>6, <1>7, FS_CardinalityType
  <1>9. Cardinality(S) # Cardinality(T) BY <1>3, <1>7
  <1>10. QED BY <1>4, <1>7, <1>8, <1>9

\* Key and rank name one member.
LEMMA RankTells ==
  ASSUME NEW m \in Nat, NEW among \in SUBSET (1..m), NEW keys,
         NEW i \in among, NEW k \in among, keys[i] = keys[k],
         RankOf(keys, among, i) = RankOf(keys, among, k)
  PROVE  i = k
  <1>1. i \in Nat /\ k \in Nat OBVIOUS
  <1>2. CASE i < k
    <2>1. RankOf(keys, among, i) \in Nat /\ RankOf(keys, among, i) < RankOf(keys, among, k)
      BY <1>2, RankGrows
    <2>2. QED BY <2>1
  <1>3. CASE k < i
    <2>1. RankOf(keys, among, k) \in Nat /\ RankOf(keys, among, k) < RankOf(keys, among, i)
      BY <1>3, RankGrows
    <2>2. QED BY <2>1
  <1>4. QED BY <1>1, <1>2, <1>3

\* A member whose key no other has comes first.
LEMMA RankAlone ==
  ASSUME NEW m \in Nat, NEW among \in SUBSET (1..m), NEW keys, NEW i \in among,
         \A j \in among : keys[j] = keys[i] => j = i
  PROVE  RankOf(keys, among, i) = 0
  <1>1. {j \in among : j < i /\ keys[j] = keys[i]} = {}
    <2>1. i \in Nat /\ ~ (i < i) OBVIOUS
    <2>2. QED BY <2>1
  <1>2. QED BY <1>1, FS_EmptySet DEF RankOf

\* A pass pairs one with one.
Matching(pairs, old, new) ==
  /\ \A a \in pairs : a[1] \in old /\ a[2] \in new
  /\ \A a, b \in pairs : a[1] = b[1] <=> a[2] = b[2]

Tells(pairs, old, new, was, is) ==
  /\ Matching(pairs, old, new)
  /\ \A a \in pairs : was[a[1]] = is[a[2]]
  /\ \A p \in old, c \in new :
       /\ was[p] = is[c]
       /\ \A j \in old : was[j] = was[p] => j = p
       /\ \A j \in new : is[j] = is[c] => j = c
       => \E a \in pairs : a[1] = p /\ a[2] = c

\* A pass is a matching of equal keys, and misses no two keys that are alone.
LEMMA RankedFacts ==
  ASSUME NEW m \in Nat, NEW old \in SUBSET (1..m), NEW n \in Nat, NEW new \in SUBSET (1..n),
         NEW was, NEW is
  PROVE  Tells(Ranked(old, new, was, is), old, new, was, is)
  <1> DEFINE Fits(p) == {c \in new : was[p] = is[c] /\ RankOf(was, old, p) = RankOf(is, new, c)}
             pairs == Ranked(old, new, was, is)
  <1>1. pairs = UNION {{p} \X Fits(p) : p \in old} BY DEF Ranked, RankOf
  <1> HIDE DEF pairs
  <1>2. ASSUME NEW a \in pairs
        PROVE  /\ a[1] \in old /\ a[2] \in new /\ was[a[1]] = is[a[2]]
               /\ RankOf(was, old, a[1]) = RankOf(is, new, a[2])
    <2>1. PICK p \in old : a \in {p} \X Fits(p) BY <1>1
    <2>2. a[1] = p /\ a[2] \in Fits(p) BY <2>1
    <2>3. QED BY <2>2
  <1>3. ASSUME NEW p \in old, NEW c \in Fits(p) PROVE \E a \in pairs : a[1] = p /\ a[2] = c
    <2>1. <<p, c>> \in {p} \X Fits(p) OBVIOUS
    <2> HIDE DEF Fits
    <2>2. <<p, c>> \in pairs BY <1>1, <2>1
    <2>3. <<p, c>>[1] = p /\ <<p, c>>[2] = c OBVIOUS
    <2>4. QED BY <2>2, <2>3
  <1>4. ASSUME NEW a \in pairs, NEW b \in pairs PROVE a[1] = b[1] <=> a[2] = b[2]
    <2>1. ASSUME a[1] = b[1] PROVE a[2] = b[2]
      <3>1. /\ a[2] \in new /\ b[2] \in new /\ is[a[2]] = is[b[2]]
            /\ RankOf(is, new, a[2]) = RankOf(is, new, b[2])
        BY <1>2, <2>1
      <3>2. QED BY <3>1, RankTells
    <2>2. ASSUME a[2] = b[2] PROVE a[1] = b[1]
      <3>1. /\ a[1] \in old /\ b[1] \in old /\ was[a[1]] = was[b[1]]
            /\ RankOf(was, old, a[1]) = RankOf(was, old, b[1])
        BY <1>2, <2>2
      <3>2. QED BY <3>1, RankTells
    <2>3. QED BY <2>1, <2>2
  <1>5. ASSUME NEW p \in old, NEW c \in new, was[p] = is[c],
               \A j \in old : was[j] = was[p] => j = p,
               \A j \in new : is[j] = is[c] => j = c
        PROVE  \E a \in pairs : a[1] = p /\ a[2] = c
    <2>1. RankOf(was, old, p) = 0 /\ RankOf(is, new, c) = 0 BY <1>5, RankAlone
    <2>2. c \in Fits(p) BY <1>5, <2>1
    <2> HIDE DEF Fits
    <2>3. QED BY <1>3, <2>2
  <1>6. Matching(pairs, old, new) BY <1>2, <1>4 DEF Matching
  <1>7. Tells(pairs, old, new, was, is) BY <1>2, <1>5, <1>6 DEF Tells
  <1>8. QED BY <1>7 DEF pairs

\* What one pass takes, the next does not.
LEMMA MatchingGrows ==
  ASSUME NEW old0, NEW new0, NEW pairs, Matching(pairs, old0, new0),
         NEW old, NEW new, old = Left(old0, pairs, 1), new = Left(new0, pairs, 2),
         NEW more, Matching(more, old, new)
  PROVE  /\ Matching(pairs \cup more, old0, new0)
         /\ Left(old, more, 1) = Left(old0, pairs \cup more, 1)
         /\ Left(new, more, 2) = Left(new0, pairs \cup more, 2)
  <1>1. /\ old = old0 \ {a[1] : a \in pairs} /\ new = new0 \ {a[2] : a \in pairs}
    BY DEF Left
  <1>2. \A a \in more : a[1] \in old /\ a[2] \in new BY DEF Matching
  <1>3. \A a \in pairs, b \in more : a[1] # b[1] /\ a[2] # b[2] BY <1>1, <1>2
  <1>4. \A a \in pairs \cup more : a[1] \in old0 /\ a[2] \in new0 BY <1>1, <1>2 DEF Matching
  <1>5. ASSUME NEW a \in pairs \cup more, NEW b \in pairs \cup more PROVE a[1] = b[1] <=> a[2] = b[2]
    BY <1>3 DEF Matching
  <1>6. Left(old, more, 1) = Left(old0, pairs \cup more, 1) BY <1>1 DEF Left
  <1>7. Left(new, more, 2) = Left(new0, pairs \cup more, 2) BY <1>1 DEF Left
  <1>8. QED BY <1>4, <1>5, <1>6, <1>7 DEF Matching

\* A sequence has finitely many ids.
LEMMA IdsFinite ==
  ASSUME NEW records, IsSeq(records)
  PROVE  IsFiniteSet(Ids(records))
  <1> DEFINE n == Len(records)
             f == [i \in 1..n |-> records[i].id]
  <1>1. n \in Nat /\ DOMAIN records = 1..n BY IsSeqFacts
  <1>2. f \in [1..n -> Ids(records)] /\ \A id \in Ids(records) : \E i \in 1..n : f[i] = id
    BY <1>1 DEF Ids
  <1> HIDE DEF f
  <1>3. f \in Surjection(1..n, Ids(records)) BY <1>2 DEF Surjection
  <1>4. IsFiniteSet(1..n) BY <1>1, FS_Interval
  <1>5. QED BY <1>3, <1>4, FS_Surjection

\* There is always a free id.
LEMMA FreshFacts ==
  ASSUME NEW r, NEW taken, IsFiniteSet(taken)
  PROVE  /\ FreshId(r, taken) \notin taken
         /\ \/ FreshId(r, taken) = r.id
            \/ \E n \in Nat : FreshId(r, taken) = [scope |-> r.scope, text |-> r.text, nth |-> n, reminted |-> TRUE]
  <1> DEFINE id(n) == [scope |-> r.scope, text |-> r.text, nth |-> n, reminted |-> TRUE]
             m == Cardinality(taken) + 1
             free == {n \in 1..m : id(n) \notin taken}
  <1>1. Cardinality(taken) \in Nat /\ m \in Nat BY FS_CardinalityType
  <1>2. free # {}
    <2> SUFFICES ASSUME free = {} PROVE FALSE OBVIOUS
    <2> DEFINE f == [n \in 1..m |-> id(n)]
    <2>1. f \in [1..m -> taken] OBVIOUS
    <2>2. \A j, k \in 1..m : f[j] = f[k] => j = k
      <3>1. \A j, k \in 1..m : id(j) = id(k) => j = k
        <4>1. \A n : id(n).nth = n OBVIOUS
        <4> HIDE DEF id
        <4>2. QED BY <4>1
      <3>2. \A n \in 1..m : f[n] = id(n) OBVIOUS
      <3>3. QED BY <3>1, <3>2
    <2> HIDE DEF f
    <2>3. IsFiniteSet(1..m) /\ Cardinality(1..m) = m BY <1>1, FS_Interval
    <2>4. Cardinality(taken) < Cardinality(1..m) BY <1>1, <2>3
    <2> DEFINE S == 1..m
    <2>5. \E j, k \in S : j # k /\ f[j] = f[k]
      <3>1. IsFiniteSet(S) /\ f \in [S -> taken] /\ Cardinality(taken) < Cardinality(S)
        BY <2>1, <2>3, <2>4
      <3> HIDE DEF S
      <3>2. QED BY <3>1, FS_PigeonHole
    <2>6. QED BY <2>2, <2>5
  <1>3. free \subseteq Nat BY <1>1
  <1>4. FreshId(r, taken) = IF r.id \notin taken THEN r.id ELSE id(CHOOSE n \in free : \A k \in free : n <= k)
    BY DEF FreshId
  <1> DEFINE n == CHOOSE n \in free : \A k \in free : n <= k
  <1>5. n \in free
    <2> HIDE DEF free
    <2>1. QED BY <1>2, <1>3, LeastOf
  <1> HIDE DEF n
  <1>6. FreshId(r, taken) = IF r.id \notin taken THEN r.id ELSE id(n) BY <1>4 DEF n
  <1>7. CASE r.id \notin taken
    <2>1. FreshId(r, taken) = r.id BY <1>6, <1>7
    <2>2. QED BY <1>7, <2>1
  <1>8. CASE r.id \in taken
    <2>1. FreshId(r, taken) = id(n) BY <1>6, <1>8
    <2>2. n \in Nat /\ id(n) \notin taken BY <1>1, <1>5
    <2>3. QED BY <2>1, <2>2
  <1>9. QED BY <1>7, <1>8

\* What a pass makes of a pair, and what becomes of the rest.
Carried(p, c, r) == r = CarryIdentity(p, c) /\ p.text = c.text /\ (p.id = c.id \/ p.scope = c.scope)

Anchored(p, c, r) == r = KeepAnchors(p, c) /\ (p.id = c.id \/ p.scope = c.scope)

Minted(c, taken, r) == r = [c EXCEPT !.id = FreshId(c, taken)]

Paired(pairs, c) == \E a \in pairs : a[2] = c

Reconciled(prev, curr, result, pairs, taken) ==
  /\ Matching(pairs, DOMAIN prev, DOMAIN curr)
  /\ IsSeq(result) /\ DOMAIN result = DOMAIN curr
  /\ \A a \in pairs : \/ Carried(prev[a[1]], curr[a[2]], result[a[2]])
                      \/ Anchored(prev[a[1]], curr[a[2]], result[a[2]])
  /\ taken[0] = Ids(prev)
  /\ \A c \in DOMAIN curr :
       IF Paired(pairs, c) THEN taken[c] = taken[c - 1]
       ELSE /\ Minted(curr[c], taken[c - 1], result[c])
            /\ taken[c] = taken[c - 1] \cup {FreshId(curr[c], taken[c - 1])}

\* No other record has its heading.
Only(records, i) ==
  /\ HeadingKey(records[i]) # NoHeading
  /\ \A j \in DOMAIN records : records[j].scope = records[i].scope
                               /\ HeadingKey(records[j]) = HeadingKey(records[i]) => j = i

SlotsMeet(prev, curr, pairs) ==
  \A p \in DOMAIN prev, c \in DOMAIN curr :
    /\ Only(prev, p) /\ Only(curr, c)
    /\ prev[p].scope = curr[c].scope /\ HeadingKey(prev[p]) = HeadingKey(curr[c])
    => \E a \in pairs : a[1] = p /\ a[2] = c

\* An id says where its record is from.
SameScope(prev, curr) ==
  \A p \in DOMAIN prev, c \in DOMAIN curr : prev[p].id = curr[c].id => prev[p].scope = curr[c].scope

Taken(first, new, curr) ==
  CHOOSE g : g = [i \in 0..Len(curr) |->
                    IF i = 0 THEN first
                    ELSE g[i - 1] \cup (IF i \in new THEN {FreshId(curr[i], g[i - 1])} ELSE {})]

\* What is taken, record by record.
LEMMA TakenUnrolls ==
  ASSUME NEW first, NEW new, NEW curr, Len(curr) \in Nat
  PROVE  LET taken == Taken(first, new, curr)
         IN /\ taken[0] = first
            /\ \A i \in 1..Len(curr) :
                 taken[i] = taken[i - 1] \cup (IF i \in new THEN {FreshId(curr[i], taken[i - 1])} ELSE {})
  <1> DEFINE n == Len(curr)
             taken == Taken(first, new, curr)
             c == [new |-> new, curr |-> curr]
             Rec(h) == h = [i \in 0..n |->
                              IF i = 0 THEN first
                              ELSE h[i - 1] \cup (IF i \in new THEN {FreshId(curr[i], h[i - 1])} ELSE {})]
  <1>1. \A g : Rec(g) <=> Recurs("taken", c, first, g, 0, n) BY DEF Recurs, Step
  <1>2. taken = CHOOSE g : Rec(g) BY DEF Taken
  <1>3. c.new = new /\ c.curr = curr OBVIOUS
  <1> HIDE DEF Rec, c, n, taken
  <1>4. Rec(taken) BY <1>1, <1>2, RecursionExists DEF n
  <1>5. Unrolls("taken", c, first, taken, 0, n) BY <1>1, <1>4, RecursionUnrolls DEF n
  <1>6. \A i : Step("taken", c, taken[i - 1], i)
                 = taken[i - 1] \cup (IF i \in new THEN {FreshId(curr[i], taken[i - 1])} ELSE {})
    BY <1>3 DEF Step
  <1>7. 0 <= n /\ 0 + 1 = 1 BY DEF n
  <1>8. taken[0] = first /\ \A i \in 1..n : taken[i] = Step("taken", c, taken[i - 1], i)
    BY <1>5, <1>7 DEF Unrolls
  <1>9. QED BY <1>6, <1>8 DEF n, taken

\* The five passes together are one matching, and headings that are alone meet.
LEMMA ReconcileFacts ==
  ASSUME NEW prev, IsSeq(prev), NEW curr, IsSeq(curr), SameScope(prev, curr)
  PROVE  \E pairs, taken : /\ Reconciled(prev, curr, Reconcile(prev, curr), pairs, taken)
                           /\ SlotsMeet(prev, curr, pairs)
  <1> DEFINE m == Len(prev)
             n == Len(curr)
             old0 == DOMAIN prev
             new0 == DOMAIN curr
             p0 == Ranked(old0, new0, Unmoved(prev), Unmoved(curr))
             old1 == Left(old0, p0, 1)
             new1 == Left(new0, p0, 2)
             p1 == Ranked(old1, new1, Texts(prev), Texts(curr))
             old2 == Left(old1, p1, 1)
             new2 == Left(new1, p1, 2)
             p2 == P2(old2, new2, prev, curr)
             old3 == Left(old2, p2, 1)
             new3 == Left(new2, p2, 2)
             p3 == Ranked(old3, new3, Births(prev), Births(curr))
             new4 == Left(new3, p3, 2)
             Partner(pairs, c) == prev[(CHOOSE pair \in pairs : pair[2] = c)[1]]
             In(pairs, c) == \E pair \in pairs : pair[2] = c
             taken == Taken(Ids(prev), new4, curr)
             result == Reconcile(prev, curr)
  <1>1. m \in Nat /\ old0 = 1..m /\ n \in Nat /\ new0 = 1..n BY IsSeqFacts
  <1>2. result = [c \in 1..n |->
                    CASE In(p0 \cup p1, c) -> CarryIdentity(Partner(p0 \cup p1, c), curr[c])
                      [] In(p2, c)         -> KeepAnchors(Partner(p2, c), curr[c])
                      [] In(p3, c)         -> KeepAnchors(Partner(p3, c), curr[c])
                      [] OTHER             -> [curr[c] EXCEPT !.id = FreshId(curr[c], taken[c - 1])]]
    BY DEF Reconcile, Taken
  <1>3. /\ taken[0] = Ids(prev)
        /\ \A i \in 1..n :
             taken[i] = taken[i - 1] \cup (IF i \in new4 THEN {FreshId(curr[i], taken[i - 1])} ELSE {})
    <2> HIDE DEF new4
    <2>1. QED BY <1>1, TakenUnrolls
  <1> HIDE DEF result
  <1> DEFINE q1 == p0 \cup p1
             q2 == q1 \cup p2
             pairs == q2 \cup p3
             h2 == {p \in old2 : HeadingKey(prev[p]) # NoHeading}
             k2 == {c \in new2 : HeadingKey(curr[c]) # NoHeading}
  <1>4. /\ old1 \in SUBSET (1..m) /\ old2 \in SUBSET (1..m) /\ old3 \in SUBSET (1..m)
        /\ new1 \in SUBSET (1..n) /\ new2 \in SUBSET (1..n) /\ new3 \in SUBSET (1..n)
        /\ old0 \in SUBSET (1..m) /\ new0 \in SUBSET (1..n)
        /\ h2 \in SUBSET (1..m) /\ k2 \in SUBSET (1..n)
    <2> HIDE DEF p0, p1, p2
    <2>1. QED BY <1>1 DEF Left
  <1>5. /\ p2 = Ranked(h2, k2, Slots(prev), Slots(curr))
        /\ p3 = Ranked(old3, new3, Births(prev), Births(curr))
    BY DEF P2
  <1>6. /\ old1 = Left(old0, p0, 1) /\ new1 = Left(new0, p0, 2)
        /\ old2 = Left(old1, p1, 1) /\ new2 = Left(new1, p1, 2)
        /\ old3 = Left(old2, p2, 1) /\ new3 = Left(new2, p2, 2)
        /\ new4 = Left(new3, p3, 2)
        /\ p0 = Ranked(old0, new0, Unmoved(prev), Unmoved(curr))
        /\ p1 = Ranked(old1, new1, Texts(prev), Texts(curr))
        /\ h2 = {p \in old2 : HeadingKey(prev[p]) # NoHeading}
        /\ k2 = {c \in new2 : HeadingKey(curr[c]) # NoHeading}
    OBVIOUS
  <1> HIDE DEF p0, p1, p2, p3, old0, old1, old2, old3, new0, new1, new2, new3, new4, h2, k2, m, n
  <1>7. /\ Tells(p0, old0, new0, Unmoved(prev), Unmoved(curr))
        /\ Tells(p1, old1, new1, Texts(prev), Texts(curr))
        /\ Tells(p2, h2, k2, Slots(prev), Slots(curr))
        /\ Tells(p3, old3, new3, Births(prev), Births(curr))
    <2>1. Tells(p0, old0, new0, Unmoved(prev), Unmoved(curr)) BY <1>1, <1>4, <1>6, RankedFacts
    <2>2. Tells(p1, old1, new1, Texts(prev), Texts(curr)) BY <1>1, <1>4, <1>6, RankedFacts
    <2>3. Tells(p2, h2, k2, Slots(prev), Slots(curr)) BY <1>1, <1>4, <1>5, RankedFacts
    <2>4. Tells(p3, old3, new3, Births(prev), Births(curr)) BY <1>1, <1>4, <1>5, RankedFacts
    <2>5. QED BY <2>1, <2>2, <2>3, <2>4
  <1>8. /\ \A i \in 1..m : /\ Unmoved(prev)[i] = <<prev[i].id, prev[i].text>>
                          /\ Texts(prev)[i] = <<prev[i].scope, prev[i].text>>
                          /\ Slots(prev)[i] = <<prev[i].scope, HeadingKey(prev[i])>>
                          /\ Births(prev)[i] = prev[i].id
        /\ \A i \in 1..n : /\ Unmoved(curr)[i] = <<curr[i].id, curr[i].text>>
                          /\ Texts(curr)[i] = <<curr[i].scope, curr[i].text>>
                          /\ Slots(curr)[i] = <<curr[i].scope, HeadingKey(curr[i])>>
                          /\ Births(curr)[i] = curr[i].id
    BY <1>1 DEF Unmoved, Texts, Slots, Births, old0, new0
  <1>9. /\ Matching(p0, old0, new0) /\ Matching(p1, old1, new1)
         /\ Matching(p2, h2, k2) /\ Matching(p3, old3, new3)
    BY <1>7 DEF Tells
  <1>10. Matching(p2, old2, new2)
    <2>1. \A a \in p2 : a[1] \in old2 /\ a[2] \in new2 BY <1>6, <1>9 DEF Matching
    <2>2. QED BY <1>9, <2>1 DEF Matching
  <1>11. /\ Matching(q1, old0, new0) /\ old2 = Left(old0, q1, 1) /\ new2 = Left(new0, q1, 2)
    BY <1>6, <1>9, MatchingGrows
  <1> DEFINE New(c) == [curr[c] EXCEPT !.id = FreshId(curr[c], taken[c - 1])]
  <1>12. /\ q1 = p0 \cup p1 /\ q2 = q1 \cup p2 /\ pairs = q2 \cup p3
         /\ result = [c \in 1..n |->
                    CASE In(q1, c) -> CarryIdentity(Partner(q1, c), curr[c])
                      [] In(p2, c) -> KeepAnchors(Partner(p2, c), curr[c])
                      [] In(p3, c) -> KeepAnchors(Partner(p3, c), curr[c])
                      [] OTHER     -> New(c)]
    BY <1>2 DEF n
  <1> HIDE DEF q1, taken, New
  <1>13. /\ Matching(q2, old0, new0) /\ old3 = Left(old0, q2, 1) /\ new3 = Left(new0, q2, 2)
    <2>1. /\ Matching(q1 \cup p2, old0, new0)
          /\ Left(old2, p2, 1) = Left(old0, q1 \cup p2, 1)
          /\ Left(new2, p2, 2) = Left(new0, q1 \cup p2, 2)
      BY <1>10, <1>11, MatchingGrows
    <2>2. QED BY <1>6, <2>1
  <1> HIDE DEF q2
  <1>14. /\ Matching(pairs, old0, new0) /\ new4 = Left(new0, pairs, 2)
    BY <1>6, <1>9, <1>13, MatchingGrows
  <1> HIDE DEF pairs
  <1>15. /\ \A a \in p0 : prev[a[1]].id = curr[a[2]].id /\ prev[a[1]].text = curr[a[2]].text
         /\ \A a \in p1 : prev[a[1]].scope = curr[a[2]].scope /\ prev[a[1]].text = curr[a[2]].text
         /\ \A a \in p2 : prev[a[1]].scope = curr[a[2]].scope
         /\ \A a \in p3 : prev[a[1]].id = curr[a[2]].id
    <2>1. \A a \in p0 \cup p1 \cup p2 \cup p3 : a[1] \in 1..m /\ a[2] \in 1..n
      BY <1>1, <1>12, <1>14 DEF Matching
    <2>2. \A a \in p0 : prev[a[1]].id = curr[a[2]].id /\ prev[a[1]].text = curr[a[2]].text
      BY <1>7, <1>8, <2>1 DEF Tells
    <2>3. \A a \in p1 : prev[a[1]].scope = curr[a[2]].scope /\ prev[a[1]].text = curr[a[2]].text
      BY <1>7, <1>8, <2>1 DEF Tells
    <2>4. \A a \in p2 : prev[a[1]].scope = curr[a[2]].scope
      BY <1>7, <1>8, <2>1 DEF Tells
    <2>5. \A a \in p3 : prev[a[1]].id = curr[a[2]].id
      BY <1>7, <1>8, <2>1 DEF Tells
    <2>6. QED BY <2>2, <2>3, <2>4, <2>5
  <1>16. \A p : \A a \in p : Matching(p, old0, new0) \/ Matching(p, old2, new2) \/ Matching(p, old3, new3)
           => Partner(p, a[2]) = prev[a[1]] /\ In(p, a[2])
    <2> SUFFICES ASSUME NEW p, NEW a \in p, \A x, y \in p : x[1] = y[1] <=> x[2] = y[2]
                 PROVE  Partner(p, a[2]) = prev[a[1]] /\ In(p, a[2])
      BY DEF Matching
    <2> DEFINE b == CHOOSE b \in p : b[2] = a[2]
    <2>1. b \in p /\ b[2] = a[2] OBVIOUS
    <2>2. b[1] = a[1] BY <2>1
    <2>3. QED BY <2>2
  <1>17. /\ \A a \in q1 : a[2] \in 1..n /\ ~In(p2, a[2]) /\ ~In(p3, a[2])
         /\ \A a \in p2 : a[2] \in 1..n /\ ~In(q1, a[2]) /\ ~In(p3, a[2])
         /\ \A a \in p3 : a[2] \in 1..n /\ ~In(q1, a[2]) /\ ~In(p2, a[2])
    BY <1>1, <1>10, <1>9, <1>12, <1>11, <1>13, <1>14 DEF Matching, Left
  <1>18. /\ \A a \in q1 : Partner(q1, a[2]) = prev[a[1]] /\ In(q1, a[2])
         /\ \A a \in p2 : Partner(p2, a[2]) = prev[a[1]] /\ In(p2, a[2])
         /\ \A a \in p3 : Partner(p3, a[2]) = prev[a[1]] /\ In(p3, a[2])
    BY <1>9, <1>10, <1>11, <1>16
  <1>19. \A c \in 1..n : ~In(q1, c) /\ ~In(p2, c) /\ ~In(p3, c) <=> ~Paired(pairs, c)
    BY <1>12 DEF Paired
  <1> HIDE DEF In, Partner
  <1>20. /\ \A a \in q1 : result[a[2]] = CarryIdentity(prev[a[1]], curr[a[2]])
         /\ \A a \in p2 : result[a[2]] = KeepAnchors(prev[a[1]], curr[a[2]])
         /\ \A a \in p3 : result[a[2]] = KeepAnchors(prev[a[1]], curr[a[2]])
         /\ \A c \in 1..n : ~Paired(pairs, c) => Minted(curr[c], taken[c - 1], result[c])
    <2>1. \A c \in 1..n : In(q1, c) /\ ~In(p2, c) /\ ~In(p3, c) => result[c] = CarryIdentity(Partner(q1, c), curr[c])
      BY <1>12
    <2>2. \A c \in 1..n : ~In(q1, c) /\ In(p2, c) /\ ~In(p3, c) => result[c] = KeepAnchors(Partner(p2, c), curr[c])
      BY <1>12
    <2>3. \A c \in 1..n : ~In(q1, c) /\ ~In(p2, c) /\ In(p3, c)
                          => result[c] = KeepAnchors(Partner(p3, c), curr[c])
      BY <1>12
    <2>4. \A c \in 1..n : ~In(q1, c) /\ ~In(p2, c) /\ ~In(p3, c) => Minted(curr[c], taken[c - 1], result[c])
      BY <1>12 DEF Minted, New
    <2>5. QED BY <1>17, <1>18, <1>19, <2>1, <2>2, <2>3, <2>4
  <1>21. \A a \in pairs : \/ Carried(prev[a[1]], curr[a[2]], result[a[2]])
                         \/ Anchored(prev[a[1]], curr[a[2]], result[a[2]])
    BY <1>12, <1>15, <1>20 DEF Carried, Anchored
  <1>22. \A c \in 1..n : ~Paired(pairs, c) <=> c \in new4
    BY <1>1, <1>14 DEF Paired, Left
  <1>23. \A c \in 1..n :
           IF Paired(pairs, c) THEN taken[c] = taken[c - 1]
           ELSE /\ Minted(curr[c], taken[c - 1], result[c])
                /\ taken[c] = taken[c - 1] \cup {FreshId(curr[c], taken[c - 1])}
    <2> TAKE c \in 1..n
    <2>1. CASE Paired(pairs, c)
      <3>1. taken[c] = taken[c - 1] \cup {} BY <1>3, <1>22, <2>1
      <3>2. QED BY <2>1, <3>1
    <2>2. CASE ~Paired(pairs, c)
      <3>1. taken[c] = taken[c - 1] \cup {FreshId(curr[c], taken[c - 1])} BY <1>3, <1>22, <2>2
      <3>2. QED BY <1>20, <2>2, <3>1
    <2>3. QED BY <2>1, <2>2
  <1>24. /\ result = [c \in 1..n |-> result[c]] /\ DOMAIN result = 1..n
    BY <1>12
  <1>25. IsSeq(result) BY <1>1, <1>24, FunctionIsSeq
  <1>26. Reconciled(prev, curr, result, pairs, taken)
    BY <1>1, <1>3, <1>14, <1>21, <1>23, <1>24, <1>25 DEF Reconciled, old0, new0
  <1>27. SlotsMeet(prev, curr, pairs)
    <2> SUFFICES ASSUME NEW p \in 1..m, NEW c \in 1..n, Only(prev, p), Only(curr, c),
                        prev[p].scope = curr[c].scope, HeadingKey(prev[p]) = HeadingKey(curr[c])
                 PROVE  \E a \in pairs : a[1] = p /\ a[2] = c
      BY <1>1 DEF SlotsMeet, old0, new0
    <2>1. \A i \in 1..m, j \in 1..n :
            prev[i].scope = curr[j].scope /\ prev[i].text = curr[j].text
            => HeadingKey(prev[i]) = HeadingKey(curr[j])
      BY DEF HeadingKey
    <2>2. \A a \in q1 : a[1] \in 1..m /\ a[2] \in 1..n /\ prev[a[1]].scope = curr[a[2]].scope
                         /\ HeadingKey(prev[a[1]]) = HeadingKey(curr[a[2]])
      <3> TAKE a \in q1
      <3>1. a[1] \in 1..m /\ a[2] \in 1..n BY <1>1, <1>11 DEF Matching
      <3>2. prev[a[1]].text = curr[a[2]].text BY <1>12, <1>15
      <3>3. prev[a[1]].id = curr[a[2]].id \/ prev[a[1]].scope = curr[a[2]].scope BY <1>12, <1>15
      <3>4. prev[a[1]].scope = curr[a[2]].scope BY <1>1, <3>1, <3>3 DEF SameScope, old0, new0
      <3>5. QED BY <2>1, <3>1, <3>2, <3>4
    <2>3. \A a \in q1 : a[1] = p <=> a[2] = c
      BY <1>1, <2>2 DEF Only, old0, new0
    <2>4. CASE \E a \in q1 : a[1] = p BY <1>12, <2>3, <2>4
    <2>5. CASE ~ \E a \in q1 : a[1] = p
      <3>1. p \in h2 /\ c \in k2
        <4>1. p \in old2 BY <1>1, <1>11, <2>5 DEF Left
        <4>2. c \in new2 BY <1>1, <1>11, <2>3, <2>5 DEF Left
        <4>3. QED BY <1>6, <4>1, <4>2 DEF Only
      <3>2. Slots(prev)[p] = Slots(curr)[c] BY <1>8
      <3>3. \A j \in h2 : Slots(prev)[j] = Slots(prev)[p] => j = p
        BY <1>1, <1>4, <1>8 DEF Only, old0, new0
      <3>4. \A j \in k2 : Slots(curr)[j] = Slots(curr)[c] => j = c
        BY <1>1, <1>4, <1>8 DEF Only, old0, new0
      <3>5. \E a \in p2 : a[1] = p /\ a[2] = c BY <1>7, <3>1, <3>2, <3>3, <3>4 DEF Tells
      <3>6. QED BY <1>12, <3>5
    <2>6. QED BY <2>4, <2>5
  <1>28. QED BY <1>26, <1>27 DEF result

-----------------------------------------------------------------------------
(***************************************************************************)
(* Records of an agent                                                     *)
(***************************************************************************)
RowCells ==
  [body : Bodies \cup {NoBody}, importance : 0..1, link : Rows \cup {Nothing},
   created : 1..MaxTime, updated : 1..MaxTime]

Record ==
  [id : Rows \cup BirthIds, scope : Files \cup {Store}, text : Section, importance : 0..1,
   supersedes : Rows \cup {Nothing}, created : 1..MaxTime, updated : 0..MaxTime,
   stash : [place : Rows \cup Nat, cells : RowCells \cup {Nothing}]]

\* An id says where its record is from, a row's stash can be put back, and only
\* rows have no text.
RecordOK(r) ==
  /\ r \in Record
  /\ r.scope = IF r.id \in Rows THEN Store ELSE r.id.scope
  /\ r.scope = Store /\ ~StoreIsRaw => r.stash.cells \in RowCells
  /\ ~HasRows => ~Blank(r)

AllOK(records) == \A r \in ToSet(records) : RecordOK(r)

\* Well-formed records with the same id are from the same place.
LEMMA AllSameScope ==
  ASSUME NEW prev, AllOK(prev), NEW curr, AllOK(curr)
  PROVE  SameScope(prev, curr)
  <1>1. /\ \A p \in DOMAIN prev : RecordOK(prev[p])
        /\ \A c \in DOMAIN curr : RecordOK(curr[c])
    BY DEF AllOK, ToSet
  <1>2. QED BY <1>1 DEF SameScope, RecordOK

\* A carried record is well formed, with the base's id and date.
LEMMA CarriedOK ==
  ASSUME NEW p, RecordOK(p), NEW c, RecordOK(c), NEW r, Carried(p, c, r)
  PROVE  /\ RecordOK(r)
         /\ r.id = p.id /\ r.created = p.created /\ r.scope = c.scope /\ r.text = c.text
  <1>1. p.scope = c.scope BY DEF Carried, RecordOK
  <1>2. r = [id |-> p.id, scope |-> c.scope, text |-> p.text, importance |-> c.importance,
             supersedes |-> c.supersedes, created |-> p.created, updated |-> p.updated,
             stash |-> p.stash]
    BY DEF Carried, CarryIdentity, RecordOK, Record
  <1>3. r \in Record BY <1>2 DEF RecordOK, Record
  <1>4. r.id = p.id /\ r.created = p.created /\ r.scope = c.scope /\ r.text = c.text /\ r.stash = p.stash
    BY <1>2 DEF Carried
  <1>5. QED BY <1>1, <1>3, <1>4 DEF RecordOK, Blank

\* So is a record that keeps its anchors.
LEMMA AnchoredOK ==
  ASSUME NEW p, RecordOK(p), NEW c, RecordOK(c), NEW r, Anchored(p, c, r)
  PROVE  /\ RecordOK(r)
         /\ r.id = p.id /\ r.created = p.created /\ r.scope = c.scope /\ r.text = c.text
  <1>1. p.scope = c.scope BY DEF Anchored, RecordOK
  <1>2. r = [id |-> p.id, scope |-> c.scope, text |-> c.text, importance |-> c.importance,
             supersedes |-> c.supersedes, created |-> p.created, updated |-> c.updated,
             stash |-> c.stash]
    BY DEF Anchored, KeepAnchors, RecordOK, Record
  <1>3. r \in Record BY <1>2 DEF RecordOK, Record
  <1>4. r.id = p.id /\ r.created = p.created /\ r.scope = c.scope /\ r.text = c.text /\ r.stash = c.stash
    BY <1>2
  <1>5. QED BY <1>1, <1>3, <1>4 DEF RecordOK, Blank

\* A minted record is well formed, with an id that was not taken.
LEMMA MintedOK ==
  ASSUME NEW c, RecordOK(c), NEW taken, IsFiniteSet(taken), NEW r, Minted(c, taken, r)
  PROVE  /\ RecordOK(r)
         /\ r.id = FreshId(c, taken) /\ r.id \notin taken /\ r.scope = c.scope /\ r.text = c.text
  <1> DEFINE id == FreshId(c, taken)
  <1>1. /\ id \notin taken
        /\ \/ id = c.id
           \/ \E n \in Nat : id = [scope |-> c.scope, text |-> c.text, nth |-> n, reminted |-> TRUE]
    BY FreshFacts
  <1>2. id \in Rows \cup BirthIds /\ c.scope = IF id \in Rows THEN Store ELSE id.scope
    <2>1. CASE id = c.id BY <2>1 DEF RecordOK, Record
    <2>2. CASE id # c.id
      <3>1. PICK n \in Nat : id = [scope |-> c.scope, text |-> c.text, nth |-> n, reminted |-> TRUE]
        BY <1>1, <2>2
      <3>2. id \in BirthIds /\ id.scope = c.scope BY <3>1 DEF RecordOK, Record, BirthIds
      <3>3. QED BY <3>2, ExtractionAssumption
    <2>3. QED BY <2>1, <2>2
  <1> HIDE DEF id
  <1>3. r = [id |-> id, scope |-> c.scope, text |-> c.text, importance |-> c.importance,
             supersedes |-> c.supersedes, created |-> c.created, updated |-> c.updated,
             stash |-> c.stash]
    BY DEF Minted, RecordOK, Record, id
  <1>4. r \in Record BY <1>2, <1>3 DEF RecordOK, Record
  <1>5. r.id = id /\ r.scope = c.scope /\ r.text = c.text /\ r.stash = c.stash BY <1>3
  <1>6. QED BY <1>1, <1>2, <1>4, <1>5 DEF RecordOK, Blank, id

\* Reconciliation gives no id twice, and what it pairs keeps its id and date.
LEMMA ReconciledFacts ==
  ASSUME NEW prev, Unique(prev), AllOK(prev), NEW curr, IsSeq(curr), AllOK(curr),
         NEW result, NEW pairs, NEW taken, Reconciled(prev, curr, result, pairs, taken)
  PROVE  /\ Unique(result) /\ AllOK(result) /\ DOMAIN result = DOMAIN curr
         /\ \A c \in DOMAIN curr : result[c].scope = curr[c].scope /\ result[c].text = curr[c].text
         /\ \A a \in pairs : result[a[2]].id = prev[a[1]].id /\ result[a[2]].created = prev[a[1]].created
         /\ \A c \in DOMAIN curr : ~Paired(pairs, c) => result[c].id \notin Ids(prev)
  <1> DEFINE n == Len(curr)
             Distinct(k) == \A i, j \in 1..k : i # j => result[i].id # result[j].id
             Good(k) == /\ IsFiniteSet(taken[k]) /\ Ids(prev) \subseteq taken[k]
                        /\ \A c \in 1..k : /\ result[c].id \in taken[k]
                                           /\ ~Paired(pairs, c) => result[c].id \notin Ids(prev)
                                           /\ RecordOK(result[c])
                                           /\ result[c].scope = curr[c].scope
                                           /\ result[c].text = curr[c].text
                        /\ Distinct(k)
             G == {k \in 0..n : Good(k)}
  <1>1. n \in Nat /\ DOMAIN curr = 1..n /\ IsSeq(prev) BY IsSeqFacts DEF Unique
  <1>2. /\ Matching(pairs, DOMAIN prev, 1..n)
        /\ IsSeq(result) /\ DOMAIN result = 1..n
        /\ \A a \in pairs : \/ Carried(prev[a[1]], curr[a[2]], result[a[2]])
                            \/ Anchored(prev[a[1]], curr[a[2]], result[a[2]])
        /\ taken[0] = Ids(prev)
        /\ \A c \in 1..n :
             IF Paired(pairs, c) THEN taken[c] = taken[c - 1]
             ELSE /\ Minted(curr[c], taken[c - 1], result[c])
                  /\ taken[c] = taken[c - 1] \cup {FreshId(curr[c], taken[c - 1])}
    BY <1>1 DEF Reconciled
  <1>3. /\ \A p \in DOMAIN prev : RecordOK(prev[p]) /\ prev[p].id \in Ids(prev)
        /\ \A c \in 1..n : RecordOK(curr[c])
        /\ \A i, j \in DOMAIN prev : i # j => prev[i].id # prev[j].id
    BY <1>1 DEF AllOK, ToSet, Ids, Unique, Repeats
  <1> HIDE DEF n
  <1>4. ASSUME NEW a \in pairs
        PROVE  /\ a[1] \in DOMAIN prev /\ a[2] \in 1..n
               /\ RecordOK(result[a[2]])
               /\ result[a[2]].id = prev[a[1]].id /\ result[a[2]].created = prev[a[1]].created
               /\ result[a[2]].scope = curr[a[2]].scope /\ result[a[2]].text = curr[a[2]].text
    <2>1. a[1] \in DOMAIN prev /\ a[2] \in 1..n BY <1>2 DEF Matching
    <2>2. RecordOK(prev[a[1]]) /\ RecordOK(curr[a[2]]) BY <1>3, <2>1
    <2>3. \/ Carried(prev[a[1]], curr[a[2]], result[a[2]])
          \/ Anchored(prev[a[1]], curr[a[2]], result[a[2]])
      BY <1>2
    <2>4. QED BY <2>1, <2>2, <2>3, CarriedOK, AnchoredOK
  <1>5. \A a, b \in pairs : a[1] = b[1] <=> a[2] = b[2] BY <1>2 DEF Matching
  <1>6. 0 \in G
    <2>1. IsFiniteSet(taken[0]) BY <1>1, <1>2, IdsFinite
    <2>2. Good(0) BY <1>2, <2>1
    <2> HIDE DEF Good
    <2>3. QED BY <1>1, <2>2
  <1>7. ASSUME NEW k \in 0..n, k > 0, k - 1 \in G PROVE k \in G
    <2>1. Good(k - 1) /\ k \in 1..n /\ 1..k = 1..(k - 1) \cup {k} /\ k \notin 1..(k - 1)
      BY <1>1, <1>7
    <2>2. CASE Paired(pairs, k)
      <3>1. PICK a \in pairs : a[2] = k BY <2>2 DEF Paired
      <3>2. taken[k] = taken[k - 1] BY <1>2, <2>1, <2>2
      <3>3. result[k].id = prev[a[1]].id /\ prev[a[1]].id \in Ids(prev) /\ a[1] \in DOMAIN prev
            /\ RecordOK(result[k]) /\ result[k].scope = curr[k].scope /\ result[k].text = curr[k].text
        BY <1>3, <1>4, <3>1
      <3>4. \A c \in 1..(k - 1) : result[c].id # result[k].id
        <4> TAKE c \in 1..(k - 1)
        <4>1. CASE Paired(pairs, c)
          <5>1. PICK b \in pairs : b[2] = c BY <4>1 DEF Paired
          <5>2. a[1] # b[1] /\ b[1] \in DOMAIN prev /\ result[c].id = prev[b[1]].id
            BY <1>4, <1>5, <2>1, <3>1, <5>1
          <5>3. QED BY <1>3, <3>3, <5>2
        <4>2. CASE ~Paired(pairs, c) BY <2>1, <3>3, <4>2
        <4>3. QED BY <4>1, <4>2
      <3>5. Distinct(k) BY <2>1, <3>4
      <3>6. Good(k) BY <2>1, <2>2, <3>2, <3>3, <3>5
      <3> HIDE DEF Good
      <3>7. QED BY <3>6
    <2>3. CASE ~Paired(pairs, k)
      <3> DEFINE id == FreshId(curr[k], taken[k - 1])
      <3>1. Minted(curr[k], taken[k - 1], result[k]) /\ taken[k] = taken[k - 1] \cup {id}
        BY <1>2, <2>1, <2>3
      <3>2. IsFiniteSet(taken[k - 1]) /\ RecordOK(curr[k]) BY <1>3, <2>1
      <3>3. /\ RecordOK(result[k]) /\ result[k].id = id /\ id \notin taken[k - 1]
            /\ result[k].scope = curr[k].scope /\ result[k].text = curr[k].text
        BY <3>1, <3>2, MintedOK
      <3> HIDE DEF id
      <3>4. IsFiniteSet(taken[k]) BY <3>1, <3>2, FS_AddElement
      <3>5. Distinct(k) BY <2>1, <3>3
      <3>6. Good(k) BY <2>1, <2>3, <3>1, <3>3, <3>4, <3>5
      <3> HIDE DEF Good
      <3>7. QED BY <3>6
    <2>4. QED BY <2>2, <2>3
  <1> HIDE DEF G
  <1>8. \A k \in 0..n : k \in G BY <1>1, <1>6, <1>7, Induction
  <1>9. n \in G BY <1>1, <1>8
  <1>10. Good(n) BY <1>9 DEF G
  <1>11. Unique(result) /\ AllOK(result) BY <1>2, <1>10 DEF Unique, Repeats, AllOK, ToSet
  <1>12. QED BY <1>1, <1>2, <1>4, <1>10, <1>11

\* The agent's memory: what an export reads.
MemoryOK ==
  /\ runtime \in Runtimes
  /\ files \in [Files -> Seq(Section)]
  /\ mtime \in [Files \cup {Store} -> 1..MaxTime]
  /\ store \in [Rows -> RowCells \cup {Nothing, Forgotten}]

\* A finite set as a sequence, each member once.
LEMMA SetToSeqFacts ==
  ASSUME NEW S, IsFiniteSet(S)
  PROVE  LET seq == SetToSeq(S)
         IN /\ IsSeq(seq) /\ \A i \in DOMAIN seq : seq[i] \in S
            /\ \A i, j \in DOMAIN seq : seq[i] = seq[j] => i = j
  <1> DEFINE seq == SetToSeq(S)
             m == Cardinality(S)
  <1>1. PICK n \in Nat : ExistsBijection(1..n, S) BY FS_NatBijection
  <1>2. m = n BY <1>1, FS_CountingElements
  <1>3. \E f \in [1..m -> S] : IsInjective(f)
    BY <1>1, <1>2 DEF ExistsBijection, Bijection, Injection
  <1>4. seq \in [1..m -> S] /\ IsInjective(seq) BY <1>3 DEF SetToSeq
  <1> HIDE DEF seq
  <1>5. m \in Nat BY <1>2
  <1> HIDE DEF m
  <1>6. seq = [i \in DOMAIN seq |-> seq[i]] /\ DOMAIN seq = 1..m BY <1>4
  <1>7. IsSeq(seq) BY <1>5, <1>6, FunctionIsSeq
  <1>8. QED BY <1>4, <1>6, <1>7 DEF IsInjective, seq

\* Equal texts differ in their place among them.
LEMMA EqualBeforeGrows ==
  ASSUME NEW seq, IsSeq(seq), NEW i \in DOMAIN seq, NEW k \in DOMAIN seq, i < k, seq[i] = seq[k]
  PROVE  /\ EqualBefore(seq, i) \in Nat
         /\ EqualBefore(seq, i) # EqualBefore(seq, k)
  <1> DEFINE n == Len(seq)
             all == 1..n
  <1>1. n \in Nat /\ DOMAIN seq = 1..n BY IsSeqFacts
  <1>2. \A l \in all : {j \in all : j < l /\ seq[j] = seq[l]} = {j \in 1..(l - 1) : seq[j] = seq[l]}
    BY <1>1
  <1>3. \A l \in all : EqualBefore(seq, l) = RankOf(seq, all, l) BY <1>2 DEF EqualBefore, RankOf
  <1>4. all \in SUBSET (1..n) /\ i \in all /\ k \in all BY <1>1
  <1> HIDE DEF all, n
  <1>5. RankOf(seq, all, i) \in Nat /\ RankOf(seq, all, i) < RankOf(seq, all, k)
    BY <1>1, <1>4, RankGrows
  <1>6. RankOf(seq, all, k) \in Nat
    <2>1. {j \in all : j < k /\ seq[j] = seq[k]} \subseteq 1..n BY <1>4
    <2>2. IsFiniteSet(1..n) BY <1>1, FS_Interval
    <2>3. QED BY <2>1, <2>2, FS_Subset, FS_CardinalityType DEF RankOf
  <1>7. EqualBefore(seq, i) = RankOf(seq, all, i) /\ EqualBefore(seq, k) = RankOf(seq, all, k)
    BY <1>3, <1>4
  <1>8. RankOf(seq, all, i) # RankOf(seq, all, k) BY <1>5, <1>6
  <1>9. QED BY <1>5, <1>7, <1>8

\* A file's records are well formed, each with a birth id of its own.
LEMMA FileRecordsFacts ==
  ASSUME MemoryOK, NEW f \in Files
  PROVE  /\ Unique(FileRecords(f)) /\ AllOK(FileRecords(f))
         /\ \A id \in Ids(FileRecords(f)) : id \in BirthIds /\ id.scope = f
  <1> DEFINE at == {i \in DOMAIN files[f] : Kept(files[f][i])}
             kept == Keep(files[f], at)
             n == Len(kept)
             birth(i) == [scope |-> f, text |-> kept[i], nth |-> EqualBefore(kept, i), reminted |-> FALSE]
             record(i) ==
               [id |-> birth(i), scope |-> f, text |-> kept[i], importance |-> 0, supersedes |-> Nothing,
                created |-> Written(f),
                updated |-> IF runtime \in {"openclaw", "generic"} THEN mtime[f] ELSE 0,
                stash |-> [place |-> i, cells |-> Nothing]]
             records == FileRecords(f)
  <1>1. records = [i \in 1..n |-> record(i)] BY DEF FileRecords
  <1>2. files[f] \in Seq(Section) /\ IsSeq(files[f]) BY SeqIsSeq DEF MemoryOK
  <1>3. IsSeq(kept) /\ \A r \in ToSet(kept) : r \in Section /\ Kept(r)
    BY <1>2, SeqIsSeq, KeepFacts
  <1> HIDE DEF kept, at
  <1>4. n \in Nat /\ DOMAIN kept = 1..n /\ \A i \in 1..n : kept[i] \in Section /\ Kept(kept[i])
    BY <1>3, IsSeqFacts
  <1>5. \A i, k \in 1..n : i < k /\ kept[i] = kept[k] => EqualBefore(kept, i) # EqualBefore(kept, k)
    BY <1>3, <1>4, EqualBeforeGrows
  <1>6. \A i \in 1..n : EqualBefore(kept, i) \in Nat
    <2> TAKE i \in 1..n
    <2>1. {j \in 1..(i - 1) : kept[j] = kept[i]} \subseteq 1..n BY <1>4
    <2>2. IsFiniteSet(1..n) BY <1>4, FS_Interval
    <2>3. QED BY <2>1, <2>2, FS_Subset, FS_CardinalityType DEF EqualBefore
  <1> HIDE DEF n, records
  <1>7. \A i \in 1..n : birth(i) \in BirthIds /\ birth(i).scope = f
    BY <1>4, <1>6 DEF BirthIds
  <1>8. \A i, k \in 1..n : i # k => birth(i) # birth(k)
    <2> SUFFICES ASSUME NEW i \in 1..n, NEW k \in 1..n, i # k, birth(i) = birth(k) PROVE FALSE
      OBVIOUS
    <2>1. kept[i] = kept[k] /\ EqualBefore(kept, i) = EqualBefore(kept, k) OBVIOUS
    <2>2. i < k \/ k < i BY <1>4
    <2>3. QED BY <1>5, <2>1, <2>2
  <1>9. \A i \in 1..n : RecordOK(record(i))
    <2> TAKE i \in 1..n
    <2> DEFINE r == record(i)
    <2>1. /\ r.id = birth(i) /\ r.scope = f /\ r.text = kept[i] /\ f # Store
      BY ExtractionAssumption
    <2>2. Written(f) \in 1..MaxTime /\ mtime[f] \in 1..MaxTime
      BY CurationAssumption DEF Written, MemoryOK
    <2>3. i \in Nat BY <1>4
    <2> HIDE DEF birth
    <2> DEFINE u == IF runtime \in {"openclaw", "generic"} THEN mtime[f] ELSE 0
    <2>4. /\ 0 \in 0..1 /\ u \in 0..MaxTime /\ f \in Files \cup {Store}
          /\ birth(i) \in Rows \cup BirthIds /\ kept[i] \in Section /\ Written(f) \in 1..MaxTime
      BY <1>4, <1>7, <2>2, CurationAssumption
    <2>5. [place |-> i, cells |-> Nothing] \in [place : Rows \cup Nat, cells : RowCells \cup {Nothing}]
      BY <2>3
    <2> HIDE DEF u
    <2>6. r \in Record BY <2>4, <2>5 DEF Record, u
    <2>7. ~Blank(r)
      BY <1>4, <2>1, ExtractionAssumption DEF Kept, Blank, NoText
    <2>8. birth(i) \notin Rows BY <1>7, ExtractionAssumption
    <2> HIDE DEF r
    <2>9. RecordOK(r) BY <1>7, <2>1, <2>6, <2>7, <2>8 DEF RecordOK
    <2>10. QED BY <2>9 DEF r
  <1>10. \A i \in 1..n : record(i).id = birth(i) OBVIOUS
  <1> HIDE DEF record, birth
  <1>11. /\ DOMAIN records = 1..n /\ \A i \in 1..n : records[i] = record(i)
         /\ records = [i \in DOMAIN records |-> records[i]]
    BY <1>1
  <1>12. IsSeq(records) BY <1>4, <1>11, FunctionIsSeq
  <1>13. Unique(records) BY <1>8, <1>10, <1>11, <1>12 DEF Unique, Repeats
  <1>14. AllOK(records) BY <1>9, <1>11 DEF AllOK, ToSet
  <1>15. \A id \in Ids(records) : id \in BirthIds /\ id.scope = f
    BY <1>7, <1>10, <1>11 DEF Ids
  <1>16. QED BY <1>13, <1>14, <1>15 DEF records

\* A live row makes a well-formed record, under its native id.
LEMMA RowRecordOK ==
  ASSUME MemoryOK, HasRows, NEW row \in Live
  PROVE  RecordOK(RowRecord(row)) /\ RowRecord(row).id = row
  <1> DEFINE cells == store[row]
             replaced == {old \in Live : store[old].link = row}
             older == IF runtime # "zeroclaw" \/ replaced = {} THEN Nothing ELSE CHOOSE old \in replaced : TRUE
             importance == IF runtime = "zeroclaw" THEN cells.importance ELSE 0
             created == IF runtime = "generic" THEN mtime[Store] ELSE cells.created
             updated == CASE runtime = "zeroclaw" -> cells.updated
                          [] runtime = "generic"  -> mtime[Store]
                          [] runtime = "hermes"   -> 0
             text == [heading |-> NoHeading, body |-> cells.body]
             stash == [place |-> row, cells |-> IF runtime = "generic" THEN Nothing ELSE cells]
             r == RowRecord(row)
  <1>1. row \in Rows /\ cells \in RowCells BY DEF Live, MemoryOK
  <1>2. older \in Rows \cup {Nothing}
    <2>1. CASE runtime # "zeroclaw" \/ replaced = {} BY <2>1
    <2>2. CASE ~(runtime # "zeroclaw" \/ replaced = {})
      <3>1. older \in replaced BY <2>2
      <3>2. QED BY <3>1 DEF Live
    <2>3. QED BY <2>1, <2>2
  <1>3. /\ importance \in 0..1 /\ created \in 1..MaxTime /\ text \in Section
        /\ mtime[Store] \in 1..MaxTime
    BY <1>1 DEF RowCells, MemoryOK, Section
  <1>4. updated \in 0..MaxTime
    <2>1. MaxTime \in Nat BY CurationAssumption
    <2>2. cells.updated \in 0..MaxTime /\ mtime[Store] \in 0..MaxTime /\ 0 \in 0..MaxTime
      BY <1>1, <1>3, <2>1 DEF RowCells
    <2>3. QED BY <2>2 DEF HasRows
  <1>5. /\ stash \in [place : Rows \cup Nat, cells : RowCells \cup {Nothing}]
        /\ ~StoreIsRaw => stash.cells \in RowCells
    BY <1>1 DEF StoreIsRaw
  <1>6. r = [id |-> row, scope |-> Store, text |-> text, importance |-> importance, supersedes |-> older,
             created |-> created, updated |-> updated, stash |-> stash]
    BY DEF RowRecord
  <1> HIDE DEF cells, older, importance, created, updated, text, stash, r
  <1>7. /\ r.id = row /\ r.scope = Store /\ r.text = text /\ r.stash = stash BY <1>6
  <1>8. r \in Record BY <1>1, <1>2, <1>3, <1>4, <1>5, <1>6 DEF Record
  <1>9. RecordOK(r) BY <1>1, <1>5, <1>7, <1>8 DEF RecordOK
  <1>10. QED BY <1>7, <1>9 DEF r

\* The rows' records are well formed, each with an id of its own.
LEMMA RowRecordsFacts ==
  ASSUME MemoryOK
  PROVE  /\ Unique(RowRecords) /\ AllOK(RowRecords)
         /\ \A id \in Ids(RowRecords) : id \in Rows
  <1>1. CASE ~HasRows
    <2>1. RowRecords = <<>> BY <1>1 DEF RowRecords
    <2>2. Ids(<<>>) = {} /\ AllOK(<<>>) BY EmptyIsSeq DEF Ids, AllOK, ToSet
    <2>3. QED BY <2>1, <2>2, EmptyUnique
  <1>2. CASE HasRows
    <2> DEFINE rows == SetToSeq(Live)
               n == Len(rows)
               records == RowRecords
    <2>1. IsFiniteSet(Live) /\ Live \subseteq Rows BY ExtractionAssumption, FS_Subset DEF Live
    <2>2. /\ IsSeq(rows) /\ \A i \in DOMAIN rows : rows[i] \in Live
          /\ \A i, j \in DOMAIN rows : rows[i] = rows[j] => i = j
      BY <2>1, SetToSeqFacts
    <2>3. records = [i \in DOMAIN rows |-> RowRecord(rows[i])] BY <1>2 DEF RowRecords
    <2> HIDE DEF rows, records
    <2>4. n \in Nat /\ DOMAIN rows = 1..n BY <2>2, IsSeqFacts
    <2> HIDE DEF n
    <2>5. /\ DOMAIN records = 1..n /\ \A i \in 1..n : records[i] = RowRecord(rows[i])
          /\ records = [i \in DOMAIN records |-> records[i]]
      BY <2>3, <2>4
    <2>6. IsSeq(records) BY <2>4, <2>5, FunctionIsSeq
    <2>7. \A i \in 1..n : RecordOK(records[i]) /\ records[i].id = rows[i] /\ rows[i] \in Rows
      BY <1>2, <2>1, <2>2, <2>4, <2>5, RowRecordOK
    <2>8. Unique(records) BY <2>2, <2>4, <2>5, <2>6, <2>7 DEF Unique, Repeats
    <2>9. AllOK(records) BY <2>5, <2>7 DEF AllOK, ToSet
    <2>10. \A id \in Ids(records) : id \in Rows BY <2>5, <2>7 DEF Ids
    <2>11. QED BY <2>8, <2>9, <2>10 DEF records
  <1>3. QED BY <1>1, <1>2

\* An export's records are well formed, and no two share an id.
LEMMA ExtractedFacts ==
  ASSUME MemoryOK
  PROVE  Unique(Extracted) /\ AllOK(Extracted)
  <1> DEFINE names == SetToSeq(MemoryFiles)
             n == Len(names)
             parts == [i \in DOMAIN names |-> FileRecords(names[i])]
             flat == FlattenSeq(parts)
  <1>1. IsFiniteSet(MemoryFiles) /\ MemoryFiles \subseteq Files
    <2>1. MemoryFiles \subseteq Files BY ExtractionAssumption DEF MemoryFiles, MemoryOK
    <2>2. QED BY <2>1, ExtractionAssumption, FS_Subset
  <1>2. /\ IsSeq(names) /\ \A i \in DOMAIN names : names[i] \in MemoryFiles
        /\ \A i, j \in DOMAIN names : names[i] = names[j] => i = j
    BY <1>1, SetToSeqFacts
  <1> HIDE DEF names
  <1>3. n \in Nat /\ DOMAIN names = 1..n BY <1>2, IsSeqFacts
  <1> HIDE DEF n
  <1>4. /\ DOMAIN parts = 1..n /\ \A i \in 1..n : parts[i] = FileRecords(names[i])
        /\ parts = [i \in DOMAIN parts |-> parts[i]]
    BY <1>3
  <1> HIDE DEF parts
  <1>5. IsSeq(parts) BY <1>3, <1>4, FunctionIsSeq
  <1>6. \A i \in 1..n : /\ Unique(parts[i]) /\ AllOK(parts[i])
                        /\ \A id \in Ids(parts[i]) : id \in BirthIds /\ id.scope = names[i]
    BY <1>1, <1>2, <1>3, <1>4, FileRecordsFacts
  <1>7. \A j, k \in DOMAIN parts : j < k => Ids(parts[j]) \cap Ids(parts[k]) = {}
    <2> SUFFICES ASSUME NEW j \in 1..n, NEW k \in 1..n, j < k,
                        NEW id \in Ids(parts[j]), id \in Ids(parts[k])
                 PROVE  FALSE
      BY <1>4
    <2>1. names[j] = names[k] BY <1>6
    <2>2. j = k BY <1>2, <1>3, <2>1
    <2>3. QED BY <2>2
  <1>8. /\ Unique(flat)
        /\ ToSet(flat) = UNION {ToSet(parts[k]) : k \in DOMAIN parts}
    BY <1>4, <1>5, <1>6, <1>7, FlattenFacts
  <1>9. Extracted = flat \o RowRecords BY DEF Extracted, names, parts
  <1> HIDE DEF flat
  <1>10. AllOK(flat) /\ \A id \in Ids(flat) : id \in BirthIds
    <2>1. \A r \in ToSet(flat) : \E k \in 1..n : r \in ToSet(parts[k]) BY <1>4, <1>8
    <2>2. AllOK(flat) BY <1>6, <2>1 DEF AllOK
    <2>3. \A r \in ToSet(flat) : r.id \in BirthIds
      <3> TAKE r \in ToSet(flat)
      <3>1. PICK k \in 1..n : r \in ToSet(parts[k]) BY <2>1
      <3>2. r.id \in Ids(parts[k]) BY <3>1, IdsOfSet
      <3>3. QED BY <1>6, <3>2
    <2>4. QED BY <2>2, <2>3, IdsOfSet
  <1>11. Ids(flat) \cap Ids(RowRecords) = {}
    BY <1>10, RowRecordsFacts, ExtractionAssumption
  <1>12. Unique(RowRecords) /\ AllOK(RowRecords) /\ IsSeq(flat) /\ IsSeq(RowRecords)
    BY <1>8, RowRecordsFacts DEF Unique
  <1>13. Unique(Extracted) BY <1>8, <1>9, <1>11, <1>12, ConcatUnique
  <1>14. ToSet(Extracted) = ToSet(flat) \cup ToSet(RowRecords) BY <1>9, <1>12, ConcatFacts
  <1>15. QED BY <1>10, <1>12, <1>13, <1>14 DEF AllOK

-----------------------------------------------------------------------------
(***************************************************************************)
(* Archives of an agent                                                    *)
(***************************************************************************)
StoreOK(rows) == rows \in [Rows -> RowCells \cup {Nothing, Forgotten}]

RawOK(raw) ==
  /\ IsFunction(raw)
  /\ \A f \in Files : f \in DOMAIN raw => raw[f] \in Seq(Section)
  /\ StoreIsRaw => Store \in DOMAIN raw /\ StoreOK(raw[Store])

\* What is kept of an agent: an archive that validates, whose records and files
\* are such as an export makes.
Proper(a) ==
  /\ Sound(a, ReadAllMemory(a))
  /\ AllOK(ReadAllMemory(a))
  /\ RawOK(a.raw)

\* A sound archive of well-formed records and raw files is proper.
LEMMA SoundProper ==
  ASSUME NEW a, NEW records, AllOK(records), Sound(a, records), RawOK(a.raw)
  PROVE  Proper(a)
  <1>1. AllOK(ReadAllMemory(a)) BY DEF AllOK, Sound
  <1>2. Sound(a, ReadAllMemory(a)) BY DEF Sound
  <1>3. QED BY <1>1, <1>2 DEF Proper

\* Well-formed records have a date.
LEMMA Quarters ==
  ASSUME NEW records, AllOK(records)
  PROVE  MaxTime \in Nat /\ \A r \in ToSet(records) : Quarter(r) \in 1..MaxTime
  BY CurationAssumption DEF AllOK, RecordOK, Record, Quarter

\* The raw layer has the files as they are.
LEMMA RawFacts ==
  ASSUME MemoryOK
  PROVE  RawOK(Raw)
  <1> DEFINE present == {f \in MemoryFiles : files[f] # <<>>}
             told == {d \in Documents \ {Credentials} : docs[d] # Nothing}
             names == present \cup told \cup (IF StoreIsRaw THEN {Store} ELSE {})
             value(x) == IF x \in present THEN files[x] ELSE IF x \in told THEN docs[x] ELSE store
  <1>1. Raw = [x \in names |-> value(x)] BY DEF Raw
  <1>2. /\ \A f \in Files : f \in names => f \in present
        /\ Store \notin present /\ Store \notin told
        /\ StoreIsRaw => Store \in names
        /\ present \subseteq Files
    <2>1. MemoryFiles \subseteq Files BY ExtractionAssumption DEF MemoryFiles, MemoryOK
    <2>2. QED BY <2>1, ExtractionAssumption
  <1>3. \A f \in present : value(f) \in Seq(Section) BY <1>2 DEF MemoryOK
  <1>4. StoreOK(value(Store)) BY <1>2 DEF MemoryOK, StoreOK
  <1> HIDE DEF value, names
  <1>5. DOMAIN Raw = names /\ \A x \in names : Raw[x] = value(x) BY <1>1
  <1>6. IsFunction(Raw) BY <1>1, <1>5 DEF IsFunction
  <1>7. QED BY <1>2, <1>3, <1>4, <1>5, <1>6 DEF RawOK

\* An export is proper.
LEMMA ExportFacts ==
  ASSUME MemoryOK
  PROVE  Proper(Export) /\ Export.refused = FALSE /\ Export.raw = Raw
  <1>1. Unique(Extracted) /\ AllOK(Extracted) BY ExtractedFacts
  <1>2. MaxTime \in Nat /\ \A r \in ToSet(Extracted) : Quarter(r) \in 1..MaxTime BY <1>1, Quarters
  <1>3. Sound(Export, Extracted) /\ Export.raw = Raw BY <1>1, <1>2, ExportSound DEF Export
  <1>4. RawOK(Export.raw) BY <1>3, RawFacts
  <1>5. Export.refused = FALSE BY <1>3 DEF Sound
  <1>6. QED BY <1>1, <1>3, <1>4, <1>5, SoundProper

\* Reconciling one proper archive with another.
LEMMA ReconcileProper ==
  ASSUME NEW prev, Proper(prev), NEW curr, Proper(curr)
  PROVE  \E pairs, taken :
           LET old == ReadAllMemory(prev)
               new == ReadAllMemory(curr)
               result == Reconcile(old, new)
           IN /\ Reconciled(old, new, result, pairs, taken) /\ SlotsMeet(old, new, pairs)
              /\ Unique(result) /\ AllOK(result) /\ DOMAIN result = DOMAIN new
              /\ \A c \in DOMAIN new : result[c].scope = new[c].scope /\ result[c].text = new[c].text
              /\ \A a \in pairs : /\ result[a[2]].id = old[a[1]].id
                                  /\ result[a[2]].created = old[a[1]].created
              /\ \A c \in DOMAIN new : ~Paired(pairs, c) => result[c].id \notin Ids(old)
  <1> DEFINE old == ReadAllMemory(prev)
             new == ReadAllMemory(curr)
  <1>1. Unique(old) /\ AllOK(old) /\ Unique(new) /\ AllOK(new) BY DEF Proper, Sound
  <1> HIDE DEF old, new
  <1>2. IsSeq(old) /\ IsSeq(new) BY <1>1 DEF Unique
  <1>3. SameScope(old, new) BY <1>1, AllSameScope
  <1> DEFINE result == Reconcile(old, new)
  <1>4. PICK pairs, taken : Reconciled(old, new, result, pairs, taken) /\ SlotsMeet(old, new, pairs)
    BY <1>2, <1>3, ReconcileFacts
  <1> HIDE DEF result
  <1>5. /\ Unique(result) /\ AllOK(result) /\ DOMAIN result = DOMAIN new
        /\ \A c \in DOMAIN new : result[c].scope = new[c].scope /\ result[c].text = new[c].text
        /\ \A a \in pairs : /\ result[a[2]].id = old[a[1]].id
                            /\ result[a[2]].created = old[a[1]].created
        /\ \A c \in DOMAIN new : ~Paired(pairs, c) => result[c].id \notin Ids(old)
    BY <1>1, <1>2, <1>4, ReconciledFacts
  <1>6. QED BY <1>4, <1>5 DEF result, old, new

\* The archive a sync takes has the reconciled records.
LEMMA EffectiveFacts ==
  ASSUME MemoryOK, Proper(base)
  PROVE  /\ Proper(Effective) /\ Effective.refused = FALSE
         /\ ToSet(ReadAllMemory(Effective)) = ToSet(Reconcile(ReadAllMemory(base), ReadAllMemory(Export)))
  <1> DEFINE exported == ReadAllMemory(Export)
             records == Reconcile(ReadAllMemory(base), exported)
             e == Effective
  <1>1. Proper(Export) /\ Export.refused = FALSE /\ RawOK(Export.raw)
    BY ExportFacts DEF Proper
  <1>2. Unique(records) /\ AllOK(records) BY <1>1, ReconcileProper
  <1>3. e = IF records = exported THEN Export
            ELSE WriteArchive(RebuiltPartitions(records, now), Export.raw, Export.docs)
    BY DEF Effective, ReplaceMemoryRecords
  <1> HIDE DEF records, e
  <1>4. CASE records = exported BY <1>1, <1>3, <1>4 DEF e, records
  <1>5. CASE records # exported
    <2>1. MaxTime \in Nat /\ \A r \in ToSet(records) : Quarter(r) \in 1..MaxTime BY <1>2, Quarters
    <2>2. Sound(e, records) /\ e.raw = Export.raw BY <1>2, <1>3, <1>5, <2>1, RebuildSound
    <2>3. Proper(e) BY <1>1, <1>2, <2>2, SoundProper
    <2>4. e.refused = FALSE /\ ToSet(ReadAllMemory(e)) = ToSet(records) BY <2>2 DEF Sound
    <2>5. QED BY <2>3, <2>4 DEF e, records
  <1>6. QED BY <1>4, <1>5

\* What the cloud holds of an archive.
Holds(a) == LayersAgree(Replayed(cloud.snapshot, cloud.deltas), a)

\* What is rebuilt has the records of the base, and can be its successor.
LEMMA RebuiltFacts ==
  ASSUME Proper(base), Holds(base)
  PROVE  Proper(Rebuilt) /\ Holds(Rebuilt) /\ Agree(Rebuilt, base)
  <1> DEFINE layers == Replayed(cloud.snapshot, cloud.deltas)
             a == Rebuilt
  <1>1. /\ Unique(layers.records) /\ ToSet(layers.records) = ToSet(ReadAllMemory(base))
        /\ layers.raw = base.raw /\ DocsAgree(layers.docs, base.docs)
    BY DEF Holds, LayersAgree
  <1>2. a = WriteArchive(RebuiltPartitions(layers.records, now), layers.raw, layers.docs)
    BY DEF Rebuilt, Rebuild
  <1> HIDE DEF layers, a
  <1>3. AllOK(layers.records) BY <1>1 DEF Proper, AllOK
  <1>4. MaxTime \in Nat /\ \A r \in ToSet(layers.records) : Quarter(r) \in 1..MaxTime BY <1>3, Quarters
  <1>5. Sound(a, layers.records) /\ a.raw = layers.raw /\ a.docs = layers.docs
    BY <1>1, <1>2, <1>4, RebuildSound
  <1>6. RawOK(a.raw) BY <1>1, <1>5 DEF Proper
  <1>7. Proper(a) BY <1>3, <1>5, <1>6, SoundProper
  <1>8. ToSet(ReadAllMemory(a)) = ToSet(layers.records) BY <1>5 DEF Sound
  <1>9. LayersAgree(layers, a) BY <1>1, <1>5, <1>8 DEF LayersAgree, DocsAgree
  <1>10. Agree(a, base) BY <1>1, <1>5, <1>8 DEF Agree, DocsAgree
  <1>11. QED BY <1>7, <1>9, <1>10 DEF Holds, layers, a

-----------------------------------------------------------------------------
(***************************************************************************)
(* Restores and edits                                                      *)
(***************************************************************************)
LEMMA MinIn ==
  ASSUME NEW S, S \subseteq Nat, S # {}
  PROVE  Min(S) \in S /\ \A y \in S : Min(S) <= y
  <1>1. \E x \in S : \A y \in S : x <= y BY LeastOf
  <1>2. QED BY <1>1 DEF Min

\* Restored files are sections again.
LEMMA RestoredFilesOK ==
  ASSUME MemoryOK, NEW raw, RawOK(raw)
  PROVE  RestoredFiles(raw) \in [Files -> Seq(Section)]
  <1>1. Unpacked(raw) \subseteq DOMAIN raw BY DEF Unpacked
  <1>2. \A f \in Files : (IF f \in Unpacked(raw) THEN raw[f] ELSE files[f]) \in Seq(Section)
    BY <1>1 DEF RawOK, MemoryOK
  <1>3. QED BY <1>2 DEF RestoredFiles

\* A record of a row gives the row's cells back.
LEMMA NativeRowOK ==
  ASSUME NEW r, RecordOK(r), r.scope = Store, ~StoreIsRaw
  PROVE  NativeRow(r) \in RowCells /\ r.stash.cells \in RowCells
  <1> DEFINE cells == r.stash.cells
             link == IF cells.link = Nothing THEN r.supersedes ELSE cells.link
  <1>1. cells \in RowCells BY DEF RecordOK
  <1>2. r.text.body \in Bodies \cup {NoBody} /\ r.supersedes \in Rows \cup {Nothing}
    BY DEF RecordOK, Record, Section
  <1>3. NativeRow(r) = [cells EXCEPT !.body = r.text.body, !.link = link] BY DEF NativeRow
  <1>4. link \in Rows \cup {Nothing} BY <1>1, <1>2 DEF RowCells
  <1> HIDE DEF cells, link
  <1>5. NativeRow(r) = [body |-> r.text.body, importance |-> cells.importance, link |-> link,
                        created |-> cells.created, updated |-> cells.updated]
    BY <1>1, <1>3 DEF RowCells
  <1>6. NativeRow(r) \in RowCells BY <1>1, <1>2, <1>4, <1>5 DEF RowCells
  <1>7. QED BY <1>1, <1>6 DEF cells

\* A restored store has rows again.
LEMMA RestoredStoreOK ==
  ASSUME MemoryOK, NEW a, Proper(a)
  PROVE  StoreOK(RestoredStore(a))
  <1> DEFINE records == ReadAllMemory(a)
             at == {i \in DOMAIN records : records[i].scope = Store}
             rows == RowsOf(a)
             first == SubSeq(rows, 1, Clash(rows) - 1)
  <1>1. IsSeq(records) /\ AllOK(records) BY DEF Proper, Sound, Unique
  <1>2. IsSeq(rows) /\ \A r \in ToSet(rows) : RecordOK(r) /\ r.scope = Store
    <2>1. rows = Keep(records, at) BY DEF RowsOf
    <2>2. IsSeq(rows) /\ ToSet(rows) = {records[i] : i \in at \cap DOMAIN records} BY <1>1, <2>1, KeepFacts
    <2>3. QED BY <1>1, <2>2 DEF AllOK, ToSet
  <1> HIDE DEF rows, records
  <1>3. \A r \in ToSet(first) : r \in ToSet(rows)
    <2> DEFINE n == Len(rows)
               S == {i \in 1..n : \E j \in 1..(i - 1) : rows[j].stash.place = rows[i].stash.place}
                    \cup {n + 1}
               m == Clash(rows) - 1
    <2>1. n \in Nat /\ DOMAIN rows = 1..n /\ \A k \in 1..n : rows[k] \in ToSet(rows) BY <1>2, IsSeqFacts
    <2>2. S \subseteq Nat /\ S # {} /\ Clash(rows) = Min(S) BY <2>1 DEF Clash
    <2>3. Clash(rows) \in S BY <2>2, MinIn
    <2>4. \A x \in S : x \in 1..(n + 1) BY <2>1
    <2>5. m \in Int /\ 1 \in Int /\ \A i \in 1..m : rows[i] \in ToSet(rows) BY <2>1, <2>3, <2>4
    <2> HIDE DEF m
    <2>6. SubSeq(rows, 1, m) \in Seq(ToSet(rows)) BY <2>5, SubSeqProperties
    <2>7. QED BY <2>6, SeqIsSeq DEF m
  <1> HIDE DEF first
  <1>4. \A row \in Rows : store[row] \in RowCells \cup {Nothing, Forgotten} BY DEF MemoryOK
  <1>5. CASE runtime = "zeroclaw"
    <2>1. RestoredStore(a)
            = [row \in Rows |->
                 IF \E i \in DOMAIN rows : rows[i].stash.place = row
                 THEN NativeRow(CHOOSE r \in ToSet(rows) : r.stash.place = row)
                 ELSE IF store[row] = Nothing THEN Nothing ELSE Forgotten]
      BY <1>5 DEF RestoredStore, Inserted, rows
    <2>2. \A r \in ToSet(rows) : NativeRow(r) \in RowCells BY <1>2, <1>5, NativeRowOK DEF StoreIsRaw
    <2>3. ASSUME NEW row \in Rows, \E i \in DOMAIN rows : rows[i].stash.place = row
          PROVE  NativeRow(CHOOSE r \in ToSet(rows) : r.stash.place = row) \in RowCells
      <3> DEFINE r == CHOOSE r \in ToSet(rows) : r.stash.place = row
      <3>1. r \in ToSet(rows) BY <2>3 DEF ToSet
      <3> HIDE DEF r
      <3>2. NativeRow(r) \in RowCells BY <2>2, <3>1
      <3>3. QED BY <3>2 DEF r
    <2>4. QED BY <2>1, <2>3 DEF StoreOK
  <1>6. CASE runtime = "hermes" /\ rows # <<>>
    <2>1. RestoredStore(a)
            = [row \in Rows |->
                 IF \E i \in DOMAIN first : first[i].stash.place = row
                 THEN (CHOOSE r \in ToSet(first) : r.stash.place = row).stash.cells
                 ELSE IF store[row] = Nothing THEN Nothing ELSE Forgotten]
      BY <1>6 DEF RestoredStore, Inserted, rows, first
    <2>2. \A r \in ToSet(first) : r.stash.cells \in RowCells
      BY <1>2, <1>3, <1>6, NativeRowOK DEF StoreIsRaw
    <2>3. ASSUME NEW row \in Rows, \E i \in DOMAIN first : first[i].stash.place = row
          PROVE  (CHOOSE r \in ToSet(first) : r.stash.place = row).stash.cells \in RowCells
      <3> DEFINE r == CHOOSE r \in ToSet(first) : r.stash.place = row
      <3>1. r \in ToSet(first) BY <2>3 DEF ToSet
      <3> HIDE DEF r
      <3>2. r.stash.cells \in RowCells BY <2>2, <3>1
      <3>3. QED BY <3>2 DEF r
    <2>4. QED BY <2>1, <2>3 DEF StoreOK
  <1>7. CASE runtime = "generic"
    <2>1. RestoredStore(a) = a.raw[Store] BY <1>7 DEF RestoredStore
    <2>2. QED BY <1>7, <2>1 DEF Proper, RawOK, StoreIsRaw
  <1>8. CASE runtime \notin {"zeroclaw", "generic"} /\ ~(runtime = "hermes" /\ rows # <<>>)
    <2>1. RestoredStore(a) = store BY <1>8 DEF RestoredStore, rows
    <2>2. QED BY <2>1 DEF MemoryOK, StoreOK
  <1>9. QED BY <1>5, <1>6, <1>7, <1>8

-----------------------------------------------------------------------------
(***************************************************************************)
(* The inductive invariant                                                 *)
(***************************************************************************)
\* Of an agent that has synced, the base is proper and the cloud holds it.
Held ==
  base # Nothing \/ cloud # Nothing =>
    /\ Proper(base) /\ Holds(base)
    /\ cloud = [snapshot |-> cloud.snapshot, deltas |-> cloud.deltas] /\ IsSeq(cloud.deltas)

CurationInv ==
  /\ MemoryOK
  /\ now \in 1..MaxTime /\ syncs \in Nat
  /\ refused = FALSE
  /\ Held

\* What is held stays held while base and cloud stay.
LEMMA HeldSame ==
  ASSUME Held, runtime' = runtime, base' = base, cloud' = cloud
  PROVE  Held'
  BY DEF Held, Proper, AllOK, RecordOK, HasRows, RawOK, StoreIsRaw, Holds

\* A proper archive is a proper base.
LEMMA ProperSame ==
  ASSUME NEW a, Proper(a), runtime' = runtime, base' = a
  PROVE  Proper(base)'
  BY DEF Proper, AllOK, RecordOK, HasRows, RawOK, StoreIsRaw

\* The invariant holds at first.
LEMMA InitInv ==
  ASSUME Init
  PROVE  CurationInv
  <1>1. MaxTime \in Nat /\ 1 \in 1..MaxTime BY CurationAssumption
  <1>2. files \in [Files -> Seq(Section)]
    <2>1. PICK one \in [heading : Headings, body : Bodies], two \in [heading : Headings, body : Bodies] :
            \E sections \in {<<>>, <<one, two>>} :
              files = [f \in Files |-> IF f \in MemoryFiles \ Whole THEN sections ELSE <<>>]
      BY DEF Init
    <2>2. PICK sections \in {<<>>, <<one, two>>} :
            files = [f \in Files |-> IF f \in MemoryFiles \ Whole THEN sections ELSE <<>>]
      BY <2>1
    <2>3. one \in Section /\ two \in Section BY DEF Section
    <2>4. <<one, two>> \in Seq(Section) BY <2>3
    <2>5. <<>> \in Seq(Section) BY EmptySeq
    <2>6. sections \in Seq(Section) BY <2>4, <2>5
    <2> HIDE DEF Section
    <2>7. QED BY <2>2, <2>5, <2>6
  <1>3. MemoryOK BY <1>1, <1>2 DEF Init, MemoryOK
  <1>4. QED BY <1>1, <1>3 DEF Init, CurationInv, Held

\* An edit leaves what was synced alone.
LEMMA DidInv ==
  ASSUME CurationInv, NEW what, Did(what), MemoryOK'
  PROVE  CurationInv'
  <1>1. /\ runtime' = runtime /\ now' = now /\ base' = base /\ cloud' = cloud
        /\ refused' = refused /\ syncs' = syncs
    BY DEF Did
  <1>2. Held' BY <1>1, HeldSame DEF CurationInv
  <1>3. QED BY <1>1, <1>2 DEF CurationInv

Writes(f, sections) == \E what : Write(f, sections, what)

\* Writing sections to a file.
LEMMA WriteInv ==
  ASSUME CurationInv, NEW f \in Files, NEW sections \in Seq(Section), Writes(f, sections)
  PROVE  CurationInv'
  <1>1. PICK what : Write(f, sections, what) BY DEF Writes
  <1>2. MemoryOK' BY <1>1 DEF Write, Did, MemoryOK, CurationInv
  <1>3. QED BY <1>1, <1>2, DidInv DEF Write

\* Writing cells to a row.
LEMMA WriteStoreInv ==
  ASSUME CurationInv, NEW row \in Rows, NEW cells \in RowCells \cup {Nothing, Forgotten}, NEW what,
         WriteStore(row, cells, what)
  PROVE  CurationInv'
  <1>1. MemoryOK' BY DEF WriteStore, Did, MemoryOK, CurationInv
  <1>2. QED BY <1>1, DidInv DEF WriteStore

\* Each edit writes sections.
LEMMA EditBodyInv ==
  ASSUME CurationInv, EditBody
  PROVE  CurationInv'
  <1>1. PICK f \in Files :
          \E i \in DOMAIN files[f], body \in Bodies \cup {NoBody} :
            Writes(f, [files[f] EXCEPT ![i] = [files[f][i] EXCEPT !.body = body]])
    BY DEF EditBody, Writes
  <1>2. PICK i \in DOMAIN files[f], body \in Bodies \cup {NoBody} :
          Writes(f, [files[f] EXCEPT ![i] = [files[f][i] EXCEPT !.body = body]])
    BY <1>1
  <1>3. files[f] \in Seq(Section) BY DEF CurationInv, MemoryOK
  <1>4. i \in 1..Len(files[f]) /\ files[f][i] \in Section BY <1>3, SeqIsSeq
  <1>5. [files[f][i] EXCEPT !.body = body] \in Section BY <1>4 DEF Section
  <1>6. [files[f] EXCEPT ![i] = [files[f][i] EXCEPT !.body = body]] \in Seq(Section)
    BY <1>3, <1>4, <1>5, ExceptSeq
  <1>7. QED BY <1>2, <1>6, WriteInv

\* A new heading is a section still.
LEMMA RetitleInv ==
  ASSUME CurationInv, Retitle
  PROVE  CurationInv'
  <1>1. PICK f \in Files :
          \E i \in DOMAIN files[f], heading \in Headings \cup {NoHeading} :
            Writes(f, [files[f] EXCEPT ![i] = [files[f][i] EXCEPT !.heading = heading]])
    BY DEF Retitle, Writes
  <1>2. PICK i \in DOMAIN files[f], heading \in Headings \cup {NoHeading} :
          Writes(f, [files[f] EXCEPT ![i] = [files[f][i] EXCEPT !.heading = heading]])
    BY <1>1
  <1>3. files[f] \in Seq(Section) BY DEF CurationInv, MemoryOK
  <1>4. i \in 1..Len(files[f]) /\ files[f][i] \in Section BY <1>3, SeqIsSeq
  <1>5. [files[f][i] EXCEPT !.heading = heading] \in Section BY <1>4 DEF Section
  <1>6. [files[f] EXCEPT ![i] = [files[f][i] EXCEPT !.heading = heading]] \in Seq(Section)
    BY <1>3, <1>4, <1>5, ExceptSeq
  <1>7. QED BY <1>2, <1>6, WriteInv

\* What is cut out of a sequence is of the same things.
LEMMA CutFacts ==
  ASSUME NEW S, NEW seq \in Seq(S), NEW i \in 1..(Len(seq) + 1), NEW e \in S
  PROVE  InsertAt(seq, i, e) \in Seq(S) /\ RemoveAt(seq, i) \in Seq(S)
  <1>1. Len(seq) \in Nat /\ i \in Int /\ i - 1 \in Int /\ i + 1 \in Int /\ 1 \in Int /\ Len(seq) \in Int
    BY SeqIsSeq
  <1>2. \A k \in 1..Len(seq) : seq[k] \in S BY SeqIsSeq
  <1>3. /\ \A k \in 1..(i - 1) : seq[k] \in S
        /\ \A k \in i..Len(seq) : seq[k] \in S
        /\ \A k \in (i + 1)..Len(seq) : seq[k] \in S
    BY <1>1, <1>2
  <1>4. /\ SubSeq(seq, 1, i - 1) \in Seq(S) /\ SubSeq(seq, i, Len(seq)) \in Seq(S)
        /\ SubSeq(seq, i + 1, Len(seq)) \in Seq(S)
    BY <1>1, <1>3, SubSeqProperties
  <1>5. <<e>> \in Seq(S) OBVIOUS
  <1>6. SubSeq(seq, 1, i - 1) \o <<e>> \in Seq(S) BY <1>4, <1>5, ConcatProperties
  <1>7. (SubSeq(seq, 1, i - 1) \o <<e>>) \o SubSeq(seq, i, Len(seq)) \in Seq(S)
    BY <1>4, <1>6, ConcatProperties
  <1>8. SubSeq(seq, 1, i - 1) \o SubSeq(seq, i + 1, Len(seq)) \in Seq(S)
    BY <1>4, ConcatProperties
  <1>9. QED BY <1>7, <1>8 DEF InsertAt, RemoveAt

\* A section more.
LEMMA InsertSectionInv ==
  ASSUME CurationInv, InsertSection
  PROVE  CurationInv'
  <1>1. PICK f \in Files :
          \E body \in Bodies, heading \in Headings \cup {NoHeading}, i \in 1..(Len(files[f]) + 1) :
            Writes(f, InsertAt(files[f], i, [heading |-> heading, body |-> body]))
    BY DEF InsertSection, Writes
  <1>2. PICK body \in Bodies, heading \in Headings \cup {NoHeading}, i \in 1..(Len(files[f]) + 1) :
          Writes(f, InsertAt(files[f], i, [heading |-> heading, body |-> body]))
    BY <1>1
  <1>3. files[f] \in Seq(Section) BY DEF CurationInv, MemoryOK
  <1>4. [heading |-> heading, body |-> body] \in Section BY DEF Section
  <1>5. InsertAt(files[f], i, [heading |-> heading, body |-> body]) \in Seq(Section)
    BY <1>3, <1>4, CutFacts
  <1>6. QED BY <1>2, <1>5, WriteInv

\* A section less.
LEMMA RemoveSectionInv ==
  ASSUME CurationInv, RemoveSection
  PROVE  CurationInv'
  <1>1. PICK f \in Files :
          \E i \in DOMAIN files[f] :
            Writes(f, RemoveAt(files[f], i))
    BY DEF RemoveSection, Writes
  <1>2. PICK i \in DOMAIN files[f] :
          Writes(f, RemoveAt(files[f], i))
    BY <1>1
  <1>3. files[f] \in Seq(Section) BY DEF CurationInv, MemoryOK
  <1>4. /\ Len(files[f]) \in Nat /\ i \in 1..Len(files[f]) /\ i \in 1..(Len(files[f]) + 1)
        /\ files[f][i] \in Section
    BY <1>3, SeqIsSeq
  <1>5. RemoveAt(files[f], i) \in Seq(Section) BY <1>3, <1>4, CutFacts
  <1>6. QED BY <1>2, <1>5, WriteInv

\* Sections in another order.
LEMMA ReorderInv ==
  ASSUME CurationInv, Reorder
  PROVE  CurationInv'
  <1>1. PICK f \in Files :
          \E i \in DOMAIN files[f], j \in DOMAIN files[f] :
            Writes(f, [files[f] EXCEPT ![i] = files[f][j], ![j] = files[f][i]])
    BY DEF Reorder, Writes
  <1>2. PICK i \in DOMAIN files[f], j \in DOMAIN files[f] :
          Writes(f, [files[f] EXCEPT ![i] = files[f][j], ![j] = files[f][i]])
    BY <1>1
  <1> DEFINE seq == files[f]
             half == [seq EXCEPT ![i] = seq[j]]
  <1>3. seq \in Seq(Section) BY DEF CurationInv, MemoryOK
  <1>4. /\ i \in 1..Len(seq) /\ j \in 1..Len(seq) /\ seq[i] \in Section /\ seq[j] \in Section
    BY <1>3, SeqIsSeq
  <1>5. half \in Seq(Section) /\ Len(half) = Len(seq) BY <1>3, <1>4, ExceptSeq
  <1>6. [seq EXCEPT ![i] = seq[j], ![j] = seq[i]] = [half EXCEPT ![j] = seq[i]] OBVIOUS
  <1> HIDE DEF half
  <1>7. [half EXCEPT ![j] = seq[i]] \in Seq(Section) BY <1>4, <1>5, ExceptSeq
  <1>8. QED BY <1>2, <1>6, <1>7, WriteInv

\* The same sections again.
LEMMA TouchInv ==
  ASSUME CurationInv, Touch
  PROVE  CurationInv'
  <1>1. PICK f \in Files :
          Writes(f, files[f]) BY DEF Touch, Writes
  <1>2. files[f] \in Seq(Section) BY DEF CurationInv, MemoryOK
  <1>3. QED BY <1>1, <1>2, WriteInv

\* A new row has cells.
LEMMA AddRowInv ==
  ASSUME CurationInv, AddRow
  PROVE  CurationInv'
  <1>1. PICK row \in Rows, body \in Bodies \cup {NoBody} :
          WriteStore(row, [body |-> body, importance |-> 0, link |-> Nothing, created |-> now, updated |-> now],
                     "insert")
    BY DEF AddRow
  <1>2. now \in 1..MaxTime BY DEF CurationInv
  <1>3. [body |-> body, importance |-> 0, link |-> Nothing, created |-> now, updated |-> now] \in RowCells
    BY <1>2 DEF RowCells
  <1>4. QED BY <1>1, <1>3, WriteStoreInv

\* An edited row has cells.
LEMMA EditRowInv ==
  ASSUME CurationInv, EditRow
  PROVE  CurationInv'
  <1>1. PICK row \in Live : \E body \in Bodies, importance \in 0..1 : \E what :
          WriteStore(row, [store[row] EXCEPT !.body = body, !.importance = importance, !.updated = now], what)
    BY DEF EditRow
  <1>2. PICK body \in Bodies, importance \in 0..1 : \E what :
          WriteStore(row, [store[row] EXCEPT !.body = body, !.importance = importance, !.updated = now], what)
    BY <1>1
  <1>3. PICK what :
          WriteStore(row, [store[row] EXCEPT !.body = body, !.importance = importance, !.updated = now], what)
    BY <1>2
  <1>4. now \in 1..MaxTime /\ row \in Rows /\ store[row] \in RowCells
    BY DEF CurationInv, MemoryOK, Live
  <1>5. [store[row] EXCEPT !.body = body, !.importance = importance, !.updated = now] \in RowCells
    BY <1>4 DEF RowCells
  <1>6. QED BY <1>3, <1>4, <1>5, WriteStoreInv

\* A row that was replaced has a link.
LEMMA SupersedeInv ==
  ASSUME CurationInv, Supersede
  PROVE  CurationInv'
  <1>1. PICK old \in Live, row \in Live : WriteStore(old, [store[old] EXCEPT !.link = row], "other")
    BY DEF Supersede
  <1>2. old \in Rows /\ row \in Rows /\ store[old] \in RowCells BY DEF CurationInv, MemoryOK, Live
  <1>3. [store[old] EXCEPT !.link = row] \in RowCells BY <1>2 DEF RowCells
  <1>4. QED BY <1>1, <1>2, <1>3, WriteStoreInv

\* A row that was deleted.
LEMMA ForgetRowInv ==
  ASSUME CurationInv, ForgetRow
  PROVE  CurationInv'
  <1>1. PICK row \in Live : WriteStore(row, Forgotten, "remove") BY DEF ForgetRow
  <1>2. row \in Rows BY DEF Live
  <1>3. QED BY <1>1, <1>2, WriteStoreInv

\* Documents are no part of the memory.
LEMMA WriteDocumentInv ==
  ASSUME CurationInv, WriteDocument
  PROVE  CurationInv'
  <1>1. Did("other") /\ UNCHANGED <<files, mtime, store>> BY DEF WriteDocument
  <1>2. MemoryOK' BY <1>1 DEF Did, MemoryOK, CurationInv
  <1>3. QED BY <1>1, <1>2, DidInv

\* Time passes.
LEMMA TickInv ==
  ASSUME CurationInv, Tick
  PROVE  CurationInv'
  <1>1. /\ runtime' = runtime /\ files' = files /\ mtime' = mtime /\ store' = store
        /\ base' = base /\ cloud' = cloud /\ refused' = refused /\ syncs' = syncs
        /\ now' = now + 1 /\ now < MaxTime
    BY DEF Tick, workspace
  <1>2. MemoryOK' BY <1>1 DEF MemoryOK, CurationInv
  <1>3. now' \in 1..MaxTime BY <1>1, CurationAssumption DEF CurationInv
  <1>4. Held' BY <1>1, HeldSame DEF CurationInv
  <1>5. QED BY <1>1, <1>2, <1>3, <1>4 DEF CurationInv

-----------------------------------------------------------------------------
(***************************************************************************)
(* Syncs and restores                                                      *)
(***************************************************************************)
\* A step that leaves the agent's memory and the clock where they are.
LEMMA SyncedInv ==
  ASSUME CurationInv, UNCHANGED <<runtime, workspace, now, refused>>, syncs' \in Nat, Held'
  PROVE  CurationInv'
  <1>1. MemoryOK' BY DEF MemoryOK, CurationInv, workspace
  <1>2. QED BY <1>1 DEF CurationInv

\* The first sync is not refused, and its snapshot is the base.
LEMMA FirstSyncInv ==
  ASSUME CurationInv, FirstSync
  PROVE  CurationInv' /\ ~Fail
  <1>1. Proper(Export) /\ Export.refused = FALSE BY ExportFacts DEF CurationInv
  <1>2. cloud' = [snapshot |-> Export, deltas |-> <<>>] /\ Finish(Export) BY <1>1 DEF FirstSync
  <1>3. PICK e : e = Export OBVIOUS
  <1>4. /\ Proper(e) /\ base' = e /\ cloud' = [snapshot |-> e, deltas |-> <<>>]
        /\ runtime' = runtime
    BY <1>1, <1>2, <1>3 DEF Finish
  <1>5. Proper(base)' BY <1>4, ProperSame
  <1>6. cloud'.snapshot = e /\ cloud'.deltas = <<>> BY <1>4
  <1>7. Replayed(cloud'.snapshot, cloud'.deltas) = LayersOf(e) BY <1>6, ReplayedNone
  <1>8. LayersAgree(LayersOf(e), e)
    BY <1>4 DEF Proper, Sound, LayersAgree, LayersOf, DocsAgree
  <1>9. Holds(base)' BY <1>4, <1>7, <1>8 DEF Holds
  <1>10. IsSeq(cloud'.deltas) BY <1>6, EmptyIsSeq
  <1>11. Held' BY <1>4, <1>5, <1>6, <1>9, <1>10 DEF Held
  <1>12. /\ UNCHANGED <<runtime, workspace, now, refused>> /\ syncs' \in Nat
    BY <1>2 DEF Finish, CurationInv
  <1>13. CurationInv' BY <1>11, <1>12, SyncedInv
  <1>14. ~Fail BY <1>12 DEF Fail, CurationInv
  <1>15. QED BY <1>13, <1>14

\* A sync is not refused, and one delta more is one step more for base and cloud.
LEMMA SyncInv ==
  ASSUME CurationInv, Sync
  PROVE  CurationInv'
  <1>1. /\ Proper(base) /\ IsSeq(cloud.deltas) /\ Holds(base) /\ base # Nothing
        /\ cloud = [snapshot |-> cloud.snapshot, deltas |-> cloud.deltas]
    BY DEF Sync, CurationInv, Held
  <1>2. MemoryOK /\ Held BY DEF CurationInv
  <1>3. Proper(Effective) /\ Effective.refused = FALSE BY <1>1, <1>2, EffectiveFacts
  <1>4. Export.refused = FALSE BY <1>2, ExportFacts
  <1>5. PICK e : e = Effective OBVIOUS
  <1>6. Proper(e) BY <1>3, <1>5
  <1>7. \/ Finish(base) /\ cloud' = cloud
        \/ cloud' = [cloud EXCEPT !.deltas = Append(@, WriteDelta(base, e))] /\ Finish(e)
    BY <1>3, <1>4, <1>5 DEF Sync
  <1>8. UNCHANGED <<runtime, workspace, now, refused>> /\ syncs' \in Nat /\ runtime' = runtime
    BY <1>7 DEF Finish, CurationInv
  <1>9. CASE Finish(base) /\ cloud' = cloud
    <2>1. base' = base /\ cloud' = cloud BY <1>9 DEF Finish
    <2>2. Held' BY <1>2, <1>8, <2>1, HeldSame
    <2>3. QED BY <1>8, <2>2, SyncedInv
  <1>10. CASE cloud' = [cloud EXCEPT !.deltas = Append(@, WriteDelta(base, e))] /\ Finish(e)
    <2> DEFINE delta == WriteDelta(base, e)
    <2>1. base' = e BY <1>10 DEF Finish
    <2>2. cloud = [snapshot |-> cloud.snapshot, deltas |-> cloud.deltas] BY <1>1
    <2> HIDE DEF delta
    <2>3. cloud' = [snapshot |-> cloud.snapshot, deltas |-> Append(cloud.deltas, delta)]
      BY <1>10, <2>2 DEF delta
    <2>4. cloud'.snapshot = cloud.snapshot /\ cloud'.deltas = Append(cloud.deltas, delta) BY <2>3
    <2>5. Proper(base)' BY <1>6, <1>8, <2>1, ProperSame
    <2>6. IsSeq(cloud'.deltas) BY <1>1, <2>4, AppendFacts
    <2>7. Replayed(cloud'.snapshot, cloud'.deltas) = Replay(Replayed(cloud.snapshot, cloud.deltas), delta)
      BY <1>1, <2>4, ReplayedMore
    <2>8. /\ Unique(ReadAllMemory(base)) /\ Unique(ReadAllMemory(e)) /\ IsFunction(e.raw)
          /\ LayersAgree(Replayed(cloud.snapshot, cloud.deltas), base)
      BY <1>1, <1>6 DEF Proper, Sound, RawOK, Holds
    <2>9. LayersAgree(Replay(Replayed(cloud.snapshot, cloud.deltas), delta), e) BY <2>8, ReplayAgrees DEF delta
    <2>10. Holds(base)' BY <2>1, <2>7, <2>9 DEF Holds
    <2>11. Held' BY <2>3, <2>5, <2>6, <2>10, <2>4 DEF Held
    <2>12. QED BY <1>8, <2>11, SyncedInv
  <1>11. QED BY <1>7, <1>9, <1>10

\* A restore puts back files and rows, and what it rebuilt can be the next base.
LEMMA RestoreInv ==
  ASSUME CurationInv, Restore
  PROVE  CurationInv'
  <1>1. /\ Proper(base) /\ IsSeq(cloud.deltas) /\ Holds(base)
        /\ cloud = [snapshot |-> cloud.snapshot, deltas |-> cloud.deltas]
    BY DEF Restore, CurationInv, Held
  <1>2. MemoryOK /\ Held BY DEF CurationInv
  <1>3. Proper(Rebuilt) /\ Holds(Rebuilt) BY <1>1, RebuiltFacts
  <1>4. /\ runtime' = runtime /\ now' = now /\ cloud' = cloud /\ refused' = refused /\ syncs' = syncs
        /\ files' = RestoredFiles(Rebuilt.raw)
        /\ mtime' = [x \in DOMAIN mtime |-> IF x \in Unpacked(Rebuilt.raw) THEN now ELSE mtime[x]]
        /\ \/ store' = store /\ base' = base
           \/ store' = RestoredStore(Rebuilt) /\ base' = Rebuilt
    BY DEF Restore
  <1>5. files' \in [Files -> Seq(Section)] BY <1>2, <1>3, <1>4, RestoredFilesOK DEF Proper
  <1>6. mtime' \in [Files \cup {Store} -> 1..MaxTime]
    <2>1. now \in 1..MaxTime /\ mtime \in [Files \cup {Store} -> 1..MaxTime] BY DEF CurationInv, MemoryOK
    <2>2. QED BY <1>4, <2>1
  <1>7. StoreOK(RestoredStore(Rebuilt)) /\ StoreOK(store)
    BY <1>2, <1>3, RestoredStoreOK DEF MemoryOK, StoreOK
  <1>8. StoreOK(store') BY <1>4, <1>7
  <1>9. MemoryOK' BY <1>2, <1>4, <1>5, <1>6, <1>8 DEF MemoryOK, StoreOK
  <1>10. Held'
    <2>1. CASE base' = base BY <1>2, <1>4, <2>1, HeldSame
    <2>2. CASE base' = Rebuilt
      <3>1. PICK e : e = Rebuilt OBVIOUS
      <3>2. Proper(e) /\ Holds(e) /\ base' = e BY <1>3, <2>2, <3>1
      <3>3. Proper(base)' BY <1>4, <3>2, ProperSame
      <3>4. Holds(base)' BY <1>4, <3>2 DEF Holds
      <3>5. IsSeq(cloud'.deltas) /\ cloud' = [snapshot |-> cloud'.snapshot, deltas |-> cloud'.deltas]
        BY <1>1, <1>4
      <3>6. QED BY <3>3, <3>4, <3>5 DEF Held
    <2>3. QED BY <1>4, <2>1, <2>2
  <1>11. QED BY <1>4, <1>9, <1>10 DEF CurationInv

\* Nothing happens.
LEMMA StutterInv ==
  ASSUME CurationInv, UNCHANGED vars
  PROVE  CurationInv'
  <1>1. UNCHANGED <<runtime, workspace, now, refused>> /\ syncs' \in Nat BY DEF vars, CurationInv
  <1>2. Held' BY HeldSame DEF vars, CurationInv
  <1>3. QED BY <1>1, <1>2, SyncedInv

\* Every step preserves the invariant.
LEMMA NextInv ==
  ASSUME CurationInv, [Next]_vars
  PROVE  CurationInv'
  <1>1. CASE EditBody BY <1>1, EditBodyInv
  <1>2. CASE Retitle BY <1>2, RetitleInv
  <1>3. CASE InsertSection BY <1>3, InsertSectionInv
  <1>4. CASE RemoveSection BY <1>4, RemoveSectionInv
  <1>5. CASE Reorder BY <1>5, ReorderInv
  <1>6. CASE Touch BY <1>6, TouchInv
  <1>7. CASE AddRow BY <1>7, AddRowInv
  <1>8. CASE EditRow BY <1>8, EditRowInv
  <1>9. CASE Supersede BY <1>9, SupersedeInv
  <1>10. CASE ForgetRow BY <1>10, ForgetRowInv
  <1>11. CASE WriteDocument BY <1>11, WriteDocumentInv
  <1>12. CASE Tick BY <1>12, TickInv
  <1>13. CASE FirstSync BY <1>13, FirstSyncInv
  <1>14. CASE Sync BY <1>14, SyncInv
  <1>15. CASE Restore BY <1>15, RestoreInv
  <1>16. CASE UNCHANGED vars BY <1>16, StutterInv
  <1>17. QED
    BY <1>1, <1>2, <1>3, <1>4, <1>5, <1>6, <1>7, <1>8, <1>9, <1>10, <1>11, <1>12, <1>13, <1>14, <1>15,
       <1>16 DEF Next

\* The inductive invariant: the agent's memory is well formed, no sync has been refused,
\* and the base validates and is what the cloud replays.
THEOREM CurationInvHolds == Spec => []CurationInv
  <1>1. Init => CurationInv BY InitInv
  <1>2. CurationInv /\ [Next]_vars => CurationInv' BY NextInv
  <1>3. QED BY <1>1, <1>2, PTL DEF Spec

\* The writer never refuses an archive for an id that comes twice: not an export, not a
\* reconciled one, not the head that a restore rebuilds.
THEOREM NoSyncIsRefusedHolds == Spec => []NoSyncIsRefused
  <1>1. CurationInv => NoSyncIsRefused
    <2> SUFFICES ASSUME CurationInv PROVE NoSyncIsRefused OBVIOUS
    <2>1. base # Nothing => Proper(Rebuilt) BY RebuiltFacts DEF CurationInv, Held
    <2>2. QED BY <2>1 DEF NoSyncIsRefused, CurationInv, Proper, Sound
  <1>2. QED BY <1>1, CurationInvHolds, PTL

\* After any number of syncs and restores, what the service replays has the records, the
\* files and the documents of the base.
THEOREM CloudAgreesHolds == Spec => []CloudAgrees
  <1>1. CurationInv => CloudAgrees BY RebuiltFacts DEF CurationInv, Held, CloudAgrees
  <1>2. QED BY <1>1, CurationInvHolds, PTL

\* A proper archive passes `alf validate`.
LEMMA ProperValidates ==
  ASSUME NEW a, Proper(a)
  PROVE  /\ Valid(a) \/ (Blanks(a) /\ HasRows)
         /\ Counted(a) /\ WellPartitioned(a)
         /\ \A k \in DOMAIN a.partitions : \A r \in ToSet(a.partitions[k].records) :
              Quarter(r) = a.partitions[k].from
  <1>1. /\ Counted(a) /\ WellPartitioned(a)
        /\ \A k \in DOMAIN a.partitions : \A r \in ToSet(a.partitions[k].records) :
             Quarter(r) = a.partitions[k].from
    BY DEF Proper, Sound
  <1>2. HasRows \/ \A r \in ToSet(ReadAllMemory(a)) : ~Blank(r) BY DEF Proper, AllOK, RecordOK
  <1>3. QED BY <1>1, <1>2 DEF Valid, Blanks

\* The base and what a restore rebuilds pass `alf validate`, each record in the partition
\* of its date.
THEOREM ArchivesValidateHolds == Spec => []ArchivesValidate
  <1>1. CurationInv => ArchivesValidate
    <2> SUFFICES ASSUME CurationInv, base # Nothing, NEW a \in {base, Rebuilt}
                 PROVE  /\ Valid(a) \/ (Blanks(a) /\ HasRows)
                        /\ Counted(a) /\ WellPartitioned(a)
                        /\ \A k \in DOMAIN a.partitions : \A r \in ToSet(a.partitions[k].records) :
                             Quarter(r) = a.partitions[k].from
      BY DEF ArchivesValidate
    <2>1. Proper(base) /\ Proper(Rebuilt) BY RebuiltFacts DEF CurationInv, Held
    <2>2. Proper(a) BY <2>1
    <2>3. QED BY <2>2, ProperValidates
  <1>2. QED BY <1>1, CurationInvHolds, PTL

\* What a sync keeps of the base, when it keeps something else.
LEMMA IdentityKept ==
  ASSUME NEW a, Proper(a), NEW x, Proper(x), NEW e, Unique(ReadAllMemory(e)),
         ToSet(ReadAllMemory(e)) = ToSet(Reconcile(ReadAllMemory(a), ReadAllMemory(x))),
         NEW r \in ToSet(ReadAllMemory(a)), NEW s \in ToSet(ReadAllMemory(e)), r.scope = s.scope,
         IF r.scope = Store THEN r.id = s.id
         ELSE /\ HeadingKey(r) = HeadingKey(s) /\ HeadingKey(r) # NoHeading
              /\ Alone(a, r) /\ Alone(e, s)
  PROVE  r.id = s.id /\ r.created = s.created
  <1> DEFINE old == ReadAllMemory(a)
             new == ReadAllMemory(x)
             result == Reconcile(old, new)
  <1>1. PICK pairs, taken :
          /\ Reconciled(old, new, result, pairs, taken) /\ SlotsMeet(old, new, pairs)
          /\ Unique(result) /\ DOMAIN result = DOMAIN new
          /\ \A c \in DOMAIN new : result[c].scope = new[c].scope /\ result[c].text = new[c].text
          /\ \A b \in pairs : result[b[2]].id = old[b[1]].id /\ result[b[2]].created = old[b[1]].created
          /\ \A c \in DOMAIN new : ~Paired(pairs, c) => result[c].id \notin Ids(old)
    BY ReconcileProper
  <1>2. Unique(old) /\ r \in ToSet(old) BY DEF Proper, Sound
  <1>3. s \in ToSet(result) OBVIOUS
  <1> HIDE DEF result, new
  <1>4. PICK c \in DOMAIN new : s = result[c] BY <1>1, <1>3 DEF ToSet
  <1>5. \A b \in pairs : b[1] \in DOMAIN old /\ b[2] \in DOMAIN new
    BY <1>1 DEF Reconciled, Matching
  <1>6. CASE r.scope = Store
    <2>1. r.id = s.id /\ r.id \in Ids(old) BY <1>2, <1>6, IdsOfSet
    <2>2. Paired(pairs, c) BY <1>1, <1>4, <2>1
    <2>3. PICK b \in pairs : b[2] = c BY <2>2 DEF Paired
    <2>4. /\ old[b[1]] \in ToSet(old) /\ old[b[1]].id = s.id /\ old[b[1]].created = s.created
      BY <1>1, <1>4, <1>5, <2>3 DEF ToSet
    <2>5. r = old[b[1]] BY <1>2, <2>1, <2>4, UniqueById
    <2>6. QED BY <2>4, <2>5
  <1>7. CASE r.scope # Store
    <2>1. /\ HeadingKey(r) = HeadingKey(s) /\ HeadingKey(r) # NoHeading
          /\ Alone(a, r) /\ Alone(e, s)
      BY <1>7
    <2>2. PICK p \in DOMAIN old : r = old[p] BY <1>2 DEF ToSet
    <2>3. Only(old, p)
      <3>1. \A j \in DOMAIN old : old[j].scope = r.scope /\ HeadingKey(old[j]) = HeadingKey(r) => old[j] = r
        BY <2>1 DEF Alone, ToSet
      <3>2. \A j \in DOMAIN old : old[j] = old[p] => j = p BY <1>2 DEF Unique, Repeats
      <3>3. QED BY <2>1, <2>2, <3>1, <3>2 DEF Only
    <2>4. \A j \in DOMAIN new : HeadingKey(result[j]) = HeadingKey(new[j]) BY <1>1 DEF HeadingKey
    <2>5. Only(new, c)
      <3>1. \A j \in DOMAIN new : result[j].scope = s.scope /\ HeadingKey(result[j]) = HeadingKey(s)
                                  => result[j] = s
        <4>1. \A t \in ToSet(result) : t.scope = s.scope /\ HeadingKey(t) = HeadingKey(s) => t = s
          BY <2>1 DEF Alone, result, new
        <4>2. QED BY <1>1, <4>1 DEF ToSet
      <3>2. \A j \in DOMAIN new : result[j] = result[c] => j = c BY <1>1 DEF Unique, Repeats
      <3>3. QED BY <1>1, <1>4, <2>1, <2>4, <3>1, <3>2 DEF Only
    <2>6. old[p].scope = new[c].scope /\ HeadingKey(old[p]) = HeadingKey(new[c])
      BY <1>1, <1>4, <2>1, <2>2, <2>4
    <2>7. \E b \in pairs : b[1] = p /\ b[2] = c BY <1>1, <2>3, <2>5, <2>6 DEF SlotsMeet
    <2>8. QED BY <1>1, <1>4, <2>2, <2>7
  <1>8. QED BY <1>6, <1>7

\* Over a sync, the section under a heading that is alone in its file keeps its id and its
\* date, and a row keeps its date.
THEOREM HeadingKeepsIdentityHolds == Spec => HeadingKeepsIdentity
  <1> DEFINE Keeps ==
        SyncStep =>
          \A r \in ToSet(ReadAllMemory(base)), s \in ToSet(ReadAllMemory(base')) :
            /\ r.scope = s.scope
            /\ IF r.scope = Store THEN r.id = s.id
               ELSE /\ HeadingKey(r) = HeadingKey(s) /\ HeadingKey(r) # NoHeading
                    /\ Alone(base, r) /\ Alone(base', s)
            => r.id = s.id /\ r.created = s.created
  <1>1. CurationInv /\ [Next]_vars => Keeps
    <2> SUFFICES ASSUME CurationInv, [Next]_vars, SyncStep,
                        NEW r \in ToSet(ReadAllMemory(base)), NEW s \in ToSet(ReadAllMemory(base')),
                        r.scope = s.scope,
                        IF r.scope = Store THEN r.id = s.id
                        ELSE /\ HeadingKey(r) = HeadingKey(s) /\ HeadingKey(r) # NoHeading
                             /\ Alone(base, r) /\ Alone(base', s)
                 PROVE  r.id = s.id /\ r.created = s.created
      OBVIOUS
    <2>1. syncs \in Nat /\ syncs' = syncs + 1 /\ base # Nothing BY DEF CurationInv, SyncStep
    <2>2. syncs' # syncs BY <2>1
    <2>3. Sync
      <3>1. ~UNCHANGED vars BY <2>2 DEF vars
      <3>2. ~(EditBody \/ Retitle \/ InsertSection \/ RemoveSection \/ Reorder \/ Touch)
        BY <2>2 DEF EditBody, Retitle, InsertSection, RemoveSection, Reorder, Touch, Write, Did
      <3>3. ~(AddRow \/ EditRow \/ Supersede \/ ForgetRow \/ WriteDocument \/ Tick)
        BY <2>2 DEF AddRow, EditRow, Supersede, ForgetRow, WriteDocument, Tick, WriteStore, Did
      <3>4. ~(FirstSync \/ Restore) BY <2>1, <2>2 DEF FirstSync, Restore
      <3>5. QED BY <3>1, <3>2, <3>3, <3>4 DEF Next
    <2>4. Proper(base) /\ MemoryOK BY <2>1 DEF CurationInv, Held
    <2>5. Proper(Effective) /\ Effective.refused = FALSE /\ Proper(Export) /\ Export.refused = FALSE
          /\ ToSet(ReadAllMemory(Effective)) = ToSet(Reconcile(ReadAllMemory(base), ReadAllMemory(Export)))
      BY <2>4, EffectiveFacts, ExportFacts
    <2>6. base' = base \/ base' = Effective BY <2>3, <2>5 DEF Sync, Finish
    <2>7. CASE base' = base
      <3>1. Unique(ReadAllMemory(base)) /\ s \in ToSet(ReadAllMemory(base))
        BY <2>4, <2>7 DEF Proper, Sound
      <3>2. CASE r.scope = Store BY <3>1, <3>2, UniqueById
      <3>3. CASE r.scope # Store
        <4>1. Alone(base, s) /\ HeadingKey(r) = HeadingKey(s) BY <2>7, <3>3
        <4>2. r = s BY <4>1 DEF Alone
        <4>3. QED BY <4>2
      <3>4. QED BY <3>2, <3>3
    <2>8. CASE base' = Effective
      <3>1. PICK a, x, e : a = base /\ x = Export /\ e = Effective OBVIOUS
      <3>2. Unique(ReadAllMemory(e)) BY <2>5, <3>1 DEF Proper, Sound
      <3>3. QED BY <2>4, <2>5, <2>8, <3>1, <3>2, IdentityKept
    <2>9. QED BY <2>6, <2>7, <2>8
  <1>2. QED
    <2>1. CurationInv /\ [Next]_vars => [Keeps]_vars BY <1>1
    <2> HIDE DEF Keeps
    <2>2. Spec => [][Keeps]_vars BY <2>1, CurationInvHolds, PTL DEF Spec
    <2>3. QED BY <2>2 DEF Keeps, HeadingKeepsIdentity

=============================================================================
