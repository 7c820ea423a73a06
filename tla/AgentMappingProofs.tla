------------------------- MODULE AgentMappingProofs -------------------------
(***************************************************************************)
(* Theorems about AgentMapping: any number of agents, ids, keys and        *)
(* processes, whatever the mapping and the pins say.                       *)
(*                                                                         *)
(* Which id a restored slice goes to is decided by the agents table and    *)
(* the archive alone, so the first invariant is about the store.  What     *)
(* discovery concludes is folded over the bindings, and its outcome over   *)
(* the rows: a fold is a function on 0..n that unrolls one step at a time  *)
(* (FoldUnrolls), and what a step keeps the fold keeps (FoldKeeps).        *)
(***************************************************************************)
EXTENDS AgentMapping, SequenceTheorems, FiniteSetTheorems, WellFoundedInduction, TLAPS

\* An agents table with ids up to n: one agent for an id, one for an alias.
Roster(b, n) ==
  /\ b \in Seq(Range(b))
  /\ \A k \in DOMAIN b : /\ b[k] = [id |-> b[k].id, alias |-> b[k].alias]
                         /\ b[k].id \in Nat /\ b[k].id <= n
  /\ \A j, k \in DOMAIN b : j # k => b[j].id # b[k].id /\ b[j].alias # b[k].alias

\* A set of memories with ids up to n: one for an id, and one of an owner for a
\* key.
Memories(s, n) ==
  /\ \A m \in s : /\ m = [id |-> m.id, key |-> m.key, text |-> m.text, owner |-> m.owner]
                  /\ m.id \in Nat /\ m.id <= n
  /\ \A l, m \in s : l # m => l.id # m.id /\ (l.owner = m.owner => l.key # m.key)

\* What an archive carries of them.
Carried(a, n) ==
  /\ \A r \in a.rows : r.id \in Nat /\ r.id <= n
  /\ \A q, r \in a.rows : q # r => q.id # r.id /\ q.key # r.key

Spent == [agents : Nat, rows : Nat, gestures : Nat, runs : Nat]

StoreInv ==
  /\ used \in Spent
  /\ Roster(brain, used.agents)
  /\ Memories(slices, used.rows)
  /\ DOMAIN archives = AlfIds
  /\ \A x \in AlfIds : archives[x] # None => Carried(archives[x], used.rows)

-----------------------------------------------------------------------------
(***************************************************************************)
(* The agents table                                                        *)
(***************************************************************************)
LEMMA MinOfOne ==
  ASSUME NEW k \in Nat
  PROVE  Min({k}) = k
  BY DEF Min

LEMMA RosterDomain ==
  ASSUME NEW b, NEW n, Roster(b, n)
  PROVE  Len(b) \in Nat /\ DOMAIN b = 1..Len(b) /\ b \in Seq(Range(b))
  BY LenProperties DEF Roster

LEMMA RosterAppend ==
  ASSUME NEW b, NEW n \in Nat, NEW m \in Nat, NEW id \in Nat, NEW alias,
         Roster(b, n), n <= m, id <= m,
         \A k \in DOMAIN b : b[k].id # id /\ b[k].alias # alias
  PROVE  Roster(Append(b, [id |-> id, alias |-> alias]), m)
  <1> DEFINE e == [id |-> id, alias |-> alias]
             c == Append(b, e)
             S == Range(b) \cup {e}
  <1>1. Len(b) \in Nat /\ DOMAIN b = 1..Len(b) /\ b \in Seq(Range(b)) BY RosterDomain
  <1>2. b \in Seq(S) /\ e \in S BY <1>1, SeqMonotonic
  <1>3. /\ c \in Seq(S) /\ Len(c) = Len(b) + 1
        /\ \A i \in 1..Len(b) : c[i] = b[i]
        /\ c[Len(b) + 1] = e
    BY <1>2, AppendProperties
  <1>4. DOMAIN c = 1..(Len(b) + 1) BY <1>3, LenProperties
  <1>5. c \in Seq(Range(c)) BY <1>3, SeqOfRange
  <1>6. e.id = id /\ e.alias = alias /\ e = [id |-> e.id, alias |-> e.alias] OBVIOUS
  <1> HIDE DEF e, c
  <1>7. \A k \in DOMAIN c : /\ c[k] = [id |-> c[k].id, alias |-> c[k].alias]
                            /\ c[k].id \in Nat /\ c[k].id <= m
    BY <1>1, <1>3, <1>4, <1>6 DEF Roster
  <1>8. \A j, k \in DOMAIN c : j # k => c[j].id # c[k].id /\ c[j].alias # c[k].alias
    BY <1>1, <1>3, <1>4, <1>6 DEF Roster
  <1>9. QED BY <1>5, <1>7, <1>8 DEF Roster, c, e

LEMMA RosterRename ==
  ASSUME NEW b, NEW n \in Nat, NEW k \in DOMAIN b, NEW alias,
         Roster(b, n), \A j \in DOMAIN b : b[j].alias # alias
  PROVE  Roster([b EXCEPT ![k].alias = alias], n)
  <1> DEFINE e == [id |-> b[k].id, alias |-> alias]
             c == [b EXCEPT ![k] = e]
             S == Range(b) \cup {e}
  <1>1. Len(b) \in Nat /\ DOMAIN b = 1..Len(b) /\ b \in Seq(Range(b)) BY RosterDomain
  <1>2. [b EXCEPT ![k].alias = alias] = c
    <2>1. [b[k] EXCEPT !.alias = alias] = e BY DEF Roster
    <2>2. QED BY <2>1
  <1>3. b \in Seq(S) /\ e \in S BY <1>1, SeqMonotonic
  <1>4. c \in Seq(S) /\ Len(c) = Len(b) /\ \A j \in 1..Len(b) : c[j] = IF j = k THEN e ELSE b[j]
    BY <1>1, <1>3, ExceptSeq
  <1>5. e.id = b[k].id /\ e.alias = alias /\ e = [id |-> e.id, alias |-> e.alias] OBVIOUS
  <1> HIDE DEF e, c
  <1>6. DOMAIN c = DOMAIN b /\ c \in Seq(Range(c)) BY <1>1, <1>4, LenProperties, SeqOfRange
  <1>7. \A j \in DOMAIN c : /\ c[j] = [id |-> c[j].id, alias |-> c[j].alias]
                            /\ c[j].id \in Nat /\ c[j].id <= n
    BY <1>1, <1>4, <1>5, <1>6 DEF Roster
  <1>8. \A i, j \in DOMAIN c : i # j => c[i].id # c[j].id /\ c[i].alias # c[j].alias
    BY <1>1, <1>4, <1>5, <1>6 DEF Roster
  <1>9. Roster(c, n) BY <1>6, <1>7, <1>8 DEF Roster
  <1>10. QED BY <1>2, <1>9, Zenon

LEMMA RosterRemove ==
  ASSUME NEW b, NEW n \in Nat, NEW k \in DOMAIN b, Roster(b, n)
  PROVE  Roster(RemoveAt(b, k), n)
  <1> DEFINE c == RemoveAt(b, k)
             S == Range(b)
             u == SubSeq(b, 1, k - 1)
             v == SubSeq(b, k + 1, Len(b))
  <1>1. Len(b) \in Nat /\ DOMAIN b = 1..Len(b) /\ b \in Seq(S) BY RosterDomain
  <1>2. \A i \in 1..Len(b) : b[i] \in S BY <1>1, ElementOfSeq
  <1>3. k \in Nat /\ 1 <= k /\ k <= Len(b) BY <1>1
  <1>4. u \in Seq(S) /\ Len(u) = k - 1 /\ \A i \in 1..(k - 1) : u[i] = b[i]
    <2>1. \A i \in 1..(k - 1) : b[i] \in S BY <1>1, <1>2, <1>3
    <2>2. /\ u \in Seq(S) /\ Len(u) = (IF 1 <= k - 1 THEN (k - 1) - 1 + 1 ELSE 0)
          /\ \A i \in 1..((k - 1) - 1 + 1) : u[i] = b[1 + i - 1]
      BY <2>1, <1>3, SubSeqProperties
    <2>3. QED BY <2>2, <1>3
  <1>5. v \in Seq(S) /\ Len(v) = Len(b) - k /\ \A i \in 1..(Len(b) - k) : v[i] = b[k + i]
    <2>1. \A i \in (k + 1)..Len(b) : b[i] \in S BY <1>1, <1>2, <1>3
    <2>2. /\ v \in Seq(S) /\ Len(v) = (IF k + 1 <= Len(b) THEN Len(b) - (k + 1) + 1 ELSE 0)
          /\ \A i \in 1..(Len(b) - (k + 1) + 1) : v[i] = b[(k + 1) + i - 1]
      BY <2>1, <1>1, <1>3, SubSeqProperties
    <2>3. QED BY <2>2, <1>1, <1>3
  <1> HIDE DEF u, v
  <1>6. /\ u \o v \in Seq(S) /\ Len(u \o v) = Len(b) - 1
        /\ \A i \in 1..(Len(b) - 1) : (u \o v)[i] = IF i <= k - 1 THEN b[i] ELSE b[i + 1]
    <2>1. /\ u \o v \in Seq(S) /\ Len(u \o v) = Len(u) + Len(v)
          /\ \A i \in 1..(Len(u) + Len(v)) :
               (u \o v)[i] = IF i <= Len(u) THEN u[i] ELSE v[i - Len(u)]
      BY <1>4, <1>5, ConcatProperties
    <2>2. Len(u) + Len(v) = Len(b) - 1 BY <1>1, <1>3, <1>4, <1>5
    <2>3. ASSUME NEW i \in 1..(Len(b) - 1)
          PROVE  (u \o v)[i] = IF i <= k - 1 THEN b[i] ELSE b[i + 1]
      <3>1. CASE i <= k - 1
        <4>1. i \in 1..(k - 1) /\ i <= Len(u) BY <3>1, <1>3, <1>4
        <4>2. QED BY <4>1, <3>1, <2>1, <2>2, <1>4
      <3>2. CASE ~(i <= k - 1)
        <4>1. i - Len(u) \in 1..(Len(b) - k) /\ ~(i <= Len(u)) /\ k + (i - Len(u)) = i + 1
          BY <3>2, <1>1, <1>3, <1>4
        <4>2. QED BY <4>1, <3>2, <2>1, <2>2, <1>5
      <3>3. QED BY <3>1, <3>2
    <2>4. QED BY <2>1, <2>2, <2>3
  <1>7. c = u \o v BY DEF RemoveAt, u, v
  <1> HIDE DEF c
  <1>8. DOMAIN c = 1..(Len(b) - 1) /\ c \in Seq(Range(c))
    BY <1>6, <1>7, LenProperties, SeqOfRange
  <1>9. \A i \in DOMAIN c : \E j \in DOMAIN b :
          c[i] = b[j] /\ j = IF i <= k - 1 THEN i ELSE i + 1
    <2> TAKE i \in DOMAIN c
    <2> i \in 1..(Len(b) - 1) BY <1>8
    <2>0. c[i] = IF i <= k - 1 THEN b[i] ELSE b[i + 1] BY <1>6, <1>7
    <2>1. CASE i <= k - 1
      <3>1. i \in DOMAIN b /\ c[i] = b[i] BY <2>0, <2>1, <1>1
      <3>2. QED BY <3>1, <2>1
    <2>2. CASE ~(i <= k - 1)
      <3>1. i + 1 \in DOMAIN b BY <1>1
      <3>2. c[i] = b[i + 1] BY <2>0, <2>2
      <3>3. QED BY <3>1, <3>2, <2>2
    <2>3. QED BY <2>1, <2>2
  <1>10. \A i \in DOMAIN c : /\ c[i] = [id |-> c[i].id, alias |-> c[i].alias]
                             /\ c[i].id \in Nat /\ c[i].id <= n
    BY <1>9 DEF Roster
  <1>11. \A i, j \in DOMAIN c : i # j => c[i].id # c[j].id /\ c[i].alias # c[j].alias
    <2> SUFFICES ASSUME NEW i \in DOMAIN c, NEW j \in DOMAIN c, i # j
                 PROVE  c[i].id # c[j].id /\ c[i].alias # c[j].alias
      OBVIOUS
    <2>1. PICK x \in DOMAIN b : c[i] = b[x] /\ x = IF i <= k - 1 THEN i ELSE i + 1 BY <1>9
    <2>2. PICK y \in DOMAIN b : c[j] = b[y] /\ y = IF j <= k - 1 THEN j ELSE j + 1 BY <1>9
    <2>3. x # y BY <2>1, <2>2, <1>1, <1>3, <1>8
    <2>4. QED BY <2>1, <2>2, <2>3 DEF Roster
  <1>12. QED BY <1>8, <1>10, <1>11 DEF Roster, c

-----------------------------------------------------------------------------
(***************************************************************************)
(* A restored slice                                                        *)
(***************************************************************************)

\* The agent a slice goes to is the one of its alias or nobody's yet.
LEMMA TargetIsNobodyElses ==
  ASSUME NEW a, NEW n \in Nat, Roster(brain, n)
  PROVE  \A k \in DOMAIN brain :
           brain[k].alias # a.alias => brain[k].id # resolve_target_agent(a, n + 1)
  <1> DEFINE target == resolve_target_agent(a, n + 1)
  <1>1. Len(brain) \in Nat /\ DOMAIN brain = 1..Len(brain) BY RosterDomain
  <1>2. CASE Named(a.alias) # {}
    <2>1. PICK j \in DOMAIN brain : brain[j].alias = a.alias BY <1>2 DEF Named
    <2>2. Named(a.alias) = {j} BY <2>1 DEF Named, Roster
    <2>3. Min(Named(a.alias)) = j BY <2>2, <1>1, MinOfOne
    <2>4. target = brain[j].id BY <2>3, <1>2 DEF resolve_target_agent
    <2>5. QED BY <2>1, <2>4 DEF Roster
  <1>3. CASE Named(a.alias) = {}
    <2>1. \/ target = a.zcid /\ \A k \in DOMAIN brain : brain[k].id # a.zcid
          \/ target = n + 1
      BY <1>3 DEF resolve_target_agent
    <2>2. QED BY <2>1 DEF Roster
  <1>4. QED BY <1>2, <1>3

LEMMA TotalRestore ==
  ASSUME NEW target, NEW a, NEW n \in Nat, Memories(slices, n), Carried(a, n)
  PROVE  /\ Memories(restore_total(target, a), n)
         /\ \A o : o # target => {s \in restore_total(target, a) : s.owner = o} = SliceOf(o)
  <1> DEFINE others == {s \in slices : s.owner # target}
             Placed(r) == [id |-> r.id, key |-> r.key, text |-> r.text, owner |-> target]
             placed == {Placed(r) : r \in a.rows}
  <1>1. CASE \E r \in a.rows, s \in others : s.id = r.id
    <2>1. restore_total(target, a) = slices BY <1>1 DEF restore_total
    <2>2. QED BY <2>1 DEF SliceOf
  <1>2. CASE ~ \E r \in a.rows, s \in others : s.id = r.id
    <2>1. restore_total(target, a) = others \cup placed BY <1>2 DEF restore_total
    <2>2. \A m \in others \cup placed :
            /\ m = [id |-> m.id, key |-> m.key, text |-> m.text, owner |-> m.owner]
            /\ m.id \in Nat /\ m.id <= n
      BY DEF Memories, Carried
    <2>3. \A l, m \in others \cup placed :
            l # m => l.id # m.id /\ (l.owner = m.owner => l.key # m.key)
      <3>1. \A l, m \in others : l # m => l.id # m.id /\ (l.owner = m.owner => l.key # m.key)
        BY DEF Memories
      <3>2. \A l, m \in placed : l # m => l.id # m.id /\ l.key # m.key
        BY DEF Carried
      <3>3. \A l \in others, m \in placed : l.id # m.id /\ l.owner # m.owner
        BY <1>2
      <3>4. QED BY <3>1, <3>2, <3>3
    <2>4. \A o : o # target => {s \in others \cup placed : s.owner = o} = SliceOf(o)
      BY DEF SliceOf
    <2>5. QED BY <2>1, <2>2, <2>3, <2>4 DEF Memories
  <1>3. QED BY <1>1, <1>2

LEMMA MergeRestore ==
  ASSUME NEW target, NEW a, NEW n \in Nat, Memories(slices, n), Carried(a, n)
  PROVE  /\ Memories(restore_merge(target, a), n)
         /\ \A o : o # target => {s \in restore_merge(target, a) : s.owner = o} = SliceOf(o)
  <1> DEFINE Clash(r) == {s \in SliceOf(target) : s.key = r.key}
             new == {r \in a.rows : Clash(r) = {}}
             Text(s) == IF \E r \in a.rows : r.key = s.key
                        THEN (CHOOSE r \in a.rows : r.key = s.key).text ELSE s.text
             Merged(s) == IF s.owner = target THEN [s EXCEPT !.text = Text(s)] ELSE s
             merged == {Merged(s) : s \in slices}
             placed == {[id |-> r.id, key |-> r.key, text |-> r.text, owner |-> target] :
                          r \in new}
  <1>1. CASE \E r \in new, s \in slices : s.id = r.id
    <2>1. restore_merge(target, a) = slices BY <1>1 DEF restore_merge
    <2>2. QED BY <2>1 DEF SliceOf
  <1>2. CASE ~ \E r \in new, s \in slices : s.id = r.id
    <2>1. restore_merge(target, a) = merged \cup placed BY <1>2 DEF restore_merge
    <2>2. \A s \in slices :
            /\ Merged(s) = [id |-> s.id, key |-> s.key, text |-> Merged(s).text, owner |-> s.owner]
            /\ s.owner # target => Merged(s) = s
      <3> TAKE s \in slices
      <3>1. s = [id |-> s.id, key |-> s.key, text |-> s.text, owner |-> s.owner]
        BY DEF Memories
      <3> HIDE DEF Text
      <3>2. [s EXCEPT !.text = Text(s)] =
              [id |-> s.id, key |-> s.key, text |-> Text(s), owner |-> s.owner]
        BY <3>1
      <3>3. QED BY <3>1, <3>2
    <2>3. \A s \in slices : Merged(s).id = s.id /\ Merged(s).key = s.key
                            /\ Merged(s).owner = s.owner
      BY <2>2
    <2> HIDE DEF Merged
    <2>4. \A m \in merged \cup placed :
            /\ m = [id |-> m.id, key |-> m.key, text |-> m.text, owner |-> m.owner]
            /\ m.id \in Nat /\ m.id <= n
      <3>1. \A m \in merged :
              /\ m = [id |-> m.id, key |-> m.key, text |-> m.text, owner |-> m.owner]
              /\ m.id \in Nat /\ m.id <= n
        BY <2>2, <2>3 DEF Memories
      <3>2. \A m \in placed :
              /\ m = [id |-> m.id, key |-> m.key, text |-> m.text, owner |-> m.owner]
              /\ m.id \in Nat /\ m.id <= n
        BY DEF Carried
      <3>3. QED BY <3>1, <3>2
    <2>5. \A l, m \in merged \cup placed :
            l # m => l.id # m.id /\ (l.owner = m.owner => l.key # m.key)
      <3>1. \A l, m \in merged : l # m => l.id # m.id /\ (l.owner = m.owner => l.key # m.key)
        BY <2>3 DEF Memories
      <3>2. \A l, m \in placed : l # m => l.id # m.id /\ l.key # m.key
        BY DEF Carried
      <3>3. \A l \in merged, m \in placed :
              l.id # m.id /\ (l.owner = m.owner => l.key # m.key)
        BY <1>2, <2>3 DEF SliceOf
      <3>4. QED BY <3>1, <3>2, <3>3
    <2>6. \A o : o # target => {s \in merged \cup placed : s.owner = o} = SliceOf(o)
      BY <2>2, <2>3 DEF SliceOf
    <2>7. QED BY <2>1, <2>4, <2>5, <2>6 DEF Memories
  <1>3. QED BY <1>1, <1>2

-----------------------------------------------------------------------------
(***************************************************************************)
(* The steps                                                               *)
(***************************************************************************)

\* Archives are of other times: the store has gone on since.
LEMMA CarriedLater ==
  ASSUME NEW a, NEW n \in Nat, NEW m \in Nat, n <= m, Carried(a, n)
  PROVE  Carried(a, m)
  BY DEF Carried

LEMMA MemoriesLater ==
  ASSUME NEW s, NEW n \in Nat, NEW m \in Nat, n <= m, Memories(s, n)
  PROVE  Memories(s, m)
  BY DEF Memories

LEMMA RosterLater ==
  ASSUME NEW b, NEW n \in Nat, NEW m \in Nat, n <= m, Roster(b, n)
  PROVE  Roster(b, m)
  <1>1. \A k \in DOMAIN b : b[k].id \in Nat /\ b[k].id <= m BY DEF Roster
  <1>2. QED BY <1>1 DEF Roster

LEMMA SpentChange ==
  ASSUME NEW u \in Spent, NEW n \in Nat, NEW m \in Nat
  PROVE  LET v == [u EXCEPT !.runs = m, !.agents = n]
         IN  v \in Spent /\ v.agents = n /\ v.rows = u.rows
  BY DEF Spent

LEMMA CreateKeeps ==
  ASSUME StoreInv, NEW alias \in Aliases, CreateAgent(alias)
  PROVE  StoreInv'
  <1> USE DEF StoreInv
  <1> DEFINE n == used.agents
             id == n + 1
  <1>1. /\ n \in Nat /\ used' = [used EXCEPT !.agents = id]
        /\ brain' = Append(brain, [id |-> id, alias |-> alias])
        /\ slices' = slices /\ archives' = archives
        /\ \A k \in DOMAIN brain : brain[k].alias # alias
    BY DEF CreateAgent, Named, Spent
  <1>2. used' \in Spent /\ used'.agents = id /\ used'.rows = used.rows
    BY <1>1 DEF Spent
  <1>3. \A k \in DOMAIN brain : brain[k].id # id BY <1>1 DEF Roster
  <1>4. id \in Nat /\ n <= id /\ Roster(brain, n) BY <1>1
  <1> HIDE DEF id, n
  <1>5. Roster(brain', id) BY <1>1, <1>3, <1>4, RosterAppend
  <1>6. QED BY <1>1, <1>2, <1>5

LEMMA RenameKeeps ==
  ASSUME StoreInv, NEW k \in DOMAIN brain, NEW alias \in Aliases, RenameAgent(k, alias)
  PROVE  StoreInv'
  <1> USE DEF StoreInv
  <1>1. /\ used' = [used EXCEPT !.gestures = used.gestures + 1]
        /\ brain' = [brain EXCEPT ![k].alias = alias]
        /\ slices' = slices /\ archives' = archives
        /\ \A j \in DOMAIN brain : brain[j].alias # alias
    BY DEF RenameAgent, Named
  <1>2. used' \in Spent /\ used'.agents = used.agents /\ used'.rows = used.rows
    BY <1>1 DEF Spent
  <1>3. Roster([brain EXCEPT ![k].alias = alias], used.agents)
    BY <1>1, RosterRename DEF Spent
  <1>4. QED BY <1>1, <1>2, <1>3

LEMMA DeleteKeeps ==
  ASSUME StoreInv, NEW k \in DOMAIN brain, DeleteAgent(k)
  PROVE  StoreInv'
  <1> USE DEF StoreInv
  <1>1. /\ used' = [used EXCEPT !.gestures = used.gestures + 1]
        /\ brain' = RemoveAt(brain, k)
        /\ slices' = slices \ SliceOf(brain[k].id) /\ archives' = archives
    BY DEF DeleteAgent
  <1>2. used' \in Spent /\ used'.agents = used.agents /\ used'.rows = used.rows
    BY <1>1 DEF Spent
  <1>3. Roster(brain', used.agents) BY <1>1, RosterRemove DEF Spent
  <1>4. Memories(slices', used.rows) BY <1>1 DEF Memories
  <1>5. QED BY <1>1, <1>2, <1>3, <1>4

LEMMA RememberKeeps ==
  ASSUME StoreInv, NEW k \in DOMAIN brain, NEW key \in Keys, Remember(k, key)
  PROVE  StoreInv'
  <1> USE DEF StoreInv
  <1> DEFINE id == used.rows + 1
             owner == brain[k].id
             m == [id |-> id, key |-> key, text |-> id, owner |-> owner]
             kept == {s \in slices : s.owner # owner \/ s.key # key}
  <1>1. /\ used' = [used EXCEPT !.rows = used.rows + 1]
        /\ slices' = {s \in SliceOf(owner) : s.key # key} \cup {m}
                       \cup {s \in slices : s.owner # owner}
        /\ brain' = brain /\ archives' = archives
    BY DEF Remember
  <1>2. /\ used' \in Spent /\ used'.agents = used.agents /\ used'.rows = used.rows + 1
        /\ used.rows \in Nat
    BY <1>1 DEF Spent
  <1>3. slices' = kept \cup {m} BY <1>1 DEF SliceOf
  <1>4. Memories(slices', used.rows + 1)
    <2>1. /\ m = [id |-> m.id, key |-> m.key, text |-> m.text, owner |-> m.owner]
          /\ m.id = used.rows + 1 /\ m.key = key /\ m.owner = owner
      OBVIOUS
    <2> HIDE DEF m, owner
    <2>2. \A s \in kept : s.id # m.id /\ (s.owner = m.owner => s.key # m.key)
      BY <1>2, <2>1 DEF Memories
    <2>3. \A s \in kept \cup {m} :
            /\ s = [id |-> s.id, key |-> s.key, text |-> s.text, owner |-> s.owner]
            /\ s.id \in Nat /\ s.id <= used.rows + 1
      BY <1>2, <2>1 DEF Memories
    <2>4. \A r, s \in kept \cup {m} :
            r # s => r.id # s.id /\ (r.owner = s.owner => r.key # s.key)
      <3>1. \A r, s \in kept : r # s => r.id # s.id /\ (r.owner = s.owner => r.key # s.key)
        BY DEF Memories
      <3>2. QED BY <3>1, <2>2
    <2>5. QED BY <1>3, <2>3, <2>4 DEF Memories
  <1>5. \A x \in AlfIds : archives[x] # None => Carried(archives[x], used.rows + 1)
    BY <1>2, CarriedLater
  <1>6. QED BY <1>1, <1>2, <1>4, <1>5

\* An archive takes the ids and keys of one owner's memories.
LEMMA ExportKeeps ==
  ASSUME StoreInv, NEW p \in Procs, export_agent(p)
  PROVE  StoreInv'
  <1> USE DEF StoreInv
  <1> DEFINE c == procs[p]
             z == SliceId(c.binding)
             a == [alias |-> c.binding.alias, zcid |-> z,
                   rows |-> {Archived(s) : s \in SliceOf(z)}]
  <1>1. /\ brain' = brain /\ slices' = slices /\ used' = used
        /\ \/ archives' = archives
           \/ archives' = [archives EXCEPT ![c.alf] = a]
    BY Zenon DEF export_agent
  <1>2. Carried(a, used.rows)
    <2>1. \A r \in a.rows : \E s \in slices : s.owner = z /\ r.id = s.id /\ r.key = s.key
                                             /\ r = Archived(s)
      BY DEF Archived, SliceOf
    <2> HIDE DEF a
    <2>2. QED BY <2>1 DEF Carried, Memories
  <1> HIDE DEF a, c
  <1>3. /\ DOMAIN archives' = AlfIds
        /\ \A x \in AlfIds : archives'[x] # None => Carried(archives'[x], used.rows)
    BY <1>1, <1>2
  <1>4. QED BY <1>1, <1>3

LEMMA ImportKeeps ==
  ASSUME StoreInv, NEW x \in AlfIds, NEW ws \in Aliases, NEW mode \in Modes,
         import(x, ws, mode)
  PROVE  StoreInv'
  <1> USE DEF StoreInv
  <1> DEFINE a == archives[x]
             target == resolve_target_agent(a, used.agents + 1)
             top == IF target > used.agents THEN target ELSE used.agents
  <1>1. /\ a # None /\ target \in 1..MaxAgents
        /\ brain' = IF Named(a.alias) # {} THEN brain
                    ELSE Append(brain, [id |-> target, alias |-> a.alias])
        /\ slices' = IF mode = "total" THEN restore_total(target, a)
                     ELSE restore_merge(target, a)
        /\ used' = [used EXCEPT !.runs = used.runs + 1, !.agents = top]
        /\ archives' = archives
    BY DEF import
  <1>2. used.agents \in Nat /\ used.rows \in Nat /\ target \in Nat
    BY <1>1, MappingConstants DEF Spent
  <1>3. Carried(a, used.rows) BY <1>1
  <1>4. Memories(slices', used.rows) BY <1>1, <1>2, <1>3, TotalRestore, MergeRestore
  <1>5. \A k \in DOMAIN brain : brain[k].alias # a.alias => brain[k].id # target
    BY <1>2, TargetIsNobodyElses
  <1> HIDE DEF a, target
  <1>6. top \in Nat /\ used.agents <= top /\ target <= top BY <1>2
  <1> HIDE DEF top
  <1>7. used' \in Spent /\ used'.agents = top /\ used'.rows = used.rows
    <2>1. used' = [used EXCEPT !.runs = used.runs + 1, !.agents = top] /\ used \in Spent
      BY <1>1
    <2>2. used.runs + 1 \in Nat BY <2>1 DEF Spent
    <2>3. QED BY <2>1, <2>2, <1>6, SpentChange
  <1>8. Roster(brain', top)
    <2>1. CASE Named(a.alias) # {} BY <2>1, <1>1, <1>2, <1>6, RosterLater
    <2>2. CASE Named(a.alias) = {}
      <3>1. \A k \in DOMAIN brain : brain[k].id # target /\ brain[k].alias # a.alias
        BY <2>2, <1>5 DEF Named
      <3>2. Roster(Append(brain, [id |-> target, alias |-> a.alias]), top)
        BY <3>1, <1>2, <1>6, RosterAppend
      <3>3. QED BY <3>2, <2>2, <1>1
    <2>3. QED BY <2>1, <2>2
  <1>9. QED BY <1>1, <1>4, <1>7, <1>8

\* What does not touch the store.
LEMMA MappingKeeps ==
  ASSUME StoreInv, UNCHANGED <<brain, slices, archives>>,
         used' \in Spent, used'.agents = used.agents, used'.rows = used.rows
  PROVE  StoreInv'
  BY DEF StoreInv

LEMMA StoreInvStep ==
  ASSUME StoreInv, [Next]_vars
  PROVE  StoreInv'
  <1>0. used \in Spent BY DEF StoreInv
  <1>1. ASSUME NEW a \in Aliases, CreateAgent(a) PROVE StoreInv'
    BY <1>1, CreateKeeps
  <1>2. ASSUME NEW k \in DOMAIN brain, NEW a \in Aliases, RenameAgent(k, a) PROVE StoreInv'
    BY <1>2, RenameKeeps
  <1>3. ASSUME NEW k \in DOMAIN brain, DeleteAgent(k) PROVE StoreInv'
    BY <1>3, DeleteKeeps
  <1>4. ASSUME NEW k \in DOMAIN brain, NEW key \in Keys, Remember(k, key) PROVE StoreInv'
    BY <1>4, RememberKeeps
  <1>5. ASSUME NEW p, NEW command, Enter(p, command), UNCHANGED <<brain, slices, archives>>
        PROVE  StoreInv'
    <2>1. used' = [used EXCEPT !.runs = used.runs + 1] BY <1>5 DEF Enter
    <2>2. used' \in Spent /\ used'.agents = used.agents /\ used'.rows = used.rows
      BY <2>1, <1>0 DEF Spent
    <2>3. QED BY <2>2, <1>5, MappingKeeps
  <1>6. ASSUME NEW p \in Procs, NEW r \in Runtimes, Check(p, r) PROVE StoreInv'
    BY <1>5, <1>6 DEF Check
  <1>7. ASSUME NEW p \in Procs, NEW r \in Runtimes, LazyInit(p, r) PROVE StoreInv'
    BY <1>5, <1>7 DEF LazyInit
  <1>8. ASSUME NEW p \in Procs, Persist(p) PROVE StoreInv'
    BY <1>0, <1>8, MappingKeeps DEF Persist
  <1>9. ASSUME NEW p \in Procs, Seed(p) PROVE StoreInv'
    BY <1>0, <1>9, MappingKeeps DEF Seed
  <1>10. ASSUME NEW p \in Procs, NEW k \in DOMAIN rows, select_current_agent(p, k)
         PROVE  StoreInv'
    BY <1>5, <1>10 DEF select_current_agent
  <1>11. ASSUME NEW p \in Procs, export_agent(p) PROVE StoreInv'
    BY <1>11, ExportKeeps
  <1>12. ASSUME NEW k \in DOMAIN rows, Toggle(k) PROVE StoreInv'
    <2>1. used' = [used EXCEPT !.gestures = used.gestures + 1] BY <1>12 DEF Toggle
    <2>2. used' \in Spent /\ used'.agents = used.agents /\ used'.rows = used.rows
      BY <2>1, <1>0 DEF Spent
    <2>3. QED BY <2>2, <1>12, MappingKeeps DEF Toggle
  <1>13. ASSUME NEW x \in AlfIds, NEW ws \in Aliases, NEW mode \in Modes, import(x, ws, mode)
         PROVE  StoreInv'
    BY <1>13, ImportKeeps
  <1>14. ASSUME NEW p \in Procs, Discover(p) PROVE StoreInv'
    BY <1>0, <1>14, MappingKeeps DEF Discover
  <1>15. CASE UNCHANGED vars BY <1>0, <1>15, MappingKeeps DEF vars
  <1>16. QED
    BY <1>1, <1>2, <1>3, <1>4, <1>6, <1>7, <1>8, <1>9, <1>10, <1>11, <1>12, <1>13, <1>14, <1>15
    DEF Next, User

LEMMA StoreInvInit ==
  ASSUME Init
  PROVE  StoreInv
  <1> USE DEF Init, StoreInv
  <1>0. Len(rows) \in Nat BY EmptySeq, LenProperties
  <1>1. used \in Spent /\ used.agents = 0 /\ used.rows = 0 BY <1>0 DEF Spent
  <1>2. Roster(<<>>, 0) BY EmptySeq DEF Roster
  <1>3. Memories({}, 0) BY DEF Memories
  <1>4. DOMAIN archives = AlfIds /\ \A x \in AlfIds : archives[x] = None OBVIOUS
  <1>5. QED BY <1>1, <1>2, <1>3, <1>4

-----------------------------------------------------------------------------
(***************************************************************************)
(* Induction, and what a fold computes                                     *)
(***************************************************************************)
LEMMA LeastOf ==
  ASSUME NEW T, T \subseteq Nat, T # {}
  PROVE  \E x \in T : \A y \in T : x <= y
  <1>1. PICK t \in T : \A u \in T : ~ (<<u, t>> \in OpToRel(<, Nat))
    BY NatLessThanWellFounded, WFMin, Zenon
  <1>2. \A u \in T : ~ (u < t) BY <1>1 DEF OpToRel
  <1>3. \A u \in T : t <= u BY <1>2
  <1>4. QED BY <1>3

\* Induction up to a bound, over a set.
LEMMA Induction ==
  ASSUME NEW m \in Nat, NEW G, 0 \in G,
         \A n \in 0..m : n > 0 /\ n - 1 \in G => n \in G
  PROVE  \A n \in 0..m : n \in G
  <1> DEFINE T == {n \in 0..m : n \notin G}
  <1> SUFFICES ASSUME T # {} PROVE FALSE OBVIOUS
  <1>0. T \subseteq Nat OBVIOUS
  <1> HIDE DEF T
  <1>1. PICK x \in T : \A y \in T : x <= y BY <1>0, LeastOf
  <1> USE DEF T
  <1>2. x \in 0..m /\ x \notin G /\ x # 0 OBVIOUS
  <1>3. x - 1 \in 0..m /\ x - 1 \notin T BY <1>1, <1>2
  <1>4. QED BY <1>2, <1>3

LEMMA MinIn ==
  ASSUME NEW S, S \subseteq Nat, S # {}
  PROVE  Min(S) \in S /\ \A y \in S : Min(S) <= y
  BY LeastOf DEF Min

LEMMA MaxOfTop ==
  ASSUME NEW m \in Nat, NEW s, s \subseteq 1..m, m \in s
  PROVE  Max(s) = m
  <1>1. \A y \in s : y \in Nat /\ m >= y OBVIOUS
  <1>2. Max(s) \in s /\ Max(s) >= m BY <1>1 DEF Max
  <1>3. Max(s) \in Nat /\ m >= Max(s) BY <1>1, <1>2
  <1> DEFINE top == Max(s)
  <1>4. top \in Nat /\ top >= m /\ m >= top BY <1>2, <1>3
  <1> HIDE DEF top
  <1>5. top = m BY <1>4
  <1>6. QED BY <1>5 DEF top

IsSeq(seq) == seq \in Seq(Range(seq))

LEMMA IsSeqDomain ==
  ASSUME NEW seq, IsSeq(seq)
  PROVE  /\ Len(seq) \in Nat /\ DOMAIN seq = 1..Len(seq)
         /\ \A k \in DOMAIN seq : seq[k] \in Range(seq)
  BY LenProperties, ElementOfSeq DEF IsSeq

LEMMA SeqIsSeq ==
  ASSUME NEW S, NEW seq \in Seq(S)
  PROVE  /\ IsSeq(seq) /\ Len(seq) \in Nat /\ DOMAIN seq = 1..Len(seq)
         /\ \A k \in DOMAIN seq : seq[k] \in S
         /\ Range(seq) \subseteq S
  <1>1. Len(seq) \in Nat /\ DOMAIN seq = 1..Len(seq) BY LenProperties
  <1>2. \A k \in DOMAIN seq : seq[k] \in S BY <1>1, ElementOfSeq
  <1>3. QED BY <1>1, <1>2, SeqOfRange, RangeOfSeq DEF IsSeq

LEMMA AppendRange ==
  ASSUME NEW S, NEW seq \in Seq(S), NEW e \in S
  PROVE  /\ Append(seq, e) \in Seq(S)
         /\ Range(Append(seq, e)) = Range(seq) \cup {e}
  <1>1. /\ Append(seq, e) \in Seq(S) /\ Len(Append(seq, e)) = Len(seq) + 1
        /\ \A i \in 1..Len(seq) : Append(seq, e)[i] = seq[i]
        /\ Append(seq, e)[Len(seq) + 1] = e
    BY AppendProperties
  <1>2. Len(seq) \in Nat /\ DOMAIN seq = 1..Len(seq) BY LenProperties
  <1>3. DOMAIN Append(seq, e) = 1..(Len(seq) + 1) BY <1>1, LenProperties
  <1>4. QED BY <1>1, <1>2, <1>3 DEF Range

\* The operators the model folds with: one lemma serves them all.
Step(op, c, a, x) ==
  CASE op = "keep"   -> IF x \in c THEN Append(a, x) ELSE a
    [] op = "take"   -> Take(c.cfg, c.mine, a, x)
    [] op = "settle" -> Settle(c, a, x)
    [] op = "upsert" -> upsert_agent(a, x)
    [] op = "pin"    -> WritePin(a, x)

Folds(op, c, base, seq, h, n) ==
  h = [s \in SUBSET (1..n) |->
         IF s = {} THEN base ELSE Step(op, c, h[s \ {Max(s)}], seq[Max(s)])]

LEMMA FoldExists ==
  ASSUME NEW op, NEW c, NEW base, NEW seq, NEW n \in Nat
  PROVE  \E h : Folds(op, c, base, seq, h, n)
  <1> DEFINE G == {m \in Nat : \E h : Folds(op, c, base, seq, h, m)}
  <1>1. 0 \in G
    <2>1. Folds(op, c, base, seq, [s \in SUBSET (1..0) |-> base], 0) BY DEF Folds
    <2>2. QED BY <2>1
  <1>2. ASSUME NEW m \in 0..n, m > 0, m - 1 \in G PROVE m \in G
    <2>1. PICK h : Folds(op, c, base, seq, h, m - 1) BY <1>2
    <2> DEFINE longer == [s \in SUBSET (1..m) |->
                            IF m \in s THEN Step(op, c, h[s \ {m}], seq[m]) ELSE h[s]]
    <2>2. \A s \in SUBSET (1..m) :
            longer[s] = IF s = {} THEN base
                        ELSE Step(op, c, longer[s \ {Max(s)}], seq[Max(s)])
      <3> TAKE s \in SUBSET (1..m)
      <3>1. CASE m \in s
        <4>0. m \in Nat /\ s \subseteq 1..m BY <1>2
        <4>1. Max(s) = m BY <4>0, <3>1, MaxOfTop
        <4>2. s \ {m} \in SUBSET (1..m) /\ m \notin s \ {m} /\ s # {} BY <3>1
        <4>3. longer[s \ {m}] = h[s \ {m}] BY <4>2
        <4>4. QED BY <3>1, <4>1, <4>2, <4>3
      <3>2. CASE m \notin s
        <4>1. s \in SUBSET (1..(m - 1)) BY <3>2
        <4>2. s \ {Max(s)} \in SUBSET (1..m) /\ m \notin s \ {Max(s)} BY <3>2
        <4>3. h[s] = IF s = {} THEN base ELSE Step(op, c, h[s \ {Max(s)}], seq[Max(s)])
          BY <2>1, <4>1 DEF Folds
        <4>4. QED BY <3>2, <4>2, <4>3
      <3>3. QED BY <3>1, <3>2
    <2>3. longer = [s \in SUBSET (1..m) |-> longer[s]] OBVIOUS
    <2> HIDE DEF longer
    <2>4. Folds(op, c, base, seq, longer, m) BY <2>2, <2>3 DEF Folds
    <2>5. QED BY <1>2, <2>4
  <1> HIDE DEF G
  <1>3. n \in 0..n OBVIOUS
  <1>4. n \in G BY <1>1, <1>2, <1>3, Induction
  <1>5. QED BY <1>4 DEF G

\* g[k] is the fold of the first k members.
Unrolls(op, c, base, seq, g, n) ==
  g[0] = base /\ \A k \in 1..n : g[k] = Step(op, c, g[k - 1], seq[k])

LEMMA FoldUnrolls ==
  ASSUME NEW op, NEW c, NEW base, NEW seq, NEW n \in Nat, NEW h,
         Folds(op, c, base, seq, h, n)
  PROVE  \E g : Unrolls(op, c, base, seq, g, n) /\ h[1..n] = g[n]
  <1> DEFINE g == [k \in 0..n |-> h[1..k]]
  <1>1. g[0] = base
    <2>1. 1..0 = {} OBVIOUS
    <2>2. h[{}] = base BY DEF Folds
    <2>3. QED BY <2>1, <2>2
  <1>2. ASSUME NEW k \in 1..n PROVE g[k] = Step(op, c, g[k - 1], seq[k])
    <2>1. 1..k \in SUBSET (1..n) /\ 1..k # {} /\ (1..k) \ {k} = 1..(k - 1) OBVIOUS
    <2>2. Max(1..k) = k BY MaxOfTop
    <2>3. h[1..k] = Step(op, c, h[(1..k) \ {Max(1..k)}], seq[Max(1..k)])
      BY <2>1 DEF Folds
    <2>4. g[k] = h[1..k] /\ g[k - 1] = h[1..(k - 1)] OBVIOUS
    <2> HIDE DEF g
    <2>5. QED BY <2>1, <2>2, <2>3, <2>4
  <1>3. h[1..n] = g[n] OBVIOUS
  <1> HIDE DEF g
  <1>4. QED BY <1>1, <1>2, <1>3 DEF Unrolls

\* What every step keeps, the whole fold keeps.
LEMMA FoldKeeps ==
  ASSUME NEW op, NEW c, NEW base, NEW seq, NEW n \in Nat, NEW g,
         Unrolls(op, c, base, seq, g, n), NEW A, base \in A,
         \A a \in A, k \in 1..n : Step(op, c, a, seq[k]) \in A
  PROVE  \A k \in 0..n : g[k] \in A
  <1> DEFINE G == {k \in 0..n : g[k] \in A}
  <1>1. 0 \in G BY DEF Unrolls
  <1>2. \A k \in 0..n : k > 0 /\ k - 1 \in G => k \in G BY DEF Unrolls
  <1> HIDE DEF G
  <1>3. \A k \in 0..n : k \in G BY <1>1, <1>2, Induction
  <1>4. QED BY <1>3 DEF G

LEMMA KeepFolds ==
  ASSUME NEW S, NEW seq, IsSeq(seq)
  PROVE  \E h : Unrolls("keep", S, <<>>, seq, h, Len(seq)) /\ Keep(seq, S) = h[Len(seq)]
  <1> DEFINE n == Len(seq)
             Rec(h) ==
               h = [s \in SUBSET (1..n) |->
                      IF s = {} THEN <<>>
                      ELSE IF seq[Max(s)] \in S THEN Append(h[s \ {Max(s)}], seq[Max(s)])
                           ELSE h[s \ {Max(s)}]]
             h == CHOOSE g : Rec(g)
  <1>1. n \in Nat /\ DOMAIN seq = 1..n BY IsSeqDomain
  <1>2. \A g : Rec(g) <=> Folds("keep", S, <<>>, seq, g, n) BY DEF Folds, Step
  <1>3. Keep(seq, S) = h[1..n] BY <1>1 DEF Keep, FoldLeft, MapThenFoldSet
  <1> HIDE DEF Rec
  <1>4. Rec(h) BY <1>1, <1>2, FoldExists
  <1> HIDE DEF h
  <1>5. QED BY <1>1, <1>2, <1>3, <1>4, FoldUnrolls

LEMMA MatchedFolds ==
  ASSUME NEW cfg, NEW mine, NEW found, IsSeq(found)
  PROVE  \E h : /\ Unrolls("take", [cfg |-> cfg, mine |-> mine], <<>>, found, h, Len(found))
                /\ Matched(cfg, mine, found) = h[Len(found)]
  <1> DEFINE n == Len(found)
             Rec(h) ==
               h = [s \in SUBSET (1..n) |->
                      IF s = {} THEN <<>>
                      ELSE Take(cfg, mine, h[s \ {Max(s)}], found[Max(s)])]
             h == CHOOSE g : Rec(g)
             c == [cfg |-> cfg, mine |-> mine]
  <1>1. n \in Nat /\ DOMAIN found = 1..n BY IsSeqDomain
  <1>2. \A g : Rec(g) <=> Folds("take", c, <<>>, found, g, n) BY DEF Folds, Step
  <1>3. Matched(cfg, mine, found) = h[1..n] BY <1>1 DEF Matched, FoldLeft, MapThenFoldSet
  <1> HIDE DEF Rec, c
  <1>4. Rec(h) BY <1>1, <1>2, FoldExists
  <1> HIDE DEF h
  <1>5. QED BY <1>1, <1>2, <1>3, <1>4, FoldUnrolls DEF c

LEMMA ApplyFolds ==
  ASSUME NEW cfg, NEW out, IsSeq(out)
  PROVE  \E h : /\ Unrolls("upsert", 0, cfg, out, h, Len(out))
                /\ apply_reconcile(cfg, out) = h[Len(out)]
  <1> DEFINE n == Len(out)
             Rec(h) ==
               h = [s \in SUBSET (1..n) |->
                      IF s = {} THEN cfg ELSE upsert_agent(h[s \ {Max(s)}], out[Max(s)])]
             h == CHOOSE g : Rec(g)
  <1>1. n \in Nat /\ DOMAIN out = 1..n BY IsSeqDomain
  <1>2. \A g : Rec(g) <=> Folds("upsert", 0, cfg, out, g, n) BY DEF Folds, Step
  <1>3. apply_reconcile(cfg, out) = h[1..n]
    BY <1>1 DEF apply_reconcile, FoldLeft, MapThenFoldSet
  <1> HIDE DEF Rec
  <1>4. Rec(h) BY <1>1, <1>2, FoldExists
  <1> HIDE DEF h
  <1>5. QED BY <1>1, <1>2, <1>3, <1>4, FoldUnrolls

LEMMA PinsFold ==
  ASSUME NEW pn, NEW out, IsSeq(out)
  PROVE  \E h : /\ Unrolls("pin", 0, pn, out, h, Len(out))
                /\ write_missing_agent_id_files(pn, out) = h[Len(out)]
  <1> DEFINE n == Len(out)
             Rec(h) ==
               h = [s \in SUBSET (1..n) |->
                      IF s = {} THEN pn ELSE WritePin(h[s \ {Max(s)}], out[Max(s)])]
             h == CHOOSE g : Rec(g)
  <1>1. n \in Nat /\ DOMAIN out = 1..n BY IsSeqDomain
  <1>2. \A g : Rec(g) <=> Folds("pin", 0, pn, out, g, n) BY DEF Folds, Step
  <1>3. write_missing_agent_id_files(pn, out) = h[1..n]
    BY <1>1 DEF write_missing_agent_id_files, FoldLeft, MapThenFoldSet
  <1> HIDE DEF Rec
  <1>4. Rec(h) BY <1>1, <1>2, FoldExists
  <1> HIDE DEF h
  <1>5. QED BY <1>1, <1>2, <1>3, <1>4, FoldUnrolls

PlanOf(cfg, pn, runtime) ==
  LET mine  == agents_for_runtime(cfg, runtime)
      found == discover_agents(runtime)
  IN  [cfg |-> cfg, mine |-> mine, found |-> found, runtime |-> runtime,
       pins |-> pn, adopted |-> Adopts(cfg, mine, found), match |-> RowsOf(cfg, mine, found)]

LEMMA ReconcileFolds ==
  ASSUME NEW cfg, NEW pn, NEW runtime, NEW n \in Nat,
         DOMAIN discover_agents(runtime) = 1..n
  PROVE  \E h : /\ Unrolls("settle", PlanOf(cfg, pn, runtime), <<>>, [k \in 1..n |-> k], h, n)
                /\ reconcile(cfg, pn, runtime) = h[n]
  <1> DEFINE plan == PlanOf(cfg, pn, runtime)
             ks == [k \in 1..n |-> k]
             Rec(h) ==
               h = [s \in SUBSET (1..n) |->
                      IF s = {} THEN <<>> ELSE Settle(plan, h[s \ {Max(s)}], ks[Max(s)])]
             h == CHOOSE g : Rec(g)
  <1>2. \A g : Rec(g) <=> Folds("settle", plan, <<>>, ks, g, n) BY DEF Folds, Step
  <1>3. reconcile(cfg, pn, runtime) = h[1..n]
    <2>1. reconcile(cfg, pn, runtime) = FoldLeft(LAMBDA out, k : Settle(plan, out, k), <<>>, ks)
      BY DEF reconcile, PlanOf
    <2>2. DOMAIN ks = 1..n OBVIOUS
    <2> HIDE DEF plan, ks
    <2>3. QED BY <2>1, <2>2 DEF FoldLeft, MapThenFoldSet
  <1> HIDE DEF Rec, plan, ks
  <1>4. Rec(h) BY <1>2, FoldExists
  <1> HIDE DEF h
  <1>5. \E g : Unrolls("settle", plan, <<>>, ks, g, n) /\ h[1..n] = g[n]
    BY <1>2, <1>4, FoldUnrolls
  <1>6. QED BY <1>3, <1>5 DEF plan, ks

-----------------------------------------------------------------------------
(***************************************************************************)
(* What discovery concludes                                                *)
(***************************************************************************)
Zcids == 1..MaxAgents \cup {None}

Binding == [alias : Aliases, zcid : Zcids, ws : Aliases, enable : BOOLEAN]

Row == [runtime : Runtimes \cup {None}, alias : Aliases, zcid : Zcids, ws : Aliases, alf : AlfIds,
        enabled : BOOLEAN]

OnePerId(cfg) == \A j, k \in DOMAIN cfg : j # k => cfg[j].alf # cfg[k].alf

Mappings == {cfg \in Seq(Row) : OnePerId(cfg)}

PinTable == [Aliases -> AlfIds \cup {None}]

\* The part of the invariant that discovery reads the agents table by.
RosterType ==
  /\ DOMAIN brain \subseteq Nat
  /\ brain \in Seq([id : 1..MaxAgents, alias : Aliases])
  /\ \A j, k \in DOMAIN brain : j # k => brain[j].id # brain[k].id /\ brain[j].alias # brain[k].alias

\* A binding is its alias: the id and the workspace go with it.
Bound(b) == b.ws = b.alias /\ b.zcid = IF Named(b.alias) = {} THEN None ELSE brain[Min(Named(b.alias))].id

LEMMA KeepType ==
  ASSUME NEW T, NEW seq \in Seq(T), NEW S
  PROVE  Keep(seq, S) \in Seq(T)
  <1> DEFINE n == Len(seq)
  <1>1. IsSeq(seq) /\ n \in Nat /\ \A k \in 1..n : seq[k] \in T BY SeqIsSeq
  <1>2. PICK h : Unrolls("keep", S, <<>>, seq, h, n) /\ Keep(seq, S) = h[n]
    BY <1>1, KeepFolds
  <1>3. \A a \in Seq(T), k \in 1..n : Step("keep", S, a, seq[k]) \in Seq(T)
    BY <1>1, AppendProperties DEF Step
  <1>4. <<>> \in Seq(T) /\ n \in 0..n BY <1>1, EmptySeq
  <1> HIDE DEF n
  <1>5. h[n] \in Seq(T) BY <1>1, <1>2, <1>3, <1>4, FoldKeeps
  <1>6. QED BY <1>2, <1>5

LEMMA NamedAgent ==
  ASSUME RosterType, NEW a, Named(a) # {}
  PROVE  /\ Min(Named(a)) \in DOMAIN brain
         /\ brain[Min(Named(a))].alias = a
         /\ brain[Min(Named(a))].id \in 1..MaxAgents
  <1>1. Min(Named(a)) \in Named(a) BY MinIn DEF RosterType, Named
  <1>2. \A k \in DOMAIN brain : brain[k] \in [id : 1..MaxAgents, alias : Aliases]
    BY SeqIsSeq DEF RosterType
  <1>3. QED BY <1>1, <1>2 DEF Named

LEMMA DiscoveredType ==
  ASSUME RosterType, NEW runtime \in Runtimes
  PROVE  /\ discover_agents(runtime) \in Seq(Binding)
         /\ runtime = "zeroclaw" =>
              \E sole : \A k \in DOMAIN discover_agents(runtime) :
                LET b == discover_agents(runtime)[k]
                IN  Bound(b) /\ b.enable = DefaultEnabled(b.alias, sole)
  <1> DEFINE found == discover_agents(runtime)
  <1>1. CASE runtime = "zeroclaw"
    <2> DEFINE inTable == [k \in DOMAIN brain |-> brain[k].alias]
               declared == Keep(Declared, Aliases \ Range(inTable))
               aliases == inTable \o declared
               known == IF aliases = <<>> THEN <<DefaultAlias>> ELSE aliases
               sole == Len(known) = 1
               B(a) == [alias |-> a,
                        zcid |-> IF Named(a) = {} THEN None ELSE brain[Min(Named(a))].id,
                        ws |-> a, enable |-> DefaultEnabled(a, sole)]
    <2>1. inTable \in Seq(Aliases)
      <3>1. /\ Len(brain) \in Nat /\ DOMAIN brain = 1..Len(brain)
            /\ \A k \in DOMAIN brain : brain[k] \in [id : 1..MaxAgents, alias : Aliases]
        BY SeqIsSeq DEF RosterType
      <3>2. inTable \in [1..Len(brain) -> Aliases] BY <3>1
      <3>3. QED BY <3>1, <3>2, SeqDef
    <2>2. declared \in Seq(Aliases) BY KeepType, MappingConstants
    <2>3. known \in Seq(Aliases)
      <3>1. aliases \in Seq(Aliases) BY <2>1, <2>2, ConcatProperties
      <3>2. DefaultAlias \in Aliases BY MappingConstants
      <3> HIDE DEF aliases
      <3>3. QED BY <3>1, <3>2
    <2>4. found = [k \in DOMAIN known |-> B(known[k])]
      BY <1>1 DEF discover_agents, ZeroClawAgents
    <2> HIDE DEF known, sole, found
    <2>5. /\ Len(known) \in Nat /\ DOMAIN known = 1..Len(known)
          /\ \A k \in DOMAIN known : known[k] \in Aliases
      BY <2>3, SeqIsSeq
    <2>6. \A a \in Aliases : B(a) \in Binding
      BY NamedAgent DEF Binding, Zcids, DefaultEnabled
    <2>7. found \in Seq(Binding)
      <3>1. found \in [1..Len(known) -> Binding] BY <2>4, <2>5, <2>6
      <3>2. QED BY <3>1, <2>5, SeqDef
    <2>8. \A k \in DOMAIN found :
            Bound(found[k]) /\ found[k].enable = DefaultEnabled(found[k].alias, sole)
      BY <2>4 DEF Bound
    <2>9. QED BY <2>7, <2>8 DEF found
  <1>2. CASE runtime # "zeroclaw"
    <2> DEFINE b == [alias |-> DefaultAlias, zcid |-> None, ws |-> Shared, enable |-> TRUE]
    <2>1. found = <<b>> BY <1>2 DEF discover_agents
    <2>2. b \in Binding BY MappingConstants DEF Binding, Zcids
    <2> HIDE DEF b
    <2>3. QED BY <1>2, <2>1, <2>2
  <1>3. QED BY <1>1, <1>2

\* The row of a binding is one of the runtime's, or none.
LEMMA RowsOfType ==
  ASSUME NEW cfg, NEW mine \in SUBSET Nat, NEW found, IsSeq(found)
  PROVE  \A k \in DOMAIN found : RowsOf(cfg, mine, found)[k] \in mine \cup {0}
  <1> DEFINE n == Len(found)
             c == [cfg |-> cfg, mine |-> mine]
             M == Seq(mine \cup {0})
  <1>1. n \in Nat /\ DOMAIN found = 1..n BY IsSeqDomain
  <1>2. PICK h : /\ Unrolls("take", c, <<>>, found, h, n)
                 /\ Matched(cfg, mine, found) = h[n]
    BY MatchedFolds
  <1>3. ASSUME NEW taken \in M, NEW b
        PROVE  /\ Take(cfg, mine, taken, b) \in M
               /\ Len(Take(cfg, mine, taken, b)) = Len(taken) + 1
    <2> DEFINE by(r) == {k \in mine \ Range(taken) : Fits(r, cfg[k], b)}
               rules == {r \in 1..3 : by(r) # {}}
               row == IF rules = {} THEN 0 ELSE Min(by(Min(rules)))
    <2>1. row \in mine \cup {0}
      <3>1. CASE rules = {} BY <3>1
      <3>2. CASE rules # {}
        <4>0. rules \subseteq Nat OBVIOUS
        <4>1. Min(rules) \in rules
          <5> HIDE DEF rules
          <5>1. QED BY <3>2, <4>0, MinIn
        <4>2. by(Min(rules)) # {} BY <4>1
        <4>3. by(Min(rules)) \subseteq mine OBVIOUS
        <4> HIDE DEF by, rules
        <4>4. Min(by(Min(rules))) \in mine BY <4>2, <4>3, MinIn
        <4>5. QED BY <3>2, <4>4
      <3>3. QED BY <3>1, <3>2
    <2>2. Take(cfg, mine, taken, b) = Append(taken, row) BY DEF Take
    <2> HIDE DEF row
    <2>3. QED BY <2>1, <2>2, AppendProperties
  <1>4. h[0] = <<>> /\ \A k \in 1..n : h[k] = Take(cfg, mine, h[k - 1], found[k])
    <2> c.cfg = cfg /\ c.mine = mine OBVIOUS
    <2> HIDE DEF n, c
    <2>1. QED BY <1>2 DEF Unrolls, Step
  <1>5. \A k \in 0..n : h[k] \in M /\ Len(h[k]) = k
    <2> DEFINE G == {k \in 0..n : h[k] \in M /\ Len(h[k]) = k}
    <2>1. 0 \in G
      <3>1. <<>> \in M /\ Len(<<>>) = 0 BY EmptySeq
      <3> HIDE DEF M
      <3>2. 0 \in 0..n /\ h[0] = <<>> BY <1>1, <1>4
      <3>3. QED BY <3>1, <3>2
    <2>2. ASSUME NEW k \in 0..n, k > 0, k - 1 \in G PROVE k \in G
      <3>1. h[k] = Take(cfg, mine, h[k - 1], found[k]) BY <1>1, <1>4, <2>2
      <3>2. h[k - 1] \in M /\ Len(h[k - 1]) = k - 1 BY <2>2
      <3> HIDE DEF M
      <3>3. QED BY <1>1, <1>3, <2>2, <3>1, <3>2
    <2> HIDE DEF G
    <2>3. \A k \in 0..n : k \in G BY <1>1, <2>1, <2>2, Induction
    <2>4. QED BY <2>3 DEF G
  <1>6. Matched(cfg, mine, found) \in M /\ Len(Matched(cfg, mine, found)) = n
    BY <1>1, <1>2, <1>5
  <1>7. \A k \in DOMAIN found : Matched(cfg, mine, found)[k] \in mine \cup {0}
    BY <1>1, <1>6, ElementOfSeq
  <1>8. ASSUME NEW k \in DOMAIN found, k \in Adopts(cfg, mine, found)
        PROVE  Min(mine) \in mine
    <2>1. Cardinality(mine) = 1 BY <1>8 DEF Adopts
    <2>2. mine # {} BY <2>1, FS_EmptySet
    <2>3. QED BY <2>2, MinIn
  <1>9. QED BY <1>7, <1>8 DEF RowsOf

LEMMA AllocatedType ==
  ASSUME NEW pn \in PinTable, NEW b \in Binding, NEW runtime \in Runtimes,
         NEW taken, NEW foreign, NEW alone
  PROVE  Allocated(b, runtime, pn, taken, foreign, alone) \in AlfIds
  <1>1. pn[b.ws] \in AlfIds \cup {None} /\ b.ws \in Aliases BY DEF PinTable, Binding
  <1>2. <<runtime, b.ws>> \in AlfIds BY <1>1 DEF AlfIds
  <1>3. Cardinality(StateIds) = 1 => (CHOOSE s \in StateIds : TRUE) \in AlfIds
    <2>1. Cardinality(StateIds) = 1 => StateIds # {} BY FS_EmptySet
    <2>2. QED BY <2>1 DEF AlfIds
  <1>4. QED BY <1>1, <1>2, <1>3 DEF Allocated, resolve_agent_id


PlanType(plan) ==
  /\ plan.cfg \in Seq(Row) /\ plan.mine \subseteq DOMAIN plan.cfg
  /\ plan.found \in Seq(Binding) /\ plan.pins \in PinTable /\ plan.runtime \in Runtimes
  /\ \A k \in DOMAIN plan.found : plan.match[k] \in plan.mine \cup {0}

LEMMA SettleType ==
  ASSUME NEW plan, PlanType(plan), NEW out \in Seq(Row), NEW k \in DOMAIN plan.found
  PROVE  /\ Settle(plan, out, k) \in Seq(Row)
         /\ \A e \in Range(out) : e \in Range(Settle(plan, out, k))
         /\ plan.match[k] # 0 /\ ~Drifts(plan.cfg[plan.match[k]], plan.found[k], plan.pins) =>
              Refreshed(plan.cfg[plan.match[k]], plan.found[k], k \in plan.adopted)
                \in Range(Settle(plan, out, k))
  <1> DEFINE cfg == plan.cfg
             mine == plan.mine
             b == plan.found[k]
             row == cfg[plan.match[k]]
             taken == {cfg[j].alf : j \in mine} \cup IdsOf(out)
             foreign == {cfg[j].alf : j \in DOMAIN cfg \ mine}
             alone == mine = {} /\ Len(plan.found) = 1
             alf == Allocated(b, plan.runtime, plan.pins, taken, foreign, alone)
             New == [runtime |-> plan.runtime, alias |-> b.alias, zcid |-> b.zcid, ws |-> b.ws,
                     alf |-> alf, enabled |-> mine = {} /\ b.enable]
             fresh == Refreshed(row, b, k \in plan.adopted)
  <1>1. b \in Binding BY SeqIsSeq DEF PlanType
  <1>2. alf \in AlfIds BY <1>1, AllocatedType DEF PlanType
  <1>3. New \in Row
    <2> HIDE DEF alf
    <2>1. QED BY <1>1, <1>2 DEF Row, Binding, PlanType
  <1>4. ASSUME plan.match[k] # 0 PROVE fresh \in Row
    <2>1. row \in Row BY <1>4, SeqIsSeq DEF PlanType
    <2> HIDE DEF row, b
    <2>2. QED BY <1>1, <2>1 DEF Refreshed, Row, Binding
  <1>5. Settle(plan, out, k) = IF plan.match[k] = 0 THEN Append(out, New)
                               ELSE IF Drifts(row, b, plan.pins) THEN out
                               ELSE Append(out, fresh)
    BY DEF Settle
  <1> HIDE DEF New, fresh
  <1>6. ASSUME NEW e \in Row
        PROVE  /\ Append(out, e) \in Seq(Row)
               /\ \A d \in Range(out) \cup {e} : d \in Range(Append(out, e))
    BY AppendRange
  <1>7. QED BY <1>3, <1>4, <1>5, <1>6 DEF fresh

LEMMA ReconcileType ==
  ASSUME RosterType, NEW cfg \in Seq(Row), NEW pn \in PinTable, NEW runtime \in Runtimes
  PROVE  /\ PlanType(PlanOf(cfg, pn, runtime))
         /\ reconcile(cfg, pn, runtime) \in Seq(Row)
         /\ LET plan == PlanOf(cfg, pn, runtime)
            IN  \A k \in DOMAIN plan.found :
                  plan.match[k] # 0 /\ ~Drifts(cfg[plan.match[k]], plan.found[k], pn) =>
                    Refreshed(cfg[plan.match[k]], plan.found[k], k \in plan.adopted)
                      \in Range(reconcile(cfg, pn, runtime))
  <1> DEFINE plan == PlanOf(cfg, pn, runtime)
             mine == agents_for_runtime(cfg, runtime)
             found == discover_agents(runtime)
             n == Len(found)
             ks == [k \in 1..n |-> k]
             out == reconcile(cfg, pn, runtime)
  <1>1. found \in Seq(Binding) /\ IsSeq(found) /\ n \in Nat /\ DOMAIN found = 1..n
    BY DiscoveredType, SeqIsSeq
  <1>2. mine \subseteq DOMAIN cfg /\ mine \in SUBSET Nat
    BY SeqIsSeq DEF agents_for_runtime
  <1>3. \A k \in DOMAIN found : RowsOf(cfg, mine, found)[k] \in mine \cup {0}
    BY <1>1, <1>2, RowsOfType
  <1>4. /\ plan.cfg = cfg /\ plan.mine = mine /\ plan.found = found /\ plan.pins = pn
        /\ plan.runtime = runtime /\ plan.match = RowsOf(cfg, mine, found)
    BY DEF PlanOf
  <1>5. PlanType(plan) BY <1>1, <1>2, <1>3, <1>4 DEF PlanType
  <1>6. PICK g : Unrolls("settle", plan, <<>>, ks, g, n) /\ out = g[n]
    BY <1>1, ReconcileFolds
  <1>7. g[0] = <<>> /\ \A k \in 1..n : g[k] = Settle(plan, g[k - 1], k)
    <2> HIDE DEF n, plan
    <2>1. QED BY <1>6 DEF Unrolls, Step
  <1> HIDE DEF plan, n, found
  <1>8. \A k \in 0..n : g[k] \in Seq(Row)
    <2> DEFINE G == {k \in 0..n : g[k] \in Seq(Row)}
    <2>1. 0 \in G
      <3>1. <<>> \in Seq(Row) BY EmptySeq
      <3>2. 0 \in 0..n /\ g[0] = <<>> BY <1>1, <1>7
      <3>3. QED BY <3>1, <3>2
    <2>2. ASSUME NEW k \in 0..n, k > 0, k - 1 \in G PROVE k \in G
      <3>1. k \in DOMAIN plan.found /\ g[k] = Settle(plan, g[k - 1], k)
        BY <1>1, <1>4, <1>7, <2>2
      <3>2. QED BY <1>5, <2>2, <3>1, SettleType
    <2> HIDE DEF G
    <2>3. \A k \in 0..n : k \in G BY <1>1, <2>1, <2>2, Induction
    <2>4. QED BY <2>3 DEF G
  <1>9. ASSUME NEW j \in 1..n, NEW e \in Range(g[j])
        PROVE  e \in Range(g[n])
    <2> DEFINE G == {k \in 0..n : k >= j => e \in Range(g[k])}
    <2>1. 0 \in G
      <3>1. 0 \in 0..n /\ ~(0 >= j) BY <1>1
      <3>2. QED BY <3>1
    <2>2. ASSUME NEW k \in 0..n, k > 0, k - 1 \in G PROVE k \in G
      <3>1. CASE k < j BY <3>1
      <3>2. CASE k = j BY <3>2, <1>9
      <3>3. CASE k > j
        <4>1. e \in Range(g[k - 1]) BY <1>1, <2>2, <3>3
        <4>2. k \in DOMAIN plan.found /\ g[k] = Settle(plan, g[k - 1], k) /\ g[k - 1] \in Seq(Row)
          BY <1>1, <1>4, <1>7, <1>8, <2>2
        <4>3. e \in Range(g[k]) BY <1>5, <4>1, <4>2, SettleType
        <4>4. QED BY <2>2, <4>3
      <3>4. QED BY <1>1, <3>1, <3>2, <3>3
    <2> HIDE DEF G
    <2>3. \A k \in 0..n : k \in G BY <1>1, <2>1, <2>2, Induction
    <2>4. n \in G BY <1>1, <2>3
    <2>5. QED BY <1>1, <2>4 DEF G
  <1>10. ASSUME NEW k \in DOMAIN plan.found, plan.match[k] # 0,
                ~Drifts(cfg[plan.match[k]], plan.found[k], pn)
         PROVE  Refreshed(cfg[plan.match[k]], plan.found[k], k \in plan.adopted) \in Range(out)
    <2>1. k \in 1..n /\ g[k] = Settle(plan, g[k - 1], k) /\ g[k - 1] \in Seq(Row)
      BY <1>1, <1>4, <1>7, <1>8
    <2>2. Refreshed(cfg[plan.match[k]], plan.found[k], k \in plan.adopted) \in Range(g[k])
      BY <1>4, <1>5, <1>10, <2>1, SettleType
    <2>3. QED BY <1>6, <1>9, <2>1, <2>2
  <1>11. out \in Seq(Row) BY <1>1, <1>6, <1>8
  <1>12. QED BY <1>5, <1>10, <1>11 DEF plan

-----------------------------------------------------------------------------
(***************************************************************************)
(* What is written of it                                                   *)
(***************************************************************************)
LEMMA UpsertType ==
  ASSUME NEW cfg \in Mappings, NEW entry \in Row
  PROVE  upsert_agent(cfg, entry) \in Mappings
  <1> DEFINE same == {k \in DOMAIN cfg : cfg[k].alf = entry.alf}
             n == Len(cfg)
  <1>1. cfg \in Seq(Row) /\ n \in Nat /\ DOMAIN cfg = 1..n /\ OnePerId(cfg)
    BY SeqIsSeq DEF Mappings
  <1>2. CASE same = {}
    <2> DEFINE more == Append(cfg, entry)
    <2>1. /\ more \in Seq(Row) /\ Len(more) = n + 1
          /\ \A k \in 1..n : more[k] = cfg[k]
          /\ more[n + 1] = entry
      BY <1>1, AppendProperties
    <2>2. DOMAIN more = 1..(n + 1) BY <1>1, <2>1, LenProperties
    <2>3. upsert_agent(cfg, entry) = more BY <1>2 DEF upsert_agent
    <2> HIDE DEF more
    <2>4. OnePerId(more) BY <1>1, <1>2, <2>1, <2>2 DEF OnePerId
    <2>5. QED BY <2>1, <2>3, <2>4 DEF Mappings
  <1>3. CASE same # {}
    <2> DEFINE at == Min(same)
               new == [cfg EXCEPT ![at] = entry]
    <2>1. at \in same
      <3>1. same \subseteq Nat BY <1>1
      <3> HIDE DEF same
      <3>2. QED BY <1>3, <3>1, MinIn
    <2>2. upsert_agent(cfg, entry) = new BY <1>3 DEF upsert_agent
    <2>3. at \in 1..n /\ cfg[at].alf = entry.alf BY <1>1, <2>1
    <2> HIDE DEF at
    <2>4. /\ new \in Seq(Row) /\ Len(new) = n
          /\ \A k \in 1..n : new[k] = IF k = at THEN entry ELSE cfg[k]
      BY <1>1, <2>3, ExceptSeq
    <2>5. DOMAIN new = 1..n BY <1>1, <2>4, LenProperties
    <2> HIDE DEF new
    <2>6. \A k \in 1..n : new[k].alf = cfg[k].alf BY <2>3, <2>4
    <2>7. OnePerId(new) BY <1>1, <2>5, <2>6 DEF OnePerId
    <2>8. QED BY <2>2, <2>4, <2>7 DEF Mappings
  <1>4. QED BY <1>2, <1>3

LEMMA ApplyType ==
  ASSUME NEW cfg \in Mappings, NEW out \in Seq(Row)
  PROVE  apply_reconcile(cfg, out) \in Mappings
  <1> DEFINE n == Len(out)
  <1>1. IsSeq(out) /\ n \in Nat /\ \A k \in 1..n : out[k] \in Row BY SeqIsSeq
  <1>2. PICK g : Unrolls("upsert", 0, cfg, out, g, n) /\ apply_reconcile(cfg, out) = g[n]
    BY <1>1, ApplyFolds
  <1>3. \A a \in Mappings, k \in 1..n : Step("upsert", 0, a, out[k]) \in Mappings
    BY <1>1, UpsertType DEF Step
  <1>4. n \in 0..n BY <1>1
  <1> HIDE DEF n
  <1>5. g[n] \in Mappings BY <1>1, <1>2, <1>3, <1>4, FoldKeeps
  <1>6. QED BY <1>2, <1>5

LEMMA PinsType ==
  ASSUME NEW pn \in PinTable, NEW out \in Seq(Row)
  PROVE  write_missing_agent_id_files(pn, out) \in PinTable
  <1> DEFINE n == Len(out)
  <1>1. IsSeq(out) /\ n \in Nat /\ \A k \in 1..n : out[k] \in Row BY SeqIsSeq
  <1>2. PICK g : /\ Unrolls("pin", 0, pn, out, g, n)
                 /\ write_missing_agent_id_files(pn, out) = g[n]
    BY <1>1, PinsFold
  <1>3. ASSUME NEW a \in PinTable, NEW k \in 1..n
        PROVE  Step("pin", 0, a, out[k]) \in PinTable
    <2>1. out[k] \in Row BY <1>1
    <2>2. out[k].ws \in Aliases /\ out[k].alf \in AlfIds BY <2>1 DEF Row
    <2>3. WritePin(a, out[k]) \in PinTable BY <2>2 DEF WritePin, PinTable
    <2>4. QED BY <2>3 DEF Step
  <1>4. n \in 0..n BY <1>1
  <1> HIDE DEF n
  <1>5. g[n] \in PinTable BY <1>1, <1>2, <1>3, <1>4, FoldKeeps
  <1>6. QED BY <1>2, <1>5

-----------------------------------------------------------------------------
(***************************************************************************)
(* Selection                                                               *)
(***************************************************************************)

\* A binding is known by its workspace, and by its runtime id when it has one.
LEMMA SameBinding ==
  ASSUME RosterType, NEW a \in Binding, NEW b \in Binding, NEW sole,
         Bound(a), a.enable = DefaultEnabled(a.alias, sole),
         Bound(b), b.enable = DefaultEnabled(b.alias, sole),
         a.ws = b.ws \/ (a.zcid # None /\ a.zcid = b.zcid)
  PROVE  a = b
  <1>1. a.alias = b.alias
    <2>1. CASE a.ws = b.ws BY <2>1 DEF Bound
    <2>2. CASE a.zcid # None /\ a.zcid = b.zcid
      <3> DEFINE i == Min(Named(a.alias))
                 j == Min(Named(b.alias))
      <3>1. /\ Named(a.alias) # {} /\ Named(b.alias) # {}
            /\ brain[i].id = a.zcid /\ brain[j].id = b.zcid
        BY <2>2 DEF Bound
      <3>2. /\ i \in DOMAIN brain /\ brain[i].alias = a.alias
            /\ j \in DOMAIN brain /\ brain[j].alias = b.alias
        BY <3>1, NamedAgent
      <3> HIDE DEF i, j
      <3>3. i = j BY <2>2, <3>1, <3>2 DEF RosterType
      <3>4. QED BY <3>2, <3>3
    <2>3. QED BY <2>1, <2>2
  <1>2. a.zcid = b.zcid /\ a.ws = b.ws /\ a.enable = b.enable BY <1>1 DEF Bound
  <1>3. QED BY <1>1, <1>2 DEF Binding

LEMMA SelectedAsMatched ==
  ASSUME RosterType, rows \in Mappings, pins \in PinTable,
         ~Dirty(rows, pins, "zeroclaw"),
         NEW k \in DOMAIN discover_agents("zeroclaw"),
         NEW r, r = RowsOf(rows, agents_for_runtime(rows, "zeroclaw"),
                           discover_agents("zeroclaw"))[k],
         r # 0, ~Drifts(rows[r], discover_agents("zeroclaw")[k], pins)
  PROVE  to_selected(rows[r]) = discover_agents("zeroclaw")[k]
  <1> DEFINE mine == agents_for_runtime(rows, "zeroclaw")
             found == discover_agents("zeroclaw")
             plan == PlanOf(rows, pins, "zeroclaw")
             out == reconcile(rows, pins, "zeroclaw")
             row == rows[r]
             b == found[k]
             fresh == Refreshed(row, b, k \in plan.adopted)
  <1>1. "zeroclaw" \in Runtimes BY DEF Runtimes
  <1>2. /\ rows \in Seq(Row) /\ OnePerId(rows)
        /\ \A i \in DOMAIN rows : rows[i] \in Row
        /\ DOMAIN rows \subseteq Nat
    BY SeqIsSeq DEF Mappings
  <1>3. /\ found \in Seq(Binding) /\ IsSeq(found) /\ DOMAIN found \subseteq Nat
        /\ \A i \in DOMAIN found : found[i] \in Binding
    BY <1>1, DiscoveredType, SeqIsSeq
  <1>4. r \in mine
    <2>1. mine \in SUBSET Nat BY <1>2 DEF agents_for_runtime
    <2>2. QED BY <1>3, <2>1, RowsOfType
  <1>5. r \in DOMAIN rows BY <1>4 DEF agents_for_runtime
  <1>6. fresh \in Range(out)
    <2>1. plan.found = found /\ plan.match[k] = r BY DEF PlanOf
    <2>2. \A i \in DOMAIN plan.found :
            plan.match[i] # 0 /\ ~Drifts(rows[plan.match[i]], plan.found[i], pins) =>
              Refreshed(rows[plan.match[i]], plan.found[i], i \in plan.adopted) \in Range(out)
      BY <1>1, <1>2, ReconcileType
    <2> HIDE DEF plan, found, out
    <2>3. QED BY <2>1, <2>2 DEF found
  <1>7. fresh \in Range(rows) BY <1>6 DEF Dirty
  <1>8. fresh.alf = row.alf /\ fresh.ws = b.ws /\ fresh.zcid = b.zcid
    <2>1. row \in Row BY <1>2, <1>5
    <2> HIDE DEF row, b, plan
    <2>2. QED BY <2>1 DEF Refreshed, Row
  <1> HIDE DEF fresh
  <1>9. fresh = row
    <2>1. PICK j \in DOMAIN rows : fresh = rows[j] BY <1>7 DEF Range
    <2>2. rows[j].alf = rows[r].alf BY <1>8, <2>1
    <2>3. j = r BY <1>2, <1>5, <2>2 DEF OnePerId
    <2>4. QED BY <2>1, <2>3
  <1>10. row.ws = b.ws /\ row.zcid = b.zcid BY <1>8, <1>9
  <1> DEFINE hits == {i \in DOMAIN found : \/ found[i].zcid # None /\ found[i].zcid = row.zcid
                                           \/ found[i].ws = row.ws}
             m == Min(hits)
  <1>11. k \in hits /\ hits \subseteq Nat BY <1>3, <1>10
  <1>12. m \in hits
    <2> HIDE DEF hits
    <2>1. QED BY <1>11, MinIn
  <1>13. to_selected(row) = found[m] BY <1>5, <1>11 DEF to_selected
  <1>14. PICK sole : \A i \in DOMAIN found :
                       Bound(found[i]) /\ found[i].enable = DefaultEnabled(found[i].alias, sole)
    BY <1>1, DiscoveredType
  <1>15. found[m] = b
    <2>1. m \in DOMAIN found BY <1>12
    <2>2. found[m].ws = b.ws \/ (found[m].zcid # None /\ found[m].zcid = b.zcid)
      BY <1>10, <1>12
    <2> HIDE DEF found, m
    <2>3. /\ found[m] \in Binding /\ found[k] \in Binding /\ k \in DOMAIN found
      BY <1>3, <2>1 DEF found
    <2>4. QED BY <1>14, <2>1, <2>2, <2>3, SameBinding
  <1>16. QED BY <1>13, <1>15

-----------------------------------------------------------------------------
(***************************************************************************)
(* Types                                                                   *)
(***************************************************************************)
Agent == [id : 1..MaxAgents, alias : Aliases]

Memory == [id : 1..MaxRows, key : Keys, text : 1..MaxRows, owner : 1..MaxAgents]

\* What a process carries from its reading to its writing.
Held(c) ==
  /\ c.op \in {"check", "first"} => c.runtime \in Runtimes /\ c.cfg \in Seq(Row)
  /\ c.op \in {"persist", "seed"} => c.out \in Seq(Row)
  /\ c.op = "export" => c.alf \in AlfIds /\ c.binding \in Binding

ProcInv ==
  /\ DOMAIN procs = Procs
  /\ \A p \in Procs : procs[p] # None => Held(procs[p])

TypeInv ==
  /\ StoreInv
  /\ used.agents <= MaxAgents /\ used.rows <= MaxRows
  /\ brain \in Seq(Agent)
  /\ slices \subseteq Memory
  /\ \A x \in AlfIds : archives[x] # None => archives[x] \in ArchiveType
  /\ rows \in Mappings
  /\ pins \in PinTable
  /\ ProcInv

LEMMA RosterTyped ==
  ASSUME TypeInv
  PROVE  RosterType
  <1>1. DOMAIN brain \subseteq Nat BY SeqIsSeq DEF TypeInv
  <1>2. QED BY <1>1 DEF TypeInv, StoreInv, Roster, RosterType, Agent

LEMMA SliceIdType ==
  ASSUME TypeInv, NEW b \in Binding
  PROVE  SliceId(b) \in Zcids
  <1>1. Named(b.alias) # {} => brain[Min(Named(b.alias))].id \in 1..MaxAgents
    BY RosterTyped, NamedAgent
  <1>2. b.zcid \in Zcids BY DEF Binding
  <1>3. QED BY <1>1, <1>2 DEF SliceId, Zcids

LEMMA SelectedType ==
  ASSUME TypeInv, NEW row \in Row
  PROVE  to_selected(row) \in Binding
  <1> DEFINE found == discover_agents("zeroclaw")
             hits == {k \in DOMAIN found : \/ found[k].zcid # None /\ found[k].zcid = row.zcid
                                           \/ found[k].ws = row.ws}
  <1>1. "zeroclaw" \in Runtimes BY DEF Runtimes
  <1>2. DOMAIN found \subseteq Nat /\ \A k \in DOMAIN found : found[k] \in Binding
    BY <1>1, RosterTyped, DiscoveredType, SeqIsSeq
  <1>3. CASE hits # {}
    <2>1. hits \subseteq Nat BY <1>2
    <2>2. to_selected(row) = found[Min(hits)] BY <1>3 DEF to_selected
    <2>3. Min(hits) \in DOMAIN found
      <3>1. hits \subseteq DOMAIN found OBVIOUS
      <3> HIDE DEF hits, found
      <3>2. QED BY <1>3, <2>1, <3>1, MinIn
    <2> HIDE DEF hits, found
    <2>4. QED BY <1>2, <2>2, <2>3
  <1>4. CASE hits = {}
    <2>1. to_selected(row) = [alias |-> row.alias, zcid |-> row.zcid, ws |-> row.ws,
                              enable |-> row.enabled]
      BY <1>4 DEF to_selected
    <2>2. QED BY <2>1 DEF Row, Binding
  <1>5. QED BY <1>3, <1>4

LEMMA OutcomeType ==
  ASSUME TypeInv, NEW cfg \in Seq(Row), NEW runtime \in Runtimes
  PROVE  reconcile(cfg, pins, runtime) \in Seq(Row)
  BY RosterTyped, ReconcileType DEF TypeInv

LEMMA CarriedType ==
  ASSUME TypeInv, NEW z
  PROVE  {Archived(s) : s \in SliceOf(z)}
           \in SUBSET [id : 1..MaxRows, key : Keys, text : 1..MaxRows]
  BY DEF TypeInv, Memory, Archived, SliceOf

LEMMA RestoredType ==
  ASSUME TypeInv, NEW target \in 1..MaxAgents, NEW a \in ArchiveType
  PROVE  restore_total(target, a) \subseteq Memory /\ restore_merge(target, a) \subseteq Memory
  <1>1. slices \subseteq Memory BY DEF TypeInv
  <1>2. \A r \in a.rows : r \in [id : 1..MaxRows, key : Keys, text : 1..MaxRows]
    BY DEF ArchiveType
  <1>3. \A r \in a.rows : [id |-> r.id, key |-> r.key, text |-> r.text, owner |-> target] \in Memory
    BY <1>2 DEF Memory
  <1>4. restore_total(target, a) \subseteq Memory BY <1>1, <1>3 DEF restore_total
  <1>5. restore_merge(target, a) \subseteq Memory
    <2> DEFINE Text(s) == IF \E r \in a.rows : r.key = s.key
                          THEN (CHOOSE r \in a.rows : r.key = s.key).text ELSE s.text
               Merged(s) == IF s.owner = target THEN [s EXCEPT !.text = Text(s)] ELSE s
    <2>1. ASSUME NEW s \in slices PROVE Merged(s) \in Memory
      <3>1. s \in Memory BY <1>1
      <3>2. Text(s) \in 1..MaxRows BY <1>2, <3>1 DEF Memory
      <3> HIDE DEF Text
      <3>3. QED BY <3>1, <3>2 DEF Memory
    <2>2. restore_merge(target, a) \subseteq
            slices \cup {Merged(s) : s \in slices} \cup
            {[id |-> r.id, key |-> r.key, text |-> r.text, owner |-> target] : r \in a.rows}
      BY DEF restore_merge
    <2> HIDE DEF Merged
    <2>3. QED BY <1>1, <1>3, <2>1, <2>2
  <1>6. QED BY <1>4, <1>5

\* A process that has entered or left a command.
LEMMA EnterKeeps ==
  ASSUME ProcInv, NEW p \in Procs, NEW command, Enter(p, command), Held(command)
  PROVE  ProcInv'
  BY DEF ProcInv, Enter

LEMMA LeaveKeeps ==
  ASSUME ProcInv, NEW p \in Procs, Leave(p)
  PROVE  ProcInv'
  BY DEF ProcInv, Leave

LEMMA TypeInvInit ==
  ASSUME Init
  PROVE  TypeInv
  <1> USE DEF Init
  <1>1. StoreInv BY StoreInvInit
  <1>2. used.agents <= MaxAgents /\ used.rows <= MaxRows BY MappingConstants
  <1>3. brain \in Seq(Agent) /\ rows \in Mappings
    <2>1. CASE rows = <<>> BY <2>1, EmptySeq DEF Mappings, OnePerId
    <2>2. ASSUME NEW a \in HandNamed, NEW x \in StateIds, rows = <<HandWritten(a, x)>>
          PROVE  rows \in Mappings
      <3>1. a \in Aliases /\ x \in AlfIds BY MappingConstants DEF AlfIds
      <3>2. HandWritten(a, x) \in Row BY <3>1 DEF HandWritten, Row, Zcids
      <3> HIDE DEF HandWritten
      <3>3. rows \in Seq(Row) /\ DOMAIN rows = {1} BY <2>2, <3>2
      <3>4. QED BY <3>3 DEF Mappings, OnePerId
    <2>3. QED BY <2>1, <2>2, EmptySeq
  <1>4. pins \in PinTable BY DEF PinTable
  <1>5. ProcInv BY DEF ProcInv
  <1>6. \A x \in AlfIds : archives[x] = None OBVIOUS
  <1>7. QED BY <1>1, <1>2, <1>3, <1>4, <1>5, <1>6 DEF TypeInv

LEMMA UserKeepsTypes ==
  ASSUME TypeInv, User
  PROVE  TypeInv'
  <1>0. /\ used \in Spent /\ used.agents <= MaxAgents /\ used.rows <= MaxRows
        /\ brain \in Seq(Agent) /\ slices \subseteq Memory
        /\ Len(brain) \in Nat /\ DOMAIN brain = 1..Len(brain)
        /\ \A k \in DOMAIN brain : brain[k] \in Agent
        /\ MaxAgents \in Nat /\ MaxRows \in Nat
    BY SeqIsSeq, MappingConstants DEF TypeInv, StoreInv
  <1>1. StoreInv' BY StoreInvStep DEF TypeInv, Next
  <1>2. SUFFICES /\ used'.agents <= MaxAgents /\ used'.rows <= MaxRows
                 /\ brain' \in Seq(Agent) /\ slices' \subseteq Memory
                 /\ UNCHANGED <<rows, pins, archives, procs>>
    BY <1>1 DEF TypeInv, ProcInv
  <1>3. ASSUME NEW a \in Aliases, CreateAgent(a) PROVE <1>2!1
    <2>1. /\ used.agents < MaxAgents /\ used' = [used EXCEPT !.agents = used.agents + 1]
          /\ brain' = Append(brain, [id |-> used.agents + 1, alias |-> a])
          /\ UNCHANGED <<slices, rows, pins, archives, procs>>
      BY <1>3 DEF CreateAgent
    <2>2. used.agents + 1 \in 1..MaxAgents BY <1>0, <2>1 DEF Spent
    <2>3. used'.agents = used.agents + 1 /\ used'.rows = used.rows BY <1>0, <2>1 DEF Spent
    <2>4. [id |-> used.agents + 1, alias |-> a] \in Agent BY <2>2 DEF Agent
    <2>5. brain' \in Seq(Agent) BY <1>0, <2>1, <2>4, AppendProperties
    <2>6. QED BY <1>0, <2>1, <2>2, <2>3, <2>5
  <1>4. ASSUME NEW k \in DOMAIN brain, NEW a \in Aliases, RenameAgent(k, a) PROVE <1>2!1
    <2>1. /\ used' = [used EXCEPT !.gestures = used.gestures + 1]
          /\ brain' = [brain EXCEPT ![k].alias = a]
          /\ UNCHANGED <<slices, rows, pins, archives, procs>>
      BY <1>4 DEF RenameAgent
    <2>2. [brain[k] EXCEPT !.alias = a] \in Agent BY <1>0 DEF Agent
    <2>3. brain' = [brain EXCEPT ![k] = [brain[k] EXCEPT !.alias = a]] BY <2>1
    <2>4. brain' \in Seq(Agent) BY <1>0, <2>2, <2>3, ExceptSeq
    <2>5. used'.agents = used.agents /\ used'.rows = used.rows BY <1>0, <2>1 DEF Spent
    <2>6. QED BY <1>0, <2>1, <2>4, <2>5
  <1>5. ASSUME NEW k \in DOMAIN brain, DeleteAgent(k) PROVE <1>2!1
    <2>1. /\ used' = [used EXCEPT !.gestures = used.gestures + 1]
          /\ brain' = RemoveAt(brain, k)
          /\ slices' \subseteq slices
          /\ UNCHANGED <<rows, pins, archives, procs>>
      BY <1>5 DEF DeleteAgent
    <2>2. SubSeq(brain, 1, k - 1) \in Seq(Agent)
      <3>1. \A i \in 1..(k - 1) : brain[i] \in Agent BY <1>0
      <3>2. QED BY <1>0, <3>1, SubSeqProperties
    <2>3. SubSeq(brain, k + 1, Len(brain)) \in Seq(Agent)
      <3>1. \A i \in (k + 1)..Len(brain) : brain[i] \in Agent BY <1>0
      <3>2. QED BY <1>0, <3>1, SubSeqProperties
    <2>4. brain' \in Seq(Agent) BY <2>1, <2>2, <2>3, ConcatProperties DEF RemoveAt
    <2>5. used'.agents = used.agents /\ used'.rows = used.rows BY <1>0, <2>1 DEF Spent
    <2>6. QED BY <1>0, <2>1, <2>4, <2>5
  <1>6. ASSUME NEW k \in DOMAIN brain, NEW key \in Keys, Remember(k, key) PROVE <1>2!1
    <2> DEFINE id == used.rows + 1
               m == [id |-> id, key |-> key, text |-> id, owner |-> brain[k].id]
    <2>1. /\ used.rows < MaxRows /\ used' = [used EXCEPT !.rows = used.rows + 1]
          /\ slices' \subseteq slices \cup {m}
          /\ UNCHANGED <<brain, rows, pins, archives, procs>>
      BY <1>6 DEF Remember, SliceOf
    <2>2. id \in 1..MaxRows BY <1>0, <2>1 DEF Spent
    <2>3. m \in Memory BY <1>0, <2>2 DEF Memory, Agent
    <2>4. used'.agents = used.agents /\ used'.rows = id BY <1>0, <2>1 DEF Spent
    <2> HIDE DEF m
    <2>5. QED BY <1>0, <2>1, <2>2, <2>3, <2>4
  <1>7. QED BY <1>3, <1>4, <1>5, <1>6 DEF User

\* A step that leaves the store, its archives and the ids spent as they are.
LEMMA CommandTypes ==
  ASSUME TypeInv, StoreInv', UNCHANGED <<brain, slices, archives>>,
         used'.agents = used.agents, used'.rows = used.rows,
         rows' \in Mappings, pins' \in PinTable, ProcInv'
  PROVE  TypeInv'
  BY DEF TypeInv

LEMMA TypeInvStep ==
  ASSUME TypeInv, [Next]_vars
  PROVE  TypeInv'
  <1>0. /\ used \in Spent /\ used.agents <= MaxAgents /\ used.rows <= MaxRows
        /\ brain \in Seq(Agent) /\ slices \subseteq Memory
        /\ rows \in Mappings /\ pins \in PinTable /\ ProcInv
        /\ rows \in Seq(Row) /\ \A k \in DOMAIN rows : rows[k] \in Row
    BY SeqIsSeq DEF TypeInv, StoreInv, Mappings
  <1>1. StoreInv' BY StoreInvStep DEF TypeInv
  <1>2. ASSUME NEW p \in Procs, NEW command, Enter(p, command), Held(command),
               UNCHANGED <<brain, slices, rows, pins, archives>>
        PROVE  TypeInv'
    <2>1. used' = [used EXCEPT !.runs = used.runs + 1] BY <1>2 DEF Enter
    <2>2. used'.agents = used.agents /\ used'.rows = used.rows BY <1>0, <2>1 DEF Spent
    <2>3. ProcInv' BY <1>0, <1>2, EnterKeeps
    <2>4. QED BY <1>0, <1>1, <1>2, <2>2, <2>3, CommandTypes
  <1>3. CASE User BY <1>3, UserKeepsTypes
  <1>4. ASSUME NEW p \in Procs, NEW r \in Runtimes, Check(p, r) PROVE TypeInv'
    <2> DEFINE c == [op |-> "check", runtime |-> r, cfg |-> rows]
    <2>1. Enter(p, c) /\ UNCHANGED <<brain, slices, rows, pins, archives>>
      BY <1>4 DEF Check
    <2>2. Held(c) BY <1>0 DEF Held
    <2> HIDE DEF c
    <2>3. QED BY <1>2, <2>1, <2>2
  <1>5. ASSUME NEW p \in Procs, NEW r \in Runtimes, LazyInit(p, r) PROVE TypeInv'
    <2> DEFINE c == [op |-> "first", runtime |-> r, cfg |-> rows]
    <2>1. Enter(p, c) /\ UNCHANGED <<brain, slices, rows, pins, archives>>
      BY <1>5 DEF LazyInit
    <2>2. Held(c) BY <1>0 DEF Held
    <2> HIDE DEF c
    <2>3. QED BY <1>2, <2>1, <2>2
  <1>6. ASSUME NEW p \in Procs, NEW k \in DOMAIN rows, select_current_agent(p, k)
        PROVE  TypeInv'
    <2> DEFINE c == [op |-> "export", alf |-> rows[k].alf, binding |-> to_selected(rows[k])]
    <2>1. Enter(p, c) /\ UNCHANGED <<brain, slices, rows, pins, archives>>
      BY <1>6 DEF select_current_agent
    <2>2. rows[k].alf \in AlfIds BY <1>0 DEF Row
    <2>3. Held(c) BY <1>0, <2>2, SelectedType DEF Held
    <2> HIDE DEF c
    <2>4. QED BY <1>2, <2>1, <2>3
  <1>7. ASSUME NEW p \in Procs, Persist(p) PROVE TypeInv'
    <2>1. procs[p].out \in Seq(Row) BY <1>0, <1>7 DEF Persist, Idle, ProcInv, Held
    <2>2. rows' \in Mappings BY <1>0, <1>7, <2>1, ApplyType DEF Persist
    <2>3. pins' \in PinTable BY <1>0, <1>7, <2>1, PinsType DEF Persist
    <2>4. ProcInv' BY <1>0, <1>7, LeaveKeeps DEF Persist
    <2>5. QED BY <1>1, <1>7, <2>2, <2>3, <2>4, CommandTypes DEF Persist
  <1>8. ASSUME NEW p \in Procs, Seed(p) PROVE TypeInv'
    <2>1. procs[p].out \in Seq(Row) BY <1>0, <1>8 DEF Seed, Idle, ProcInv, Held
    <2>2. rows' \in Mappings BY <1>0, <1>8, <2>1, ApplyType DEF Seed
    <2>3. pins' \in PinTable BY <1>0, <1>8, <2>1, PinsType DEF Seed
    <2>4. ProcInv' BY <1>0, <1>8, LeaveKeeps DEF Seed
    <2>5. QED BY <1>1, <1>8, <2>2, <2>3, <2>4, CommandTypes DEF Seed
  <1>9. ASSUME NEW k \in DOMAIN rows, Toggle(k) PROVE TypeInv'
    <2> DEFINE e == [rows[k] EXCEPT !.enabled = ~rows[k].enabled]
    <2>1. /\ rows' = [rows EXCEPT ![k] = e]
          /\ used' = [used EXCEPT !.gestures = used.gestures + 1]
          /\ UNCHANGED <<brain, slices, pins, archives, procs>>
      BY <1>9 DEF Toggle
    <2>2. used'.agents = used.agents /\ used'.rows = used.rows BY <1>0, <2>1 DEF Spent
    <2>3. e \in Row /\ e.alf = rows[k].alf BY <1>0 DEF Row
    <2> HIDE DEF e
    <2>4. /\ rows' \in Seq(Row) /\ DOMAIN rows' = DOMAIN rows
          /\ \A j \in DOMAIN rows : rows'[j].alf = rows[j].alf
      BY <1>0, <2>1, <2>3, ExceptSeq
    <2>5. rows' \in Mappings BY <1>0, <2>4 DEF Mappings, OnePerId
    <2>6. ProcInv' BY <1>0, <2>1 DEF ProcInv
    <2>7. QED BY <1>0, <1>1, <2>1, <2>2, <2>5, <2>6, CommandTypes
  <1>10. ASSUME NEW p \in Procs, export_agent(p) PROVE TypeInv'
    <2> DEFINE c == procs[p]
               b == c.binding
               a == [alias |-> b.alias, zcid |-> SliceId(b),
                     rows |-> {Archived(s) : s \in SliceOf(SliceId(b))}]
    <2>1. /\ UNCHANGED <<brain, slices, rows, used>> /\ Leave(p)
          /\ \/ UNCHANGED <<pins, archives>>
             \/ /\ pins' = [pins EXCEPT ![b.ws] = c.alf]
                /\ archives' = [archives EXCEPT ![c.alf] = a]
      BY <1>10, Zenon DEF export_agent
    <2>2. c.alf \in AlfIds /\ b \in Binding
      BY <1>0, <1>10 DEF export_agent, Idle, ProcInv, Held
    <2>3. a \in ArchiveType
      <3>1. SliceId(b) \in Zcids BY <2>2, SliceIdType
      <3>2. b.alias \in Aliases BY <2>2 DEF Binding
      <3>3. QED BY <3>1, <3>2, CarriedType DEF ArchiveType, Zcids
    <2>4. b.ws \in Aliases BY <2>2 DEF Binding
    <2>5. ProcInv' BY <1>0, <2>1, LeaveKeeps
    <2> HIDE DEF a, b, c
    <2>6. pins' \in PinTable BY <1>0, <2>1, <2>2, <2>4 DEF PinTable
    <2>7. \A x \in AlfIds : archives'[x] # None => archives'[x] \in ArchiveType
      <3>1. DOMAIN archives = AlfIds /\ \A x \in AlfIds : archives[x] # None => archives[x] \in ArchiveType
        BY DEF TypeInv, StoreInv
      <3>2. QED BY <2>1, <2>3, <3>1
    <2>8. QED BY <1>0, <1>1, <2>1, <2>5, <2>6, <2>7 DEF TypeInv
  <1>11. ASSUME NEW x \in AlfIds, NEW ws \in Aliases, NEW mode \in Modes, import(x, ws, mode)
         PROVE  TypeInv'
    <2> DEFINE a == archives[x]
               target == resolve_target_agent(a, used.agents + 1)
               top == IF target > used.agents THEN target ELSE used.agents
    <2>1. /\ a # None /\ target \in 1..MaxAgents
          /\ pins' = [pins EXCEPT ![ws] = x]
          /\ brain' = IF Named(a.alias) # {} THEN brain
                      ELSE Append(brain, [id |-> target, alias |-> a.alias])
          /\ slices' = IF mode = "total" THEN restore_total(target, a)
                       ELSE restore_merge(target, a)
          /\ used' = [used EXCEPT !.runs = used.runs + 1, !.agents = top]
          /\ UNCHANGED <<rows, archives, procs>>
      BY <1>11 DEF import
    <2>2. a \in ArchiveType BY <2>1 DEF TypeInv
    <2>3. slices' \subseteq Memory BY <2>1, <2>2, RestoredType
    <2>4. a.alias \in Aliases BY <2>2 DEF ArchiveType
    <2> HIDE DEF target
    <2>5. [id |-> target, alias |-> a.alias] \in Agent BY <2>1, <2>4 DEF Agent
    <2>6. brain' \in Seq(Agent) BY <1>0, <2>1, <2>5, AppendProperties
    <2>7. pins' \in PinTable BY <1>0, <2>1 DEF PinTable
    <2>8. used'.agents <= MaxAgents /\ used'.rows <= MaxRows
      <3>1. used.agents \in Nat /\ top \in Nat /\ top <= MaxAgents
        BY <1>0, <2>1, MappingConstants DEF Spent
      <3> HIDE DEF top
      <3>2. used'.agents = top /\ used'.rows = used.rows
        <4>1. used.runs + 1 \in Nat BY <1>0 DEF Spent
        <4>2. QED BY <1>0, <2>1, <3>1, <4>1, SpentChange
      <3>3. QED BY <1>0, <3>1, <3>2
    <2>9. QED BY <1>0, <1>1, <2>1, <2>3, <2>6, <2>7, <2>8 DEF TypeInv, ProcInv
  <1>12. ASSUME NEW p \in Procs, Discover(p) PROVE TypeInv'
    <2> DEFINE c == procs[p]
               out == reconcile(c.cfg, pins, c.runtime)
               d == [op |-> IF c.op = "check" THEN "persist" ELSE "seed", runtime |-> c.runtime,
                     out |-> out, dirty |-> Dirty(c.cfg, pins, c.runtime)]
    <2>1. /\ c # None /\ c.op \in {"check", "first"} /\ procs' = [procs EXCEPT ![p] = d]
          /\ UNCHANGED <<brain, slices, rows, pins, archives, used>>
      BY <1>12 DEF Discover, Idle
    <2>2. c.runtime \in Runtimes /\ c.cfg \in Seq(Row) BY <1>0, <2>1 DEF ProcInv, Held
    <2> HIDE DEF c
    <2>3. out \in Seq(Row) BY <2>2, OutcomeType
    <2> HIDE DEF out
    <2>4. Held(d) BY <2>3 DEF Held
    <2> HIDE DEF d
    <2>5. ProcInv' BY <1>0, <2>1, <2>4 DEF ProcInv
    <2>6. QED BY <1>0, <1>1, <2>1, <2>5, CommandTypes
  <1>13. CASE UNCHANGED vars
    BY <1>1, <1>13 DEF vars, TypeInv, ProcInv
  <1>14. QED
    BY <1>3, <1>4, <1>5, <1>6, <1>7, <1>8, <1>9, <1>10, <1>11, <1>12, <1>13 DEF Next

-----------------------------------------------------------------------------
(***************************************************************************)
(* The theorems                                                            *)
(***************************************************************************)

\* One agent for an id and for an alias, one memory for an id and for a key of an
\* agent: no restore, total or merged, breaks what brain.db's own constraints
\* and upsert by key rely on (adapter-zeroclaw/src/import/brain_db.rs).
THEOREM StoreInvariance == Spec => []StoreInv
  <1>1. Init => StoreInv BY StoreInvInit
  <1>2. StoreInv /\ [Next]_vars => StoreInv' BY StoreInvStep
  <1>3. QED BY <1>1, <1>2, PTL DEF Spec

LEMMA ImportTouchesOneSlice ==
  ASSUME StoreInv, NEW x \in AlfIds, NEW ws \in Aliases, NEW mode \in Modes,
         import(x, ws, mode), NEW k \in DOMAIN brain, brain[k].alias # archives[x].alias
  PROVE  {s \in slices' : s.owner = brain[k].id} = SliceOf(brain[k].id)
  <1> DEFINE a == archives[x]
             target == resolve_target_agent(a, used.agents + 1)
  <1>1. /\ a # None
        /\ slices' = IF mode = "total" THEN restore_total(target, a)
                     ELSE restore_merge(target, a)
    BY DEF import
  <1>2. used.agents \in Nat /\ used.rows \in Nat BY DEF StoreInv, Spent
  <1>3. Memories(slices, used.rows) /\ Carried(a, used.rows) BY <1>1 DEF StoreInv
  <1>4. brain[k].id # target BY <1>2, TargetIsNobodyElses DEF StoreInv
  <1> HIDE DEF target, a
  <1>5. CASE mode = "total" BY <1>1, <1>2, <1>3, <1>4, <1>5, TotalRestore
  <1>6. CASE mode # "total" BY <1>1, <1>2, <1>3, <1>4, <1>6, MergeRestore
  <1>7. QED BY <1>5, <1>6

\* A restore of an agent's archive into the shared brain.db leaves every other
\* agent its memories, whatever was renamed, deleted or re-created since the
\* export (brain_db.rs restore_agent_slice, resolve_target_agent).
THEOREM RestoreTouchesOneSliceHolds == Spec => RestoreTouchesOneSlice
  <1>1. StoreInv =>
          \A x \in AlfIds, ws \in Aliases, mode \in Modes :
            import(x, ws, mode) =>
              \A k \in DOMAIN brain :
                brain[k].alias # archives[x].alias =>
                  {s \in slices' : s.owner = brain[k].id} = SliceOf(brain[k].id)
    BY ImportTouchesOneSlice
  <1>2. QED BY <1>1, StoreInvariance, PTL DEF RestoreTouchesOneSlice

\* The types of the mapping, the pins, the store and the archives, and what keeps
\* them unique: whatever two processes and the user do in whatever order, the
\* mapping never has two rows of one identity (config.rs upsert_agent is keyed by
\* it) and no memory, id or alias is doubled in brain.db.
THEOREM MappingTypeOKHolds == Spec => []MappingTypeOK
  <1>1. Init => TypeInv BY TypeInvInit
  <1>2. TypeInv /\ [Next]_vars => TypeInv' BY TypeInvStep
  <1>3. TypeInv => MappingTypeOK
    <2> SUFFICES ASSUME TypeInv PROVE MappingTypeOK OBVIOUS
    <2>1. \A k \in DOMAIN brain : brain[k] \in Agent BY SeqIsSeq DEF TypeInv
    <2>2. \A k \in DOMAIN rows : rows[k] \in Row BY SeqIsSeq DEF TypeInv, Mappings
    <2>3. OnePerId(rows) BY DEF TypeInv, Mappings
    <2>4. \A s, t \in slices :
            s # t => s.id # t.id /\ <<s.owner, s.key>> # <<t.owner, t.key>>
      BY DEF TypeInv, StoreInv, Memories
    <2>5. \A j, k \in DOMAIN brain :
            j # k => brain[j].id # brain[k].id /\ brain[j].alias # brain[k].alias
      BY DEF TypeInv, StoreInv, Roster
    <2>6. QED
      BY <2>1, <2>2, <2>3, <2>4, <2>5
      DEF MappingTypeOK, TypeInv, Agent, Memory, Row, Zcids, OnePerId, PinTable
  <1>4. QED BY <1>1, <1>2, <1>3, PTL DEF Spec

\* The two ways of matching agree (discovery.rs match_bindings, selector.rs
\* to_selected): once a discovery has nothing to write, a command that selects a row
\* works on the agent that discovery matched to it, its id, workspace and alias.
THEOREM SelectionFollowsDiscoveryHolds == Spec => []SelectionFollowsDiscovery
  <1>1. Init => TypeInv BY TypeInvInit
  <1>2. TypeInv /\ [Next]_vars => TypeInv' BY TypeInvStep
  <1>3. TypeInv => SelectionFollowsDiscovery
    BY RosterTyped, SelectedAsMatched DEF SelectionFollowsDiscovery, TypeInv
  <1>4. QED BY <1>1, <1>2, <1>3, PTL DEF Spec

=============================================================================
