--------------------------- MODULE AlfSyncProofs ---------------------------
(***************************************************************************)
(* Proofs about AlfSync, for every set of hosts, records and bounds.       *)
(***************************************************************************)
EXTENDS AlfSyncInv, TLAPS

-----------------------------------------------------------------------------
(***************************************************************************)
(* Archives and deltas                                                     *)
(***************************************************************************)

\* A delta computed from two archives is a delta (compute_delta).
LEMMA DiffType ==
  ASSUME NEW a \in Archives, NEW b \in Archives
  PROVE  Diff(a, b) \in Deltas
<1>1. ChangedKeys(a, b) \in SUBSET Keys
  BY DEF ChangedKeys
<1>2. Diff(a, b) \in [ChangedKeys(a, b) -> Vals]
  BY DEF Diff, ChangedKeys, Archives
<1> QED
  BY <1>1, <1>2 DEF Deltas

\* Replaying a delta yields an archive (apply_delta).
LEMMA ApplyType ==
  ASSUME NEW d \in Deltas, NEW a \in Archives
  PROVE  Apply(d, a) \in Archives
<1>1. PICK S \in SUBSET Keys : d \in [S -> Vals]
  BY DEF Deltas
<1> QED
  BY <1>1 DEF Apply, Archives

\* Replaying the difference of two archives on the first yields the second.
LEMMA DiffThenApply ==
  ASSUME NEW a \in Archives, NEW b \in Archives
  PROVE  Apply(Diff(a, b), a) = b
<1>1. DOMAIN Diff(a, b) = ChangedKeys(a, b)
  BY DEF Diff
<1>2. ASSUME NEW k \in Keys
      PROVE  (IF k \in DOMAIN Diff(a, b) THEN Diff(a, b)[k] ELSE a[k]) = b[k]
  BY <1>1 DEF Diff, ChangedKeys
<1>3. Apply(Diff(a, b), a) = [k \in Keys |-> b[k]]
  BY <1>2 DEF Apply
<1> QED
  BY <1>3 DEF Archives

-----------------------------------------------------------------------------
(***************************************************************************)
(* Type correctness                                                        *)
(***************************************************************************)

USE ArchiveAssumption, ServiceAssumption, BoundAssumption DEF history

\* Finishing an operation keeps the types.
LEMMA FinishType ==
  ASSUME TypeOK, NEW h \in Hosts, NEW r \in Outcomes, Finish(h, r)
  PROVE  /\ pc' \in [Hosts -> {"idle"} \cup SyncPCs \cup RestorePCs]
         /\ op' \in [Hosts -> Ops]
         /\ outcome' \in [Hosts -> Outcomes]
<1>1. NoOp \in Ops
  BY DEF NoOp, Ops, Kinds, OptArchives
<1> QED
  BY <1>1 DEF Finish, TypeOK

\* So does going on to a phase.
LEMMA GotoType ==
  ASSUME TypeOK, NEW h \in Hosts, NEW p \in SyncPCs \cup RestorePCs, Goto(h, p)
  PROVE  /\ pc' \in [Hosts -> {"idle"} \cup SyncPCs \cup RestorePCs]
         /\ outcome' \in [Hosts -> Outcomes]
BY DEF Goto, TypeOK, Outcomes

\* An edit or a fault is counted.
LEMMA SpendType ==
  ASSUME TypeOK, NEW f \in FaultKinds, Spend(f)
  PROVE  spent' \in [FaultKinds -> Nat]
BY DEF Spend, TypeOK

\* The service's answers to an upload keep its record well formed.
LEMMA PutSnapshotType ==
  ASSUME NEW c \in Services, NEW a \in Archives, NEW step \in SnapshotSteps
  PROVE  /\ PutSnapshot(c, a, step) \in Services
         /\ PutSnapshot(c, a, step).exists = c.exists
         /\ PutSnapshot(c, a, step).latest = c.latest + step
         /\ PutSnapshot(c, a, step).snap = a
         /\ PutSnapshot(c, a, step).head = a
         /\ PutSnapshot(c, a, step).readings
              = IF step = 0 THEN c.readings \cup {a} ELSE {a}
<1> DEFINE l == c.latest + step
           rs == IF step = 0 THEN c.readings \cup {a} ELSE {a}
<1>1. l \in Nat
  BY DEF Services
<1>2. rs \in SUBSET Archives
  BY DEF Services
<1>3. PutSnapshot(c, a, step) = [c EXCEPT !.latest = l, !.snap = a, !.head = a, !.readings = rs]
  BY DEF PutSnapshot, Services
<1> HIDE DEF l, rs
<1>4. PutSnapshot(c, a, step) = [exists |-> c.exists, latest |-> l, snap |-> a, head |-> a,
                                 readings |-> rs]
  BY <1>3 DEF Services
<1>5. PutSnapshot(c, a, step) \in Services
  BY <1>1, <1>2, <1>4 DEF Services, OptArchives
<1> QED
  BY <1>4, <1>5 DEF l, rs

LEMMA PushDeltaType ==
  ASSUME NEW c \in Services, c.head \in Archives, NEW d \in Deltas
  PROVE  /\ PushDelta(c, d) \in Services
         /\ PushDelta(c, d).exists = c.exists
         /\ PushDelta(c, d).latest = c.latest + 1
         /\ PushDelta(c, d).snap = c.snap
         /\ PushDelta(c, d).head = Apply(d, c.head)
         /\ PushDelta(c, d).readings = {Apply(d, b) : b \in c.readings}
<1> DEFINE l == c.latest + 1
           a == Apply(d, c.head)
           rs == {Apply(d, b) : b \in c.readings}
<1>1. l \in Nat
  BY DEF Services
<1>2. a \in Archives
  BY ApplyType
<1>r. rs \in SUBSET Archives
  BY ApplyType DEF Services
<1>3. PushDelta(c, d) = [c EXCEPT !.latest = l, !.head = a, !.readings = rs]
  BY DEF PushDelta, Services
<1> HIDE DEF l, a, rs
<1>4. PushDelta(c, d) = [exists |-> c.exists, latest |-> l, snap |-> c.snap, head |-> a,
                         readings |-> rs]
  BY <1>3 DEF Services
<1>5. PushDelta(c, d) \in Services
  BY <1>1, <1>2, <1>r, <1>4 DEF Services, OptArchives
<1> QED
  BY <1>4, <1>5 DEF l, a, rs

\* Initial states are well typed.
LEMMA InitType == Init => TypeOK
<1> SUFFICES ASSUME Init PROVE TypeOK
  OBVIOUS
<1>1. NoOp \in Ops
  BY DEF NoOp, Ops, Kinds, OptArchives
<1>2. cloud \in Services
  BY DEF Init, NoAgent, Services, OptArchives
<1> QED
  BY <1>1, <1>2 DEF Init, TypeOK, OptArchives, Outcomes

-----------------------------------------------------------------------------
(***************************************************************************)
(* Frames: what the rest of the system keeps of the invariant              *)
(***************************************************************************)

\* An idle host has nothing to know.
LEMMA IdlePhase ==
  ASSUME NEW h \in Hosts, pc'[h] = "idle"
  PROVE  PhaseOK(h)'
BY DEF PhaseOK

\* A step that leaves the service, the bases and the cursors alone.
LEMMA QuietStep ==
  ASSUME IInv, TypeOK', UNCHANGED <<cloud, wire, base, cursor>>,
         \A g \in Hosts : PhaseOK(g)' \/ (pc'[g] = pc[g] /\ op'[g] = op[g])
  PROVE  IInv'
<1>1. CloudOK' /\ CursorWithinHistory' /\ CursorNamesBase' /\ WireOK'
  BY DEF IInv, CloudOK, CursorWithinHistory, CursorNamesBase, WireOK, Restorable
<1>2. ASSUME NEW g \in Hosts, pc'[g] = pc[g], op'[g] = op[g]
      PROVE  PhaseOK(g)'
  BY <1>2 DEF IInv, PhasesOK, PhaseOK, Names, CursorAtMost, Exported, Restorable
<1> QED
  BY <1>1, <1>2 DEF IInv, PhasesOK

\* The service takes an upload: under a new sequence, and then every pair carried
\* by anybody else is out of date, or under the latest one, which keeps what it
\* stood for.
Moves ==
  \/ cloud'.latest = cloud.latest + 1
  \/ cloud'.latest = cloud.latest /\ cloud.readings \subseteq cloud'.readings

LEMMA AdvanceStep ==
  ASSUME IInv, TypeOK', UNCHANGED <<base, cursor>>,
         Moves, Restorable(cloud)', CloudOK',
         wire' \subseteq wire,
         \A g \in Hosts : PhaseOK(g)' \/ (pc'[g] = pc[g] /\ op'[g] = op[g])
  PROVE  IInv'
<1>0. cloud.latest \in Nat /\ \A g \in Hosts : op[g].seq \in Nat /\ cursor[g] \in Nat \cup {None}
  BY DEF IInv, TypeOK, Services, Ops
<1>1. CursorWithinHistory' /\ CursorNamesBase'
  BY <1>0 DEF IInv, CursorWithinHistory, CursorNamesBase, Moves
<1>2. WireOK'
  <2>1. \A r \in wire : r.seq \in Nat
    BY DEF IInv, TypeOK, Requests
  <2> QED
    BY <1>0, <2>1 DEF IInv, WireOK, Moves
<1>3. ASSUME NEW g \in Hosts, pc'[g] = pc[g], op'[g] = op[g]
      PROVE  PhaseOK(g)'
  <2>1. PhaseOK(g)
    BY DEF IInv, PhasesOK
  <2>2. pc[g] = "push" => op[g].seq <= cloud.latest
    BY <2>1, <1>0 DEF PhaseOK, IInv, CursorWithinHistory
  <2>3. ASSUME NEW a, Names(op[g].seq, a)
        PROVE  Names(op[g].seq, a)'
    BY <1>0, <1>3, <2>3 DEF Names, Moves
  <2> QED
    BY <1>0, <1>3, <2>1, <2>2, <2>3 DEF PhaseOK, Names, CursorAtMost, Exported, Moves
<1> QED
  BY <1>1, <1>2, <1>3 DEF IInv, PhasesOK

-----------------------------------------------------------------------------
(***************************************************************************)
(* One lemma per step of the specification                                 *)
(***************************************************************************)

LEMMA SyncOneStep ==
  ASSUME IInv, NEW h \in Hosts, NEW recover \in BOOLEAN, NEW force \in BOOLEAN,
         SyncOne(h, recover, force)
  PROVE  IInv'
<1> DEFINE mode == DecideSyncMode(cursor[h], base[h] # None, recover)
           started == Started(h, mode, force)
<1>t. TypeOK
  BY DEF IInv
<1>0. mode \in {"first", "recover", "delta", "missing_base"}
  BY DEF DecideSyncMode
<1>s. mode # "missing_base" => started \in Ops
  BY <1>t, <1>0 DEF Started, NoOp, Ops, Kinds, OptArchives, TypeOK
<1>1. CASE pc'[h] = "idle"
  <2>0. \/ Finish(h, "restore_incomplete")
        \/ Finish(h, "missing_base")
        \/ /\ mode # "missing_base"
           /\ Goto(h, CASE mode = "first"   -> "register"
                        [] mode = "recover" -> "fetch"
                        [] mode = "delta"   -> "diff")
    BY DEF SyncOne
  <2> HIDE DEF mode
  <2>1. PICK r \in Outcomes : Finish(h, r)
    BY <1>1, <1>t, <1>0, <2>0 DEF Outcomes, Goto, TypeOK
  <2>2. TypeOK'
    <3>1. spent' \in [FaultKinds -> Nat]
      BY <1>t, SpendType DEF SyncOne, TypeOK, FaultKinds
    <3> QED
      BY <1>t, <2>1, <3>1, FinishType DEF SyncOne, disk, TypeOK
  <2>3. \A g \in Hosts : PhaseOK(g)' \/ (pc'[g] = pc[g] /\ op'[g] = op[g])
    BY <1>t, <2>1, IdlePhase DEF Finish, TypeOK
  <2> QED
    BY <2>2, <2>3, QuietStep DEF SyncOne, disk
<1>2. CASE pc'[h] # "idle"
  <2>1. /\ mode # "missing_base"
        /\ op' = [op EXCEPT ![h] = started]
        /\ Goto(h, CASE mode = "first"   -> "register"
                     [] mode = "recover" -> "fetch"
                     [] mode = "delta"   -> "diff")
    BY <1>2, <1>t DEF SyncOne, Finish, TypeOK
  <2>2. TypeOK'
    <3>1. spent' \in [FaultKinds -> Nat]
      BY <1>t, SpendType DEF SyncOne, TypeOK, FaultKinds
    <3>2. /\ pc' \in [Hosts -> {"idle"} \cup SyncPCs \cup RestorePCs]
          /\ outcome' \in [Hosts -> Outcomes]
      BY <1>0, <1>t, <2>1, GotoType DEF SyncPCs
    <3>3. op' \in [Hosts -> Ops]
      BY <1>t, <1>s, <2>1 DEF TypeOK
    <3> QED
      BY <1>t, <3>1, <3>2, <3>3 DEF SyncOne, disk, TypeOK
  <2>3. PhaseOK(h)'
    <3>1. op'[h] = started /\ started.exp \in Archives /\ started.kind = mode
      BY <1>t, <2>1 DEF TypeOK, NoOp, Started
    <3>2. mode = "delta" => cursor'[h] = started.seq
      BY <2>1 DEF DecideSyncMode, NoOp, Started, SyncOne, disk
    <3>3. \/ pc'[h] = "register" /\ mode = "first"
          \/ pc'[h] = "fetch" /\ mode = "recover"
          \/ pc'[h] = "diff" /\ mode = "delta"
      BY <1>0, <1>t, <2>1 DEF Goto, TypeOK
    <3> HIDE DEF mode, started
    <3> QED
      BY <3>1, <3>2, <3>3 DEF PhaseOK, Exported
  <2>4. \A g \in Hosts : PhaseOK(g)' \/ (pc'[g] = pc[g] /\ op'[g] = op[g])
    BY <1>t, <2>1, <2>3 DEF Goto, TypeOK
  <2> QED
    BY <2>2, <2>4, QuietStep DEF SyncOne, disk
<1> QED
  BY <1>1, <1>2

\* Registering an unknown agent: nobody carries anything of it yet.
LEMMA CreateStep ==
  ASSUME IInv, TypeOK', UNCHANGED <<wire, base, cursor>>,
         ~cloud.exists, cloud' = Registered(cloud),
         \A g \in Hosts : PhaseOK(g)' \/ (pc'[g] = pc[g] /\ op'[g] = op[g])
  PROVE  IInv'
<1>1. cloud'.exists /\ cloud'.snap = None /\ cloud'.head = None
  BY DEF Registered, NoAgent
<1>2. CloudOK' /\ CursorWithinHistory' /\ CursorNamesBase' /\ WireOK'
  BY <1>1 DEF IInv, CloudOK, CursorWithinHistory, CursorNamesBase, WireOK, Restorable
<1>3. ASSUME NEW g \in Hosts, pc'[g] = pc[g], op'[g] = op[g]
      PROVE  PhaseOK(g)'
  <2>1. PhaseOK(g) /\ cursor[g] = None /\ ~Restorable(cloud)
    BY DEF IInv, PhasesOK, CursorWithinHistory, CloudOK, Restorable
  <2>2. op[g].seq # None
    BY DEF IInv, TypeOK, Ops
  <2> QED
    BY <1>3, <2>1, <2>2 DEF PhaseOK, Names, CursorAtMost, Exported
<1> QED
  BY <1>2, <1>3 DEF IInv, PhasesOK

\* Registration settles the mode of a first sync.
LEMMA KindType ==
  ASSUME TypeOK, NEW h \in Hosts, NEW k \in Kinds, op' = [op EXCEPT ![h].kind = k]
  PROVE  op' \in [Hosts -> Ops] /\ op'[h].exp = op[h].exp /\ op'[h].kind = k
<1>1. op[h] \in Ops /\ op \in [Hosts -> Ops]
  BY DEF TypeOK
<1>2. [op[h] EXCEPT !.kind = k] \in Ops
  BY <1>1 DEF Ops
<1>3. op' = [op EXCEPT ![h] = [op[h] EXCEPT !.kind = k]]
  BY <1>1
<1>4. op'[h] = [op[h] EXCEPT !.kind = k]
  BY <1>1, <1>3
<1> QED
  BY <1>1, <1>2, <1>3, <1>4 DEF Ops

LEMMA RegisterStep ==
  ASSUME IInv, NEW h \in Hosts, Register(h)
  PROVE  IInv'
<1>t. TypeOK
  BY DEF IInv
<1>p. PhaseOK(h) /\ pc[h] = "register"
  BY DEF IInv, PhasesOK, Register
<1>c. cloud' \in Services
  BY <1>t DEF Register, TypeOK, Registered, NoAgent, Services, OptArchives
<1>1. TypeOK' /\ PhaseOK(h)'
  <2>1. CASE Finish(h, "first_sync_conflict")
    BY <1>t, <1>c, <2>1, FinishType, IdlePhase
       DEF Register, disk, TypeOK, Outcomes, Finish
  <2>2. CASE Goto(h, "mark") /\ op' = [op EXCEPT ![h].kind = "first"]
    <3>1. op' \in [Hosts -> Ops] /\ op'[h].exp = op[h].exp
      BY <1>t, <2>2, KindType DEF Kinds
    <3>2. PhaseOK(h)'
      BY <1>t, <1>p, <2>2, <3>1 DEF PhaseOK, Exported, Goto, TypeOK
    <3> QED
      BY <1>t, <1>c, <2>2, <3>1, <3>2, GotoType DEF Register, disk, TypeOK, SyncPCs
  <2>3. CASE Goto(h, "fetch") /\ op' = [op EXCEPT ![h].kind = "adopt"]
    <3>1. op' \in [Hosts -> Ops] /\ op'[h].exp = op[h].exp /\ op'[h].kind = "adopt"
      BY <1>t, <2>3, KindType DEF Kinds
    <3>2. PhaseOK(h)'
      BY <1>t, <1>p, <2>3, <3>1 DEF PhaseOK, Exported, Goto, TypeOK
    <3> QED
      BY <1>t, <1>c, <2>3, <3>1, <3>2, GotoType DEF Register, disk, TypeOK, SyncPCs
  <2> QED
    BY <2>1, <2>2, <2>3 DEF Register
<1>2. \A g \in Hosts : PhaseOK(g)' \/ (pc'[g] = pc[g] /\ op'[g] = op[g])
  BY <1>t, <1>1 DEF Register, Goto, Finish, TypeOK
<1>3. CASE cloud.exists
  BY <1>1, <1>2, <1>3, QuietStep DEF Register, disk
<1>4. CASE ~cloud.exists
  BY <1>1, <1>2, <1>4, CreateStep DEF Register, disk
<1> QED
  BY <1>3, <1>4

LEMMA RegisterLostStep ==
  ASSUME IInv, NEW h \in Hosts, RegisterLost(h)
  PROVE  IInv'
<1>t. TypeOK
  BY DEF IInv
<1>1. TypeOK'
  <2>1. cloud' \in Services
    BY DEF RegisterLost, Registered, NoAgent, Services, OptArchives
  <2> QED
    BY <1>t, <2>1, FinishType, SpendType
       DEF RegisterLost, disk, TypeOK, Outcomes, FaultKinds
<1>2. \A g \in Hosts : PhaseOK(g)' \/ (pc'[g] = pc[g] /\ op'[g] = op[g])
  BY <1>t, IdlePhase DEF RegisterLost, Finish, TypeOK
<1> QED
  BY <1>1, <1>2, CreateStep DEF RegisterLost, disk
\* An operation that ends without touching the service, the base or the cursor.
LEMMA FinishStep ==
  ASSUME IInv, TypeOK', UNCHANGED <<cloud, wire, base, cursor>>,
         NEW h \in Hosts, NEW r \in Outcomes, Finish(h, r)
  PROVE  IInv'
<1>1. \A g \in Hosts : PhaseOK(g)' \/ (pc'[g] = pc[g] /\ op'[g] = op[g])
  BY IdlePhase DEF IInv, TypeOK, Finish
<1> QED
  BY <1>1, QuietStep

\* An operation that goes on and keeps its locals.
LEMMA GotoStep ==
  ASSUME IInv, TypeOK', UNCHANGED <<cloud, wire, base, cursor, op>>,
         NEW h \in Hosts, NEW p \in SyncPCs \cup RestorePCs, Goto(h, p), PhaseOK(h)'
  PROVE  IInv'
<1>1. \A g \in Hosts : PhaseOK(g)' \/ (pc'[g] = pc[g] /\ op'[g] = op[g])
  BY DEF IInv, TypeOK, Goto
<1> QED
  BY <1>1, QuietStep

LEMMA MarkFirstSyncInflightStep ==
  ASSUME IInv, NEW h \in Hosts, MarkFirstSyncInflight(h)
  PROVE  IInv'
<1>t. TypeOK /\ PhaseOK(h) /\ pc[h] = "mark" /\ pc'[h] = "put" /\ Goto(h, "put")
  BY DEF IInv, PhasesOK, MarkFirstSyncInflight, Goto, TypeOK
<1>1. TypeOK'
  BY <1>t, GotoType DEF MarkFirstSyncInflight, TypeOK, Ops, SyncPCs
<1>2. PhaseOK(h)'
  BY <1>t DEF PhaseOK, Exported, MarkFirstSyncInflight
<1> QED
  BY <1>t, <1>1, <1>2, GotoStep DEF MarkFirstSyncInflight, SyncPCs

LEMMA ClearFirstSyncInflightStep ==
  ASSUME IInv, NEW h \in Hosts, ClearFirstSyncInflight(h)
  PROVE  IInv'
<1>t. TypeOK /\ PhaseOK(h) /\ pc[h] = "clear_marker"
  BY DEF IInv, PhasesOK, ClearFirstSyncInflight
<1>m. marker' \in [Hosts -> OptArchives]
  BY <1>t DEF ClearFirstSyncInflight, TypeOK, OptArchives
<1>1. CASE op[h].kind = "adopt"
  <2>1. TypeOK'
    BY <1>t, <1>m, <1>1, GotoType DEF ClearFirstSyncInflight, TypeOK, SyncPCs
  <2>2. PhaseOK(h)'
    BY <1>t, <1>1 DEF PhaseOK, Exported, ClearFirstSyncInflight, Goto, TypeOK
  <2> QED
    BY <1>1, <2>1, <2>2, GotoStep DEF ClearFirstSyncInflight, SyncPCs
<1>2. CASE op[h].kind # "adopt"
  <2>1. TypeOK'
    BY <1>t, <1>m, <1>2, FinishType DEF ClearFirstSyncInflight, TypeOK, Outcomes
  <2> QED
    BY <1>2, <2>1, FinishStep DEF ClearFirstSyncInflight, Outcomes
<1> QED
  BY <1>1, <1>2

LEMMA FetchCloudBaseStep ==
  ASSUME IInv, NEW h \in Hosts, FetchCloudBase(h)
  PROVE  IInv'
<1>t. TypeOK /\ PhaseOK(h) /\ pc[h] = "fetch"
  BY DEF IInv, PhasesOK, FetchCloudBase
<1> DEFINE fetched == [op[h] EXCEPT !.got = cloud.head, !.seq = cloud.latest]
           next == IF op[h].kind = "restore" THEN "restore_mark" ELSE "pull_base"
<1>1. CASE \E r \in {"failed", "first_sync_conflict"} : Finish(h, r)
  <2>1. TypeOK'
    BY <1>t, <1>1, FinishType DEF FetchCloudBase, disk, TypeOK, Outcomes
  <2> QED
    BY <1>1, <2>1, FinishStep DEF FetchCloudBase, disk, Outcomes
<1>2. CASE /\ Restorable(cloud)
           /\ op' = [op EXCEPT ![h].got = cloud.head, ![h].seq = cloud.latest]
           /\ Goto(h, next)
  <2>1. cloud.head \in Archives /\ cloud.head \in cloud.readings /\ cloud.latest \in Nat
    BY <1>t, <1>2 DEF IInv, CloudOK, Restorable, TypeOK, Services, OptArchives
  <2>2. op[h] \in Ops /\ op \in [Hosts -> Ops]
    BY <1>t DEF TypeOK
  <2>3. op' = [op EXCEPT ![h] = fetched]
    BY <1>2, <2>2
  <2>4. fetched \in Ops
    BY <2>1, <2>2 DEF Ops, OptArchives
  <2>5. /\ op'[h] = fetched /\ fetched.got = cloud.head /\ fetched.seq = cloud.latest
        /\ fetched.kind = op[h].kind /\ fetched.exp = op[h].exp
    BY <2>2, <2>3 DEF Ops
  <2> HIDE DEF fetched
  <2>6. TypeOK'
    <3>1. op' \in [Hosts -> Ops]
      BY <2>2, <2>3, <2>4
    <3>2. next \in SyncPCs \cup RestorePCs
      BY DEF SyncPCs, RestorePCs
    <3> HIDE DEF next
    <3> QED
      BY <1>t, <1>2, <3>1, <3>2, GotoType DEF FetchCloudBase, disk, TypeOK
  <2>7. cursor[h] # None => cursor[h] <= cloud.latest
    BY DEF IInv, CursorWithinHistory
  <2>8. PhaseOK(h)'
    <3>1. pc'[h] = next /\ next \in {"restore_mark", "pull_base"}
      BY <1>t, <1>2 DEF Goto, TypeOK
    <3>2. next = "restore_mark" <=> op[h].kind = "restore"
      OBVIOUS
    <3> HIDE DEF next
    <3>3. Names(op[h].seq, op[h].got)' /\ CursorAtMost(h, op[h].seq)'
      BY <1>2, <2>1, <2>5, <2>7 DEF Names, CursorAtMost, FetchCloudBase, disk, Restorable
    <3> QED
      BY <1>t, <2>5, <3>1, <3>2, <3>3 DEF PhaseOK, Exported
  <2>9. \A g \in Hosts : PhaseOK(g)' \/ (pc'[g] = pc[g] /\ op'[g] = op[g])
    BY <1>t, <1>2, <2>3, <2>8 DEF Goto, TypeOK
  <2> QED
    BY <2>6, <2>9, QuietStep DEF FetchCloudBase, disk
<1> QED
  BY <1>1, <1>2 DEF FetchCloudBase

LEMMA ExecuteDeltaStep ==
  ASSUME IInv, NEW h \in Hosts, ExecuteDelta(h)
  PROVE  IInv'
<1>t. TypeOK /\ PhaseOK(h) /\ pc[h] = "diff"
  BY DEF IInv, PhasesOK, ExecuteDelta
<1>e. op[h].exp \in Archives /\ cursor[h] = op[h].seq
  BY <1>t DEF PhaseOK, Exported
<1>1. CASE \E r \in {"missing_base", "no_changes"} : Finish(h, r)
  <2>1. TypeOK'
    BY <1>t, <1>1, FinishType DEF ExecuteDelta, disk, TypeOK, Outcomes
  <2> QED
    BY <1>1, <2>1, FinishStep DEF ExecuteDelta, disk, Outcomes
<1>2. CASE UNCHANGED op /\ Goto(h, "put")
  <2>1. TypeOK'
    BY <1>t, <1>2, GotoType DEF ExecuteDelta, disk, TypeOK, SyncPCs
  <2>2. PhaseOK(h)'
    BY <1>t, <1>e, <1>2 DEF PhaseOK, Exported, Goto, TypeOK
  <2> QED
    BY <1>2, <2>1, <2>2, GotoStep DEF ExecuteDelta, disk, SyncPCs
<1>3. CASE /\ base[h] # None
           /\ op' = [op EXCEPT ![h].delta = Diff(base[h], op[h].exp)]
           /\ Goto(h, "push")
  <2> DEFINE d == Diff(base[h], op[h].exp)
             diffed == [op[h] EXCEPT !.delta = d]
  <2>1. base[h] \in Archives
    BY <1>t, <1>3 DEF TypeOK, OptArchives
  <2>2. d \in Deltas /\ Apply(d, base[h]) = op[h].exp
    BY <1>e, <2>1, DiffType, DiffThenApply
  <2> HIDE DEF d
  <2>3. op[h] \in Ops /\ op \in [Hosts -> Ops]
    BY <1>t DEF TypeOK
  <2>4. op' = [op EXCEPT ![h] = diffed]
    BY <1>3, <2>3 DEF d
  <2>5. /\ op'[h] = diffed /\ diffed.delta = d /\ diffed.seq = op[h].seq
        /\ diffed.exp = op[h].exp /\ diffed \in Ops
    BY <2>2, <2>3, <2>4 DEF Ops
  <2> HIDE DEF diffed
  <2>6. TypeOK'
    <3>1. op' \in [Hosts -> Ops]
      BY <2>3, <2>4, <2>5
    <3> QED
      BY <1>t, <1>3, <3>1, GotoType DEF ExecuteDelta, disk, TypeOK, SyncPCs
  <2>7. PhaseOK(h)'
    <3>1. pc'[h] = "push"
      BY <1>t, <1>3 DEF Goto, TypeOK
    <3>2. cursor[h] = cloud.latest => base[h] \in cloud.readings
      <4>1. cursor[h] # None
        BY <1>e, <2>3 DEF Ops
      <4> QED
        BY <1>3, <4>1 DEF IInv, CursorNamesBase
    <3> QED
      BY <1>e, <2>2, <2>5, <3>1, <3>2 DEF PhaseOK, Exported, ExecuteDelta, disk
  <2>8. \A g \in Hosts : PhaseOK(g)' \/ (pc'[g] = pc[g] /\ op'[g] = op[g])
    BY <1>t, <1>3, <2>4, <2>7 DEF Goto, TypeOK
  <2> QED
    BY <2>6, <2>8, QuietStep DEF ExecuteDelta, disk
<1> QED
  BY <1>1, <1>2, <1>3 DEF ExecuteDelta

\* A snapshot that is taken becomes the head, under the latest sequence or the next.
LEMMA SnapshotTaken ==
  ASSUME IInv, cloud.exists, NEW a \in Archives, NEW step \in SnapshotSteps,
         cloud' = PutSnapshot(cloud, a, step)
  PROVE  /\ cloud' \in Services /\ CloudOK' /\ Restorable(cloud)' /\ Moves
         /\ cloud'.latest = cloud.latest + step /\ cloud'.head = a
         /\ cloud'.readings = IF step = 0 THEN cloud.readings \cup {a} ELSE {a}
         /\ a \in cloud'.readings
<1>0. cloud \in Services
  BY DEF IInv, TypeOK
<1>1. /\ cloud' \in Services
      /\ cloud'.exists
      /\ cloud'.latest = cloud.latest + step
      /\ cloud'.snap = a /\ cloud'.head = a
      /\ cloud'.readings = IF step = 0 THEN cloud.readings \cup {a} ELSE {a}
  BY <1>0, PutSnapshotType
<1>2. Moves
  BY <1>1 DEF Moves, IInv, TypeOK, Services
<1> QED
  BY <1>1, <1>2 DEF CloudOK, Restorable

\* A delta that is taken turns every reading of the latest sequence into one of
\* the next.
LEMMA DeltaTaken ==
  ASSUME IInv, NEW b, AcceptsDelta(cloud, b), NEW d \in Deltas,
         cloud' = PushDelta(cloud, d)
  PROVE  /\ cloud' \in Services /\ CloudOK' /\ Restorable(cloud)' /\ Moves
         /\ cloud'.head = Apply(d, cloud.head)
         /\ cloud'.readings = {Apply(d, a) : a \in cloud.readings}
<1>1. cloud \in Services /\ cloud.head \in Archives /\ cloud.snap # None
      /\ cloud.head \in cloud.readings
  BY DEF IInv, TypeOK, Services, OptArchives, AcceptsDelta, CloudOK
<1>2. cloud' \in Services /\ cloud'.exists = cloud.exists
      /\ cloud'.latest = cloud.latest + 1 /\ cloud'.snap = cloud.snap
      /\ cloud'.head = Apply(d, cloud.head)
      /\ cloud'.readings = {Apply(d, a) : a \in cloud.readings}
  BY <1>1, PushDeltaType
<1>3. Apply(d, cloud.head) \in Archives
  BY <1>1, ApplyType
<1>4. cloud'.head \in cloud'.readings
  BY <1>1, <1>2
<1> QED
  BY <1>1, <1>2, <1>3, <1>4 DEF CloudOK, Restorable, AcceptsDelta, Moves

\* The client of an upload that was taken keeps the new sequence.
LEMMA UploadedStep ==
  ASSUME IInv, NEW h \in Hosts, Exported(h),
         cloud' \in Services, CloudOK', Restorable(cloud)', Moves,
         op[h].exp \in cloud'.readings,
         op' = [op EXCEPT ![h].seq = cloud'.latest], Goto(h, "save_base"),
         founders' \subseteq Hosts,
         UNCHANGED <<wire, disk, own, left, torn, spent>>
  PROVE  IInv'
<1> DEFINE uploaded == [op[h] EXCEPT !.seq = cloud'.latest]
<1>t. TypeOK
  BY DEF IInv
<1>1. op[h] \in Ops /\ op \in [Hosts -> Ops] /\ cloud'.latest \in Nat /\ cloud.latest \in Nat
  BY <1>t DEF TypeOK, Services
<1>2. op' = [op EXCEPT ![h] = uploaded] /\ uploaded \in Ops
  BY <1>1 DEF Ops
<1>3. op'[h] = uploaded /\ uploaded.seq = cloud'.latest /\ uploaded.exp = op[h].exp
  BY <1>1, <1>2 DEF Ops
<1> HIDE DEF uploaded
<1>4. TypeOK'
  <2>1. op' \in [Hosts -> Ops]
    BY <1>1, <1>2
  <2> QED
    BY <1>t, <2>1, GotoType DEF TypeOK, SyncPCs, disk
<1>5. PhaseOK(h)'
  <2>1. cursor[h] # None => cursor[h] <= cloud'.latest
    BY <1>1, <1>t DEF IInv, CursorWithinHistory, TypeOK, Moves
  <2>2. Names(op[h].seq, op[h].exp)' /\ CursorAtMost(h, op[h].seq)'
    BY <1>1, <1>3, <2>1 DEF Names, CursorAtMost, Exported, disk
  <2>3. pc'[h] = "save_base"
    BY <1>t DEF Goto, TypeOK
  <2> QED
    BY <2>2, <2>3 DEF PhaseOK
<1>6. \A g \in Hosts : PhaseOK(g)' \/ (pc'[g] = pc[g] /\ op'[g] = op[g])
  BY <1>t, <1>2, <1>5 DEF Goto, TypeOK
<1> QED
  BY <1>4, <1>6, AdvanceStep DEF disk

LEMMA UploadSnapshotStep ==
  ASSUME IInv, NEW h \in Hosts, UploadSnapshot(h)
  PROVE  IInv'
<1>1. PhaseOK(h) /\ pc[h] = "put" /\ Exported(h)
  BY DEF IInv, PhasesOK, PhaseOK, UploadSnapshot
<1>2. /\ cloud' \in Services /\ CloudOK' /\ Restorable(cloud)' /\ Moves
      /\ op[h].exp \in cloud'.readings
  BY <1>1, SnapshotTaken DEF UploadSnapshot, SnapshotLands, Exported
<1>3. founders' \subseteq Hosts
  BY DEF UploadSnapshot, SnapshotLands, IInv, TypeOK
<1> QED
  BY <1>1, <1>2, <1>3, UploadedStep DEF UploadSnapshot

LEMMA UploadDeltaStep ==
  ASSUME IInv, NEW h \in Hosts, UploadDelta(h)
  PROVE  IInv'
<1>t. TypeOK /\ PhaseOK(h) /\ pc[h] = "push"
  BY DEF IInv, PhasesOK, UploadDelta
<1>1. CASE Finish(h, "conflict") /\ UNCHANGED cloud
  <2>1. TypeOK'
    BY <1>t, <1>1, FinishType DEF UploadDelta, disk, TypeOK, Outcomes
  <2> QED
    BY <1>1, <2>1, FinishStep DEF UploadDelta, disk, Outcomes
<1>2. CASE /\ DeltaLands(h)
           /\ op' = [op EXCEPT ![h].seq = cloud'.latest]
           /\ Goto(h, "save_base")
  <2>1. /\ Exported(h) /\ op[h].delta \in Deltas
        /\ \E a \in cloud.readings : Apply(op[h].delta, a) = op[h].exp
    BY <1>t, <1>2 DEF PhaseOK, AcceptsDelta, DeltaLands
  <2>2. /\ cloud' \in Services /\ CloudOK' /\ Restorable(cloud)' /\ Moves
        /\ op[h].exp \in cloud'.readings
    BY <1>2, <2>1, DeltaTaken DEF DeltaLands
  <2> QED
    BY <1>t, <1>2, <2>1, <2>2, UploadedStep DEF UploadDelta, TypeOK
<1> QED
  BY <1>1, <1>2 DEF UploadDelta

LEMMA UploadLostStep ==
  ASSUME IInv, NEW h \in Hosts, UploadLost(h)
  PROVE  IInv'
<1>t. TypeOK /\ PhaseOK(h) /\ Finish(h, "failed") /\ Spend("lost")
  BY DEF IInv, PhasesOK, UploadLost
<1>1. cloud' \in Services /\ CloudOK' /\ Restorable(cloud)' /\ Moves /\ founders' \subseteq Hosts
  <2>1. CASE pc[h] = "put" /\ SnapshotLands(h)
    BY <1>t, <2>1, SnapshotTaken DEF PhaseOK, Exported, SnapshotLands, TypeOK
  <2>2. CASE pc[h] = "push" /\ DeltaLands(h) /\ UNCHANGED founders
    BY <1>t, <2>2, DeltaTaken DEF PhaseOK, DeltaLands, TypeOK
  <2> QED
    BY <2>1, <2>2 DEF UploadLost
<1>2. TypeOK'
  BY <1>t, <1>1, FinishType, SpendType DEF UploadLost, disk, TypeOK, Outcomes, FaultKinds
<1>3. \A g \in Hosts : PhaseOK(g)' \/ (pc'[g] = pc[g] /\ op'[g] = op[g])
  BY <1>t, IdlePhase DEF Finish, TypeOK
<1> QED
  BY <1>1, <1>2, <1>3, AdvanceStep DEF UploadLost, disk

LEMMA ArriveStep ==
  ASSUME IInv, NEW r \in wire, Arrive(r)
  PROVE  IInv'
<1>t. TypeOK /\ r \in Requests
  BY DEF IInv, TypeOK
<1>1. CASE UNCHANGED cloud
  <2>1. TypeOK'
    BY <1>t, <1>1 DEF Arrive, TypeOK, disk
  <2>2. CloudOK' /\ CursorWithinHistory' /\ CursorNamesBase' /\ WireOK'
    BY <1>1 DEF IInv, CloudOK, CursorWithinHistory, CursorNamesBase, WireOK, Restorable,
                Arrive, disk
  <2>3. PhasesOK'
    BY <1>1 DEF IInv, PhasesOK, PhaseOK, Names, CursorAtMost, Exported, Restorable,
                Arrive, disk
  <2> QED
    BY <2>1, <2>2, <2>3 DEF IInv
<1>2. CASE cloud' # cloud
  <2>1. cloud' \in Services /\ CloudOK' /\ Restorable(cloud)' /\ Moves
    <3>1. CASE /\ r.kind = "snapshot" /\ cloud.exists
               /\ \E step \in SnapshotSteps : cloud' = PutSnapshot(cloud, r.exp, step)
      BY <1>t, <3>1, SnapshotTaken DEF Requests
    <3>2. CASE r.kind = "delta" /\ AcceptsDelta(cloud, r.seq) /\ cloud' = PushDelta(cloud, r.delta)
      BY <1>t, <3>2, DeltaTaken DEF IInv, WireOK
    <3> QED
      BY <1>2, <3>1, <3>2 DEF Arrive
  <2>2. TypeOK'
    BY <1>t, <2>1 DEF Arrive, TypeOK, disk
  <2> QED
    BY <2>1, <2>2, AdvanceStep DEF Arrive, disk
<1> QED
  BY <1>1, <1>2
\* A step that changes the base or the cursor of one host only.
LEMMA LocalStep ==
  ASSUME IInv, TypeOK', UNCHANGED <<cloud, wire>>, NEW h \in Hosts, PhaseOK(h)',
         \A g \in Hosts \ {h} : /\ base'[g] = base[g] /\ cursor'[g] = cursor[g]
                                /\ pc'[g] = pc[g] /\ op'[g] = op[g],
         cursor'[h] # None => Restorable(cloud) /\ cursor'[h] <= cloud.latest,
         cursor'[h] # None /\ base'[h] # None /\ cursor'[h] = cloud.latest
           => base'[h] \in cloud.readings
  PROVE  IInv'
<1>1. CloudOK' /\ WireOK'
  BY DEF IInv, CloudOK, WireOK, Restorable
<1>2. CursorWithinHistory' /\ CursorNamesBase'
  BY DEF IInv, CursorWithinHistory, CursorNamesBase, Restorable
<1>3. ASSUME NEW g \in Hosts \ {h}
      PROVE  PhaseOK(g)'
  <2>1. PhaseOK(g) /\ base'[g] = base[g] /\ cursor'[g] = cursor[g]
        /\ pc'[g] = pc[g] /\ op'[g] = op[g]
    BY DEF IInv, PhasesOK
  <2> QED
    BY <2>1 DEF PhaseOK, Names, CursorAtMost, Exported, Restorable
<1> QED
  BY <1>1, <1>2, <1>3 DEF IInv, PhasesOK

\* What an operation carries when it writes a base or a cursor.
LEMMA CarriedPair ==
  ASSUME IInv, NEW h \in Hosts, NEW a, Names(op[h].seq, a), CursorAtMost(h, op[h].seq),
         cursor[h] # None, cursor[h] = cloud.latest
  PROVE  a \in cloud.readings
<1>1. op[h].seq \in Nat /\ cursor[h] \in Nat /\ cloud.latest \in Nat
  BY DEF IInv, TypeOK, Ops, Services
<1> QED
  BY <1>1 DEF Names, CursorAtMost

LEMMA PersistCloudBaseStep ==
  ASSUME IInv, NEW h \in Hosts, PersistCloudBase(h)
  PROVE  IInv'
<1>t. /\ TypeOK /\ PhaseOK(h) /\ pc[h] = "pull_base" /\ Goto(h, "pull_state")
      /\ pc'[h] = "pull_state" /\ base'[h] = op[h].got
  BY DEF IInv, PhasesOK, PersistCloudBase, Goto, TypeOK
<1>1. /\ Names(op[h].seq, op[h].got) /\ CursorAtMost(h, op[h].seq)
      /\ op[h].got \in Archives
  BY <1>t DEF PhaseOK, Names
<1>2. TypeOK'
  <2>1. left' \in [Hosts -> SUBSET Keys]
    BY <1>t DEF PersistCloudBase, TypeOK, ChangedKeys
  <2> QED
    BY <1>t, <1>1, <2>1, GotoType DEF PersistCloudBase, TypeOK, SyncPCs, OptArchives
<1>3. PhaseOK(h)'
  BY <1>t, <1>1 DEF PhaseOK, Names, CursorAtMost, Exported, Restorable, PersistCloudBase
<1>4. \A g \in Hosts \ {h} : /\ base'[g] = base[g] /\ cursor'[g] = cursor[g]
                             /\ pc'[g] = pc[g] /\ op'[g] = op[g]
  BY <1>t DEF PersistCloudBase, Goto, TypeOK
<1>5. cursor'[h] # None => Restorable(cloud) /\ cursor'[h] <= cloud.latest
  BY DEF IInv, CursorWithinHistory, PersistCloudBase
<1>6. cursor'[h] # None /\ cursor'[h] = cloud.latest => base'[h] \in cloud.readings
  BY <1>t, <1>1, CarriedPair DEF PersistCloudBase
<1> QED
  BY <1>2, <1>3, <1>4, <1>5, <1>6, LocalStep DEF PersistCloudBase

LEMMA PersistCloudStateStep ==
  ASSUME IInv, NEW h \in Hosts, PersistCloudState(h)
  PROVE  IInv'
<1> DEFINE next == CASE op[h].kind = "recover" -> "diff"
                     [] op[h].kind = "adopt"   -> "clear_marker"
                     [] op[h].kind = "restore" -> "restore_clear"
<1>t. /\ TypeOK /\ PhaseOK(h) /\ pc[h] = "pull_state" /\ Goto(h, next)
      /\ cursor'[h] = op[h].seq
  BY DEF IInv, PhasesOK, PersistCloudState, TypeOK
<1>1. /\ Names(op[h].seq, op[h].got) /\ base[h] \in {None, op[h].got}
      /\ op[h].kind = "restore" \/ (op[h].kind \in {"recover", "adopt"} /\ Exported(h))
      /\ op[h].seq \in Nat
  BY <1>t DEF PhaseOK, TypeOK, Ops
<1>n. \/ next = "diff" /\ op[h].kind = "recover"
      \/ next = "clear_marker" /\ op[h].kind = "adopt"
      \/ next = "restore_clear" /\ op[h].kind = "restore"
  BY <1>1
<1> HIDE DEF next
<1>2. TypeOK'
  <2>1. next \in SyncPCs \cup RestorePCs
    BY <1>n DEF SyncPCs, RestorePCs
  <2> QED
    BY <1>t, <1>1, <2>1, GotoType DEF PersistCloudState, TypeOK
<1>p. pc'[h] = next
  BY <1>t DEF Goto, TypeOK
<1>3. PhaseOK(h)'
  BY <1>t, <1>n, <1>p, <1>1 DEF PhaseOK, Exported, PersistCloudState
<1>4. \A g \in Hosts \ {h} : /\ base'[g] = base[g] /\ cursor'[g] = cursor[g]
                             /\ pc'[g] = pc[g] /\ op'[g] = op[g]
  BY <1>t DEF PersistCloudState, Goto, TypeOK
<1>5. /\ cursor'[h] # None => Restorable(cloud) /\ cursor'[h] <= cloud.latest
      /\ cursor'[h] = cloud.latest /\ base'[h] # None => base'[h] \in cloud.readings
  BY <1>t, <1>1 DEF Names, PersistCloudState
<1> QED
  BY <1>2, <1>3, <1>4, <1>5, LocalStep DEF PersistCloudState

LEMMA PersistLocalBaseStep ==
  ASSUME IInv, NEW h \in Hosts, PersistLocalBase(h)
  PROVE  IInv'
<1>t. /\ TypeOK /\ PhaseOK(h) /\ pc[h] = "save_base" /\ Goto(h, "save_state")
      /\ pc'[h] = "save_state" /\ base'[h] = op[h].exp
  BY DEF IInv, PhasesOK, PersistLocalBase, Goto, TypeOK
<1>1. /\ Names(op[h].seq, op[h].exp) /\ CursorAtMost(h, op[h].seq)
      /\ op[h].exp \in Archives
  BY <1>t DEF PhaseOK, Names
<1>2. TypeOK'
  <2>1. own' \in [Hosts -> SUBSET Keys] /\ left' \in [Hosts -> SUBSET Keys]
    BY <1>t DEF PersistLocalBase, TypeOK
  <2> QED
    BY <1>t, <1>1, <2>1, GotoType DEF PersistLocalBase, TypeOK, SyncPCs, OptArchives
<1>3. PhaseOK(h)'
  BY <1>t, <1>1 DEF PhaseOK, Names, CursorAtMost, Exported, Restorable, PersistLocalBase
<1>4. \A g \in Hosts \ {h} : /\ base'[g] = base[g] /\ cursor'[g] = cursor[g]
                             /\ pc'[g] = pc[g] /\ op'[g] = op[g]
  BY <1>t DEF PersistLocalBase, Goto, TypeOK
<1>5. cursor'[h] # None => Restorable(cloud) /\ cursor'[h] <= cloud.latest
  BY DEF IInv, CursorWithinHistory, PersistLocalBase
<1>6. cursor'[h] # None /\ cursor'[h] = cloud.latest => base'[h] \in cloud.readings
  BY <1>t, <1>1, CarriedPair DEF PersistLocalBase
<1> QED
  BY <1>2, <1>3, <1>4, <1>5, <1>6, LocalStep DEF PersistLocalBase

LEMMA PersistLocalStateStep ==
  ASSUME IInv, NEW h \in Hosts, PersistLocalState(h)
  PROVE  IInv'
<1>t. /\ TypeOK /\ PhaseOK(h) /\ pc[h] = "save_state" /\ cursor'[h] = op[h].seq
      /\ op[h].seq \in Nat
  BY DEF IInv, PhasesOK, PersistLocalState, TypeOK, Ops
<1>1. Names(op[h].seq, op[h].exp) /\ base[h] \in {None, op[h].exp}
  BY <1>t DEF PhaseOK
<1>2. TypeOK' /\ PhaseOK(h)' /\ (\A g \in Hosts \ {h} : pc'[g] = pc[g] /\ op'[g] = op[g])
  <2>1. CASE op[h].kind = "first"
    <3>1. Goto(h, "clear_marker") /\ UNCHANGED op
      BY <2>1 DEF PersistLocalState
    <3>2. TypeOK'
      BY <1>t, <3>1, GotoType DEF PersistLocalState, TypeOK, SyncPCs
    <3> QED
      BY <1>t, <2>1, <3>1, <3>2 DEF Goto, PhaseOK, TypeOK
  <2>2. CASE op[h].kind # "first"
    <3>1. Finish(h, "synced")
      BY <2>2 DEF PersistLocalState
    <3>2. TypeOK'
      BY <1>t, <3>1, FinishType DEF PersistLocalState, TypeOK, Outcomes
    <3> QED
      BY <1>t, <3>1, <3>2, IdlePhase DEF Finish, TypeOK
  <2> QED
    BY <2>1, <2>2
<1>3. \A g \in Hosts \ {h} : base'[g] = base[g] /\ cursor'[g] = cursor[g]
  BY <1>t DEF PersistLocalState, TypeOK
<1>4. /\ cursor'[h] # None => Restorable(cloud) /\ cursor'[h] <= cloud.latest
      /\ cursor'[h] = cloud.latest /\ base'[h] # None => base'[h] \in cloud.readings
  BY <1>t, <1>1 DEF Names, PersistLocalState
<1> QED
  BY <1>2, <1>3, <1>4, LocalStep DEF PersistLocalState

LEMMA StartRestoreStep ==
  ASSUME IInv, NEW h \in Hosts, StartRestore(h)
  PROVE  IInv'
<1> DEFINE started == [NoOp EXCEPT !.kind = "restore"]
<1>t. TypeOK /\ Goto(h, "fetch") /\ op' = [op EXCEPT ![h] = started]
  BY DEF IInv, StartRestore
<1>1. started \in Ops /\ started.kind = "restore"
  BY DEF NoOp, Ops, Kinds, OptArchives
<1> HIDE DEF started
<1>2. TypeOK'
  <2>1. op' \in [Hosts -> Ops]
    BY <1>t, <1>1 DEF TypeOK
  <2> QED
    BY <1>t, <2>1, GotoType DEF StartRestore, disk, TypeOK, SyncPCs
<1>3. PhaseOK(h)'
  BY <1>t, <1>1 DEF PhaseOK, Goto, TypeOK
<1>4. \A g \in Hosts : PhaseOK(g)' \/ (pc'[g] = pc[g] /\ op'[g] = op[g])
  BY <1>t, <1>3 DEF Goto, TypeOK
<1> QED
  BY <1>2, <1>4, QuietStep DEF StartRestore, disk

LEMMA SaveRestoreInflightStep ==
  ASSUME IInv, NEW h \in Hosts, SaveRestoreInflight(h)
  PROVE  IInv'
<1>t. TypeOK /\ PhaseOK(h) /\ pc[h] = "restore_mark" /\ Goto(h, "restore_import")
  BY DEF IInv, PhasesOK, SaveRestoreInflight
<1>1. TypeOK'
  BY <1>t, GotoType DEF SaveRestoreInflight, TypeOK, RestorePCs, RestorePhases
<1>2. PhaseOK(h)'
  BY <1>t DEF PhaseOK, Names, CursorAtMost, Restorable, SaveRestoreInflight, Goto, TypeOK
<1> QED
  BY <1>t, <1>1, <1>2, GotoStep DEF SaveRestoreInflight, RestorePCs

LEMMA ImportPartlyStep ==
  ASSUME IInv, NEW h \in Hosts, ImportPartly(h)
  PROVE  IInv'
<1>t. TypeOK
  BY DEF IInv
<1>1. TypeOK'
  <2>1. ws' \in [Hosts -> Archives]
    BY <1>t DEF ImportPartly, TornImports, TypeOK
  <2> QED
    BY <1>t, <2>1 DEF ImportPartly, TypeOK
<1> QED
  BY <1>1, QuietStep DEF ImportPartly

LEMMA ImportArchiveStep ==
  ASSUME IInv, NEW h \in Hosts, ImportArchive(h)
  PROVE  IInv'
<1>t. TypeOK /\ PhaseOK(h) /\ pc[h] = "restore_import" /\ Goto(h, "restore_imported")
  BY DEF IInv, PhasesOK, ImportArchive
<1>1. TypeOK'
  <2>1. ws' \in [Hosts -> Archives]
    BY <1>t DEF ImportArchive, ImportResults, TypeOK
  <2>2. own' \in [Hosts -> SUBSET Keys] /\ torn' \in [Hosts -> BOOLEAN]
    BY <1>t DEF ImportArchive, TypeOK
  <2>3. left' \in [Hosts -> SUBSET Keys]
    BY <1>t DEF ImportArchive, TypeOK, ChangedKeys
  <2> QED
    BY <1>t, <2>1, <2>2, <2>3, GotoType DEF ImportArchive, TypeOK, RestorePCs
<1>2. PhaseOK(h)'
  BY <1>t DEF PhaseOK, Names, CursorAtMost, Restorable, ImportArchive, Goto, TypeOK
<1> QED
  BY <1>t, <1>1, <1>2, GotoStep DEF ImportArchive, RestorePCs

LEMMA MarkRestoreImportedStep ==
  ASSUME IInv, NEW h \in Hosts, MarkRestoreImported(h)
  PROVE  IInv'
<1>t. TypeOK /\ PhaseOK(h) /\ pc[h] = "restore_imported" /\ Goto(h, "pull_base")
  BY DEF IInv, PhasesOK, MarkRestoreImported
<1>1. TypeOK'
  BY <1>t, GotoType DEF MarkRestoreImported, TypeOK, SyncPCs, RestorePhases
<1>2. PhaseOK(h)'
  BY <1>t DEF PhaseOK, Names, CursorAtMost, Restorable, MarkRestoreImported, Goto, TypeOK
<1> QED
  BY <1>t, <1>1, <1>2, GotoStep DEF MarkRestoreImported, SyncPCs

LEMMA ClearRestoreInflightStep ==
  ASSUME IInv, NEW h \in Hosts, ClearRestoreInflight(h)
  PROVE  IInv'
<1>1. TypeOK'
  BY FinishType DEF IInv, ClearRestoreInflight, TypeOK, Outcomes
<1> QED
  BY <1>1, FinishStep DEF ClearRestoreInflight, Outcomes

LEMMA EditStep ==
  ASSUME IInv, NEW h \in Hosts, NEW k \in Keys, NEW v \in Vals, Edit(h, k, v)
  PROVE  IInv'
<1>t. TypeOK
  BY DEF IInv
<1>1. TypeOK'
  <2>1. ws' \in [Hosts -> Archives]
    BY <1>t DEF Edit, TypeOK, Archives
  <2>2. own' \in [Hosts -> SUBSET Keys]
    BY <1>t DEF Edit, TypeOK
  <2> QED
    BY <1>t, <2>1, <2>2, SpendType DEF Edit, TypeOK, FaultKinds
<1> QED
  BY <1>1, QuietStep DEF Edit

LEMMA KillStep ==
  ASSUME IInv, NEW h \in Hosts, Kill(h)
  PROVE  IInv'
<1>1. TypeOK'
  BY FinishType, SpendType DEF IInv, Kill, disk, TypeOK, Outcomes, FaultKinds
<1> QED
  BY <1>1, FinishStep DEF Kill, disk, Outcomes

LEMMA RequestFailsStep ==
  ASSUME IInv, NEW h \in Hosts, RequestFails(h)
  PROVE  IInv'
<1>1. spent' \in [FaultKinds -> Nat]
  BY SpendType DEF IInv, RequestFails, TypeOK, FaultKinds
<1>2. TypeOK'
  BY <1>1, FinishType DEF IInv, RequestFails, disk, TypeOK, Outcomes
<1> QED
  BY <1>2, FinishStep DEF RequestFails, disk, Outcomes

\* The request that stays on the wire carries what its sender knew.
LEMMA UploadLateStep ==
  ASSUME IInv, NEW h \in Hosts, UploadLate(h)
  PROVE  IInv'
<1> DEFINE r == [kind  |-> IF pc[h] = "put" THEN "snapshot" ELSE "delta",
                 exp   |-> op[h].exp,
                 seq   |-> op[h].seq,
                 delta |-> op[h].delta]
<1>t. /\ TypeOK /\ PhaseOK(h) /\ pc[h] \in {"put", "push"} /\ Exported(h)
      /\ op[h] \in Ops /\ wire' = wire \cup {r}
  BY DEF IInv, PhasesOK, UploadLate, PhaseOK, TypeOK
<1>1. r \in Requests
  BY <1>t DEF Requests, Exported, Ops
<1>2. r.kind = "delta" => /\ r.delta \in Deltas /\ Restorable(cloud) /\ r.seq <= cloud.latest
                          /\ r.seq = cloud.latest => \E a \in cloud.readings : Apply(r.delta, a) = r.exp
  <2>1. pc[h] = "push" => cursor[h] = op[h].seq /\ cursor[h] # None
    BY <1>t DEF PhaseOK, Ops
  <2> QED
    BY <1>t, <2>1 DEF PhaseOK, IInv, CursorWithinHistory
<1> HIDE DEF r
<1>3. TypeOK'
  BY <1>t, <1>1, FinishType, SpendType DEF UploadLate, disk, TypeOK, Outcomes, FaultKinds
<1>4. CloudOK' /\ CursorWithinHistory' /\ CursorNamesBase' /\ WireOK'
  BY <1>t, <1>2 DEF IInv, CloudOK, CursorWithinHistory, CursorNamesBase, WireOK, Restorable,
              UploadLate, disk
<1>5. ASSUME NEW g \in Hosts
      PROVE  PhaseOK(g)'
  <2>1. CASE g = h
    BY <1>t, <2>1, IdlePhase DEF UploadLate, Finish, TypeOK
  <2>2. CASE g # h
    BY <1>t, <2>2 DEF IInv, PhasesOK, PhaseOK, Names, CursorAtMost, Exported, Restorable,
              UploadLate, disk, Finish, TypeOK
  <2> QED
    BY <2>1, <2>2
<1> QED
  BY <1>3, <1>4, <1>5 DEF IInv, PhasesOK

LEMMA LoseBaseStep ==
  ASSUME IInv, NEW h \in Hosts, LoseBase(h)
  PROVE  IInv'
<1>t. TypeOK /\ PhaseOK(h) /\ base'[h] = None
  BY DEF IInv, PhasesOK, LoseBase, TypeOK
<1>1. TypeOK'
  BY <1>t, SpendType DEF LoseBase, TypeOK, FaultKinds, OptArchives
<1>2. PhaseOK(h)'
  BY <1>t DEF PhaseOK, Names, CursorAtMost, Exported, Restorable, LoseBase
<1>3. \A g \in Hosts \ {h} : /\ base'[g] = base[g] /\ cursor'[g] = cursor[g]
                             /\ pc'[g] = pc[g] /\ op'[g] = op[g]
  BY <1>t DEF LoseBase, TypeOK
<1>4. cursor'[h] # None => Restorable(cloud) /\ cursor'[h] <= cloud.latest
  BY DEF IInv, CursorWithinHistory, LoseBase
<1> QED
  BY <1>t, <1>1, <1>2, <1>3, <1>4, LocalStep DEF LoseBase

LEMMA WipeStep ==
  ASSUME IInv, NEW h \in Hosts, Wipe(h)
  PROVE  IInv'
<1>t. TypeOK /\ pc'[h] = "idle" /\ base'[h] = None /\ cursor'[h] = None
  BY DEF IInv, Wipe, Finish, TypeOK
<1>1. TypeOK'
  <2>1. EmptyArchive \in Archives
    BY DEF EmptyArchive, Archives
  <2>2. /\ own' \in [Hosts -> SUBSET Keys] /\ left' \in [Hosts -> SUBSET Keys]
        /\ ws' \in [Hosts -> Archives]
    BY <1>t, <2>1 DEF Wipe, TypeOK
  <2>3. /\ base' \in [Hosts -> OptArchives] /\ cursor' \in [Hosts -> Nat \cup {None}]
        /\ marker' \in [Hosts -> OptArchives] /\ torn' \in [Hosts -> BOOLEAN]
        /\ restoring' \in [Hosts -> RestorePhases \cup {None}]
    BY <1>t DEF Wipe, TypeOK, OptArchives
  <2> QED
    BY <1>t, <2>2, <2>3, FinishType, SpendType DEF Wipe, TypeOK, Outcomes, FaultKinds
<1>2. \A g \in Hosts \ {h} : /\ base'[g] = base[g] /\ cursor'[g] = cursor[g]
                             /\ pc'[g] = pc[g] /\ op'[g] = op[g]
  BY <1>t DEF Wipe, Finish, TypeOK
<1> QED
  BY <1>t, <1>1, <1>2, IdlePhase, LocalStep DEF Wipe
-----------------------------------------------------------------------------
(***************************************************************************)
(* The theorems                                                            *)
(***************************************************************************)

\* Nothing is known and nothing is recorded before alf first runs.
LEMMA InitInv == Init => IInv
<1> SUFFICES ASSUME Init PROVE IInv
  OBVIOUS
<1>1. TypeOK
  BY InitType
<1>2. CloudOK /\ CursorWithinHistory /\ CursorNamesBase /\ WireOK
  BY DEF Init, NoAgent, CloudOK, CursorWithinHistory, CursorNamesBase, WireOK
<1>3. PhasesOK
  BY DEF Init, PhasesOK, PhaseOK
<1> QED
  BY <1>1, <1>2, <1>3 DEF IInv

\* Every step of every host, and every late arrival, keeps the invariant.
LEMMA StepInv ==
  ASSUME IInv, [Next]_vars
  PROVE  IInv'
<1>1. CASE UNCHANGED vars
  BY <1>1 DEF IInv, vars, TypeOK, CloudOK, CursorWithinHistory, CursorNamesBase,
              PhasesOK, PhaseOK, WireOK, Names, CursorAtMost, Exported, Restorable
<1>2. ASSUME NEW h \in Hosts, NEW recover \in BOOLEAN, NEW force \in BOOLEAN,
             SyncOne(h, recover, force)
      PROVE  IInv'
  BY <1>2, SyncOneStep
<1>3. ASSUME NEW h \in Hosts, StartRestore(h)
      PROVE  IInv'
  BY <1>3, StartRestoreStep
<1>4. ASSUME NEW h \in Hosts, Progress(h)
      PROVE  IInv'
  BY <1>4, RegisterStep, MarkFirstSyncInflightStep, ClearFirstSyncInflightStep,
     FetchCloudBaseStep, PersistCloudBaseStep, PersistCloudStateStep,
     ExecuteDeltaStep, UploadSnapshotStep, UploadDeltaStep, PersistLocalBaseStep,
     PersistLocalStateStep, SaveRestoreInflightStep, ImportArchiveStep,
     MarkRestoreImportedStep, ClearRestoreInflightStep DEF Progress
<1>5. ASSUME NEW h \in Hosts, NEW k \in Keys, NEW v \in Vals, Edit(h, k, v)
      PROVE  IInv'
  BY <1>5, EditStep
<1>6. ASSUME NEW h \in Hosts, Fault(h)
      PROVE  IInv'
  BY <1>6, RegisterLostStep, ImportPartlyStep, KillStep, RequestFailsStep,
     UploadLostStep, UploadLateStep, LoseBaseStep, WipeStep DEF Fault
<1>7. ASSUME NEW r \in wire, Arrive(r)
      PROVE  IInv'
  BY <1>7, ArriveStep
<1> QED
  BY <1>1, <1>2, <1>3, <1>4, <1>5, <1>6, <1>7 DEF Next

\* The invariant holds in every reachable state, for any number of hosts,
\* records and faults, whether or not PUT snapshot takes a new sequence.
THEOREM Invariance == Spec => []IInv
<1>1. Init => IInv
  BY InitInv
<1>2. IInv /\ [Next]_vars => IInv'
  BY StepInv
<1> QED
  BY <1>1, <1>2, PTL DEF Spec

\* Every variable keeps its type (sync.rs, restore.rs, state.rs).
THEOREM TypeCorrect == Spec => []TypeOK
<1>1. IInv => TypeOK
  BY DEF IInv
<1> QED
  BY <1>1, Invariance, PTL

\* persist_local and persist_cloud_base: however they are interrupted and
\* whatever the other hosts do, a cursor at the service's latest sequence has an
\* archive that this sequence stands for as its delta base.
THEOREM CursorNamesBaseHolds == Spec => []CursorNamesBase
<1>1. IInv => CursorNamesBase
  BY DEF IInv
<1> QED
  BY <1>1, Invariance, PTL

\* push_delta: whenever the compare-and-swap lets a delta through, now or from
\* a request that arrives late, it was made from an archive its base sequence
\* stands for: the head, unless a snapshot was put on that sequence a second time.
THEOREM AcceptedDeltaFitsHolds == Spec => []AcceptedDeltaFits
<1>1. IInv => AcceptedDeltaFits
  BY DEF IInv, AcceptedDeltaFits, AcceptsDelta, PhasesOK, PhaseOK, WireOK
<1> QED
  BY <1>1, Invariance, PTL

\* persist_local writes only sequences the service assigned.
THEOREM CursorWithinHistoryHolds == Spec => []CursorWithinHistory
<1>1. IInv => CursorWithinHistory
  BY DEF IInv
<1> QED
  BY <1>1, Invariance, PTL


-----------------------------------------------------------------------------
(***************************************************************************)
(* Frames                                                                  *)
(***************************************************************************)

\* What a step of another host leaves alone of g.
HostKept(g) ==
  /\ pc'[g] = pc[g] /\ op'[g] = op[g]
  /\ ws'[g] = ws[g] /\ base'[g] = base[g] /\ restoring'[g] = restoring[g]
  /\ own'[g] = own[g] /\ left'[g] = left[g] /\ torn'[g] = torn[g]

USE DEF Accounted

\* A host that no step touches knows what it knew.
LEMMA KeptHost ==
  ASSUME NEW g \in Hosts, GuardOK(g), OwnOK(g), HostKept(g)
  PROVE  GuardOK(g)' /\ OwnOK(g)'
BY DEF GuardOK, OwnOK, HostKept, ChangedKeys

\* A step of one host.
LEMMA HostStep ==
  ASSUME HostsOK, NEW h \in Hosts, \A g \in Hosts \ {h} : HostKept(g),
         GuardOK(h)', OwnOK(h)'
  PROVE  HostsOK'
BY KeptHost DEF HostsOK

\* A step of no host.
LEMMA NoHostStep ==
  ASSUME HostsOK, UNCHANGED <<pc, op, ws, base, restoring, own, left, torn>>
  PROVE  HostsOK'
<1>1. \A g \in Hosts : HostKept(g)
  BY DEF HostKept
<1> QED
  BY <1>1, KeptHost DEF HostsOK

\* An operation that ends without touching the disk.
LEMMA FinishHost ==
  ASSUME IInv, HostsOK, NEW h \in Hosts, NEW r, Finish(h, r),
         UNCHANGED <<ws, base, restoring, own, left, torn>>
  PROVE  HostsOK'
<1>1. pc'[h] = "idle" /\ op'[h] = NoOp
  BY DEF Finish, IInv, TypeOK
<1>2. NoOp.kind = "none"
  BY DEF NoOp
<1>3. GuardOK(h) /\ OwnOK(h)
  BY DEF HostsOK
<1>4. GuardOK(h)'
  BY <1>1, <1>2, <1>3 DEF GuardOK, UploadPhases
<1>5. OwnOK(h)'
  BY <1>1, <1>2, <1>3 DEF OwnOK, ChangedKeys
<1>6. \A g \in Hosts \ {h} : HostKept(g)
  BY DEF Finish, HostKept, IInv, TypeOK
<1> QED
  BY <1>4, <1>5, <1>6, HostStep

\* Going on to a phase, with the disk left alone.
LEMMA GotoHost ==
  ASSUME IInv, HostsOK, NEW h \in Hosts, NEW p, Goto(h, p),
         UNCHANGED <<ws, base, restoring, own, left, torn>>,
         \A g \in Hosts \ {h} : op'[g] = op[g],
         GuardOK(h)',
         op'[h].kind \notin {"none", "restore"} => ChangedKeys(op'[h].exp, ws[h]) \subseteq own[h],
         op'[h].kind = "restore" => p \notin {"restore_imported", "pull_base", "pull_state", "restore_clear"}
  PROVE  HostsOK'
<1>1. pc'[h] = p
  BY DEF Goto, IInv, TypeOK
<1>2. OwnOK(h)
  BY DEF HostsOK
<1>3. OwnOK(h)'
  BY <1>1, <1>2 DEF OwnOK, ChangedKeys
<1>4. \A g \in Hosts \ {h} : HostKept(g)
  BY DEF Goto, HostKept, IInv, TypeOK
<1> QED
  BY <1>3, <1>4, HostStep

-----------------------------------------------------------------------------
(***************************************************************************)
(* Syncs                                                                   *)
(***************************************************************************)

\* A sync starts on a workspace that is whole, with nothing of its own to hide.
LEMMA SyncOneHost ==
  ASSUME IInv, HostsOK, NEW h \in Hosts, NEW recover \in BOOLEAN, NEW force \in BOOLEAN,
         SyncOne(h, recover, force)
  PROVE  HostsOK'
<1> DEFINE mode == DecideSyncMode(cursor[h], base[h] # None, recover)
           next == CASE mode = "first" -> "register" [] mode = "recover" -> "fetch"
                     [] mode = "delta" -> "diff"
<1>0. mode \in {"first", "recover", "delta", "missing_base"}
  BY DEF DecideSyncMode
<1>1. UNCHANGED <<ws, base, restoring, own, left, torn>>
  BY DEF SyncOne, disk
<1>2. CASE Finish(h, "restore_incomplete") \/ Finish(h, "missing_base")
  BY <1>1, <1>2, FinishHost
<1>3. CASE /\ ~RestoreIncomplete(h) /\ mode # "missing_base"
           /\ op' = [op EXCEPT ![h] = Started(h, mode, force)]
           /\ Goto(h, next)
  <2>1. op'[h] = Started(h, mode, force) /\ \A g \in Hosts \ {h} : op'[g] = op[g]
    BY <1>3 DEF IInv, TypeOK
  <2>2. op'[h].kind = mode /\ op'[h].exp = ws[h]
    BY <2>1 DEF Started, NoOp
  <2>3. mode \notin {"none", "restore"} /\ next \in {"register", "fetch", "diff"}
    BY <1>0, <1>3
  <2>4. restoring[h] = None /\ ~torn[h]
    BY <1>3 DEF HostsOK, GuardOK, RestoreIncomplete
  <2>5. pc'[h] = next
    BY <1>3 DEF Goto, IInv, TypeOK
  <2>6. GuardOK(h)'
    BY <1>1, <2>2, <2>3, <2>4, <2>5 DEF GuardOK
  <2>7. ChangedKeys(op'[h].exp, ws[h]) \subseteq own[h]
    BY <2>2 DEF ChangedKeys
  <2> QED
    BY <1>1, <1>3, <2>1, <2>2, <2>3, <2>6, <2>7, GotoHost
<1> QED
  BY <1>2, <1>3 DEF SyncOne

\* A step inside a sync that keeps the export, and stays a sync.
LEMMA SyncGoesOn ==
  ASSUME IInv, HostsOK, NEW h \in Hosts, NEW p \in UploadPhases \cup {"fetch", "pull_base"}, Goto(h, p),
         UNCHANGED <<ws, base, restoring, own, left, torn>>,
         \A g \in Hosts \ {h} : op'[g] = op[g],
         op[h].kind \notin {"none", "restore"},
         op'[h].kind \notin {"none", "restore"}, op'[h].exp = op[h].exp
  PROVE  HostsOK'
<1>1. pc'[h] = p
  BY DEF Goto, IInv, TypeOK
<1>2. GuardOK(h) /\ OwnOK(h)
  BY DEF HostsOK
<1>3. GuardOK(h)'
  BY <1>1, <1>2 DEF GuardOK, UploadPhases
<1>4. ChangedKeys(op'[h].exp, ws[h]) \subseteq own[h]
  BY <1>2 DEF OwnOK
<1> QED
  BY <1>3, <1>4, GotoHost

\* The kind and the sequence of an operation say nothing of its export.
LEMMA OpFields ==
  ASSUME IInv, NEW h \in Hosts
  PROVE  /\ \A k : op' = [op EXCEPT ![h].kind = k]
                     => op'[h].kind = k /\ op'[h].exp = op[h].exp
         /\ \A s : op' = [op EXCEPT ![h].seq = s]
                     => op'[h].kind = op[h].kind /\ op'[h].exp = op[h].exp
         /\ \A d : op' = [op EXCEPT ![h].delta = d]
                     => op'[h].kind = op[h].kind /\ op'[h].exp = op[h].exp
         /\ \A a, s : op' = [op EXCEPT ![h].got = a, ![h].seq = s]
                     => op'[h].kind = op[h].kind /\ op'[h].exp = op[h].exp
<1>1. op[h] \in Ops /\ op \in [Hosts -> Ops]
  BY DEF IInv, TypeOK
<1>2. DOMAIN op[h] = {"kind", "force", "exp", "got", "seq", "delta"}
  BY <1>1 DEF Ops
<1> QED
  BY <1>1, <1>2

\* What a first sync decides leaves its export alone.
LEMMA RegisterHost ==
  ASSUME IInv, HostsOK, NEW h \in Hosts, Register(h)
  PROVE  HostsOK'
<1>1. UNCHANGED <<ws, base, restoring, own, left, torn>> /\ pc[h] = "register"
  BY DEF Register, disk
<1>2. op[h].kind \notin {"none", "restore"}
  BY <1>1 DEF HostsOK, GuardOK, UploadPhases
<1>3. CASE Finish(h, "first_sync_conflict")
  BY <1>1, <1>3, FinishHost
<1>4. ASSUME NEW p \in {"mark", "fetch"}, NEW k \in {"first", "adopt"},
             Goto(h, p), op' = [op EXCEPT ![h].kind = k]
      PROVE  HostsOK'
  <2>1. op'[h].kind = k /\ op'[h].exp = op[h].exp
    BY <1>4, OpFields
  <2>2. \A g \in Hosts \ {h} : op'[g] = op[g]
    BY <1>4 DEF IInv, TypeOK
  <2>3. p \in UploadPhases \cup {"fetch", "pull_base"}
    BY DEF UploadPhases
  <2> QED
    BY <1>1, <1>2, <1>4, <2>1, <2>2, <2>3, SyncGoesOn
<1> QED
  BY <1>3, <1>4 DEF Register

\* The marker of a first sync is none of the restore's.
LEMMA MarkFirstSyncInflightHost ==
  ASSUME IInv, HostsOK, NEW h \in Hosts, MarkFirstSyncInflight(h)
  PROVE  HostsOK'
<1>1. op[h].kind \notin {"none", "restore"}
  BY DEF MarkFirstSyncInflight, HostsOK, GuardOK, UploadPhases
<1> QED
  BY <1>1, SyncGoesOn DEF MarkFirstSyncInflight, UploadPhases

\* Nor is its removal.
LEMMA ClearFirstSyncInflightHost ==
  ASSUME IInv, HostsOK, NEW h \in Hosts, ClearFirstSyncInflight(h)
  PROVE  HostsOK'
<1>1. op[h].kind \notin {"none", "restore"}
  BY DEF ClearFirstSyncInflight, HostsOK, GuardOK, UploadPhases
<1>2. CASE Finish(h, "synced")
  BY <1>2, FinishHost DEF ClearFirstSyncInflight
<1>3. CASE Goto(h, "diff") /\ UNCHANGED op
  BY <1>1, <1>3, SyncGoesOn DEF ClearFirstSyncInflight, UploadPhases
<1> QED
  BY <1>2, <1>3 DEF ClearFirstSyncInflight

\* The diff only reads the base.
LEMMA ExecuteDeltaHost ==
  ASSUME IInv, HostsOK, NEW h \in Hosts, ExecuteDelta(h)
  PROVE  HostsOK'
<1>1. UNCHANGED <<ws, base, restoring, own, left, torn>> /\ pc[h] = "diff"
  BY DEF ExecuteDelta, disk
<1>2. op[h].kind \notin {"none", "restore"}
  BY <1>1 DEF HostsOK, GuardOK, UploadPhases
<1>3. CASE Finish(h, "missing_base") \/ Finish(h, "no_changes")
  BY <1>1, <1>3, FinishHost
<1>4. CASE UNCHANGED op /\ Goto(h, "put")
  BY <1>1, <1>2, <1>4, SyncGoesOn DEF UploadPhases
<1>5. CASE op' = [op EXCEPT ![h].delta = Diff(base[h], op[h].exp)] /\ Goto(h, "push")
  <2>1. op'[h].kind = op[h].kind /\ op'[h].exp = op[h].exp
    BY <1>5, OpFields
  <2>2. \A g \in Hosts \ {h} : op'[g] = op[g]
    BY <1>5 DEF IInv, TypeOK
  <2> QED
    BY <1>1, <1>2, <1>5, <2>1, <2>2, SyncGoesOn DEF UploadPhases
<1> QED
  BY <1>3, <1>4, <1>5 DEF ExecuteDelta

\* An upload that is answered.
LEMMA UploadHost ==
  ASSUME IInv, HostsOK, NEW h \in Hosts, UploadSnapshot(h) \/ UploadDelta(h)
  PROVE  HostsOK'
<1>1. UNCHANGED <<ws, base, restoring, own, left, torn>> /\ pc[h] \in {"put", "push"}
  BY DEF UploadSnapshot, UploadDelta, disk
<1>2. op[h].kind \notin {"none", "restore"}
  BY <1>1 DEF HostsOK, GuardOK, UploadPhases
<1>3. CASE Finish(h, "conflict")
  BY <1>1, <1>3, FinishHost
<1>4. CASE op' = [op EXCEPT ![h].seq = cloud'.latest] /\ Goto(h, "save_base")
  <2>1. op'[h].kind = op[h].kind /\ op'[h].exp = op[h].exp
    BY <1>4, OpFields
  <2>2. \A g \in Hosts \ {h} : op'[g] = op[g]
    BY <1>4 DEF IInv, TypeOK
  <2> QED
    BY <1>1, <1>2, <1>4, <2>1, <2>2, SyncGoesOn DEF UploadPhases
<1> QED
  BY <1>3, <1>4 DEF UploadSnapshot, UploadDelta

\* The new base is the export: what was edited since then stays the host's own.
LEMMA PersistLocalBaseHost ==
  ASSUME IInv, HostsOK, NEW h \in Hosts, PersistLocalBase(h)
  PROVE  HostsOK'
<1>1. /\ pc[h] = "save_base" /\ pc'[h] = "save_state" /\ base'[h] = op[h].exp
      /\ own'[h] = {k \in own[h] : ws[h][k] # op[h].exp[k]}
      /\ UNCHANGED <<ws, restoring, op, torn>>
  BY DEF PersistLocalBase, Goto, IInv, TypeOK
<1>2. GuardOK(h) /\ OwnOK(h) /\ op[h].kind \notin {"none", "restore"}
  BY <1>1 DEF HostsOK, GuardOK, UploadPhases
<1>3. ChangedKeys(op[h].exp, ws[h]) \subseteq own'[h]
  BY <1>1, <1>2 DEF OwnOK, ChangedKeys
<1>4. GuardOK(h)'
  BY <1>1, <1>2 DEF GuardOK, UploadPhases
<1>5. OwnOK(h)'
  BY <1>1, <1>2, <1>3 DEF OwnOK, ChangedKeys
<1>6. \A g \in Hosts \ {h} : HostKept(g)
  BY DEF PersistLocalBase, Goto, HostKept, IInv, TypeOK
<1> QED
  BY <1>4, <1>5, <1>6, HostStep

\* The cursor says nothing of the workspace.
LEMMA PersistLocalStateHost ==
  ASSUME IInv, HostsOK, NEW h \in Hosts, PersistLocalState(h)
  PROVE  HostsOK'
<1>1. op[h].kind \notin {"none", "restore"}
  BY DEF PersistLocalState, HostsOK, GuardOK, UploadPhases
<1>2. CASE Finish(h, "synced")
  BY <1>2, FinishHost DEF PersistLocalState
<1>3. CASE Goto(h, "clear_marker") /\ UNCHANGED op
  BY <1>1, <1>3, SyncGoesOn DEF PersistLocalState, UploadPhases
<1> QED
  BY <1>2, <1>3 DEF PersistLocalState

-----------------------------------------------------------------------------
(***************************************************************************)
(* The cloud base, and restores                                            *)
(***************************************************************************)

\* Fetching changes nothing on disk.
LEMMA FetchCloudBaseHost ==
  ASSUME IInv, HostsOK, NEW h \in Hosts, FetchCloudBase(h)
  PROVE  HostsOK'
<1>1. UNCHANGED <<ws, base, restoring, own, left, torn>> /\ pc[h] = "fetch"
  BY DEF FetchCloudBase, disk
<1>2. CASE Finish(h, "failed") \/ Finish(h, "first_sync_conflict")
  BY <1>1, <1>2, FinishHost
<1>3. CASE /\ op' = [op EXCEPT ![h].got = cloud.head, ![h].seq = cloud.latest]
           /\ Goto(h, IF op[h].kind = "restore" THEN "restore_mark" ELSE "pull_base")
  <2>1. op'[h].kind = op[h].kind /\ op'[h].exp = op[h].exp
    BY <1>3, OpFields
  <2>2. \A g \in Hosts \ {h} : op'[g] = op[g]
    BY <1>3 DEF IInv, TypeOK
  <2>3. CASE op[h].kind = "restore"
    <3>1. pc'[h] = "restore_mark" /\ Goto(h, "restore_mark")
      BY <1>3, <2>3 DEF Goto, IInv, TypeOK
    <3>2. GuardOK(h)'
      BY <1>1, <2>1, <2>3, <3>1 DEF GuardOK, UploadPhases, HostsOK
    <3> QED
      BY <1>1, <2>1, <2>2, <2>3, <3>1, <3>2, GotoHost
  <2>4. CASE op[h].kind # "restore"
    <3>1. op[h].kind \in {"recover", "adopt"}
      BY <1>1, <2>4 DEF IInv, PhasesOK, PhaseOK
    <3> QED
      BY <1>1, <1>3, <2>1, <2>2, <2>4, <3>1, SyncGoesOn
  <2> QED
    BY <2>3, <2>4
<1> QED
  BY <1>2, <1>3 DEF FetchCloudBase

\* After --recover and an adoption what the cloud's base leaves different is set
\* apart; after a restore, what the import left so.
LEMMA PersistCloudBaseHost ==
  ASSUME IInv, HostsOK, NEW h \in Hosts, PersistCloudBase(h)
  PROVE  HostsOK'
<1>1. /\ pc[h] = "pull_base" /\ pc'[h] = "pull_state" /\ base'[h] = op[h].got
      /\ left'[h] = IF op[h].kind = "restore" THEN left[h]
                    ELSE ChangedKeys(op[h].got, ws[h]) \ own[h]
      /\ UNCHANGED <<ws, restoring, op, own, torn>>
  BY DEF PersistCloudBase, Goto, IInv, TypeOK
<1>2. GuardOK(h) /\ OwnOK(h)
  BY DEF HostsOK
<1>3. GuardOK(h)'
  BY <1>1, <1>2 DEF GuardOK, UploadPhases
<1>4. OwnOK(h)'
  BY <1>1, <1>2 DEF OwnOK, ChangedKeys
<1>5. \A g \in Hosts \ {h} : HostKept(g)
  BY DEF PersistCloudBase, Goto, HostKept, IInv, TypeOK
<1> QED
  BY <1>3, <1>4, <1>5, HostStep

\* The cursor moves; where a sync goes on, where a restore ends.
LEMMA PersistCloudStateHost ==
  ASSUME IInv, HostsOK, NEW h \in Hosts, PersistCloudState(h)
  PROVE  HostsOK'
<1>1. /\ pc[h] = "pull_state"
      /\ pc'[h] = CASE op[h].kind = "recover" -> "diff"
                    [] op[h].kind = "adopt"   -> "clear_marker"
                    [] op[h].kind = "restore" -> "restore_clear"
      /\ UNCHANGED <<ws, base, restoring, own, left, op, torn>>
  BY DEF PersistCloudState, Goto, IInv, TypeOK
<1>2. op[h].kind \in {"recover", "adopt", "restore"}
  BY <1>1 DEF IInv, PhasesOK, PhaseOK
<1>3. \/ op[h].kind = "recover" /\ pc'[h] = "diff"
      \/ op[h].kind = "adopt" /\ pc'[h] = "clear_marker"
      \/ op[h].kind = "restore" /\ pc'[h] = "restore_clear"
  BY <1>1, <1>2
<1>4. GuardOK(h) /\ OwnOK(h)
  BY DEF HostsOK
<1>5. GuardOK(h)'
  BY <1>1, <1>3, <1>4 DEF GuardOK, UploadPhases
<1>6. OwnOK(h)'
  BY <1>1, <1>3, <1>4 DEF OwnOK, ChangedKeys
<1>7. \A g \in Hosts \ {h} : HostKept(g)
  BY DEF PersistCloudState, Goto, HostKept, IInv, TypeOK
<1> QED
  BY <1>5, <1>6, <1>7, HostStep

\* A restore may start whatever an earlier one left.
LEMMA StartRestoreHost ==
  ASSUME IInv, HostsOK, NEW h \in Hosts, StartRestore(h)
  PROVE  HostsOK'
<1>1. UNCHANGED <<ws, base, restoring, own, left, torn>> /\ pc'[h] = "fetch"
  BY DEF StartRestore, disk, Goto, IInv, TypeOK
<1>2. op'[h].kind = "restore" /\ \A g \in Hosts \ {h} : op'[g] = op[g]
  BY DEF StartRestore, NoOp, IInv, TypeOK
<1>3. GuardOK(h)'
  BY <1>1, <1>2 DEF GuardOK, UploadPhases, HostsOK
<1> QED
  BY <1>1, <1>2, <1>3, GotoHost DEF StartRestore

\* The guard is on disk before the import touches a file.
LEMMA SaveRestoreInflightHost ==
  ASSUME IInv, HostsOK, NEW h \in Hosts, SaveRestoreInflight(h)
  PROVE  HostsOK'
<1>1. /\ pc[h] = "restore_mark" /\ pc'[h] = "restore_import" /\ restoring'[h] = "importing"
      /\ UNCHANGED <<ws, base, own, left, op, torn>>
  BY DEF SaveRestoreInflight, Goto, IInv, TypeOK
<1>2. op[h].kind = "restore"
  BY <1>1 DEF IInv, PhasesOK, PhaseOK
<1>3. "importing" # None
  BY PhaseAssumption DEF RestorePhases
<1>4. GuardOK(h)'
  BY <1>1, <1>2, <1>3 DEF GuardOK, UploadPhases
<1>5. OwnOK(h)'
  BY <1>1, <1>2, <1>3 DEF OwnOK
<1>6. \A g \in Hosts \ {h} : HostKept(g)
  BY DEF SaveRestoreInflight, Goto, HostKept, IInv, TypeOK
<1> QED
  BY <1>4, <1>5, <1>6, HostStep

\* A torn workspace has its guard.
LEMMA ImportPartlyHost ==
  ASSUME IInv, HostsOK, NEW h \in Hosts, ImportPartly(h)
  PROVE  HostsOK'
<1>1. /\ pc[h] = "restore_import" /\ torn'[h] = TRUE
      /\ UNCHANGED <<base, restoring, own, left, op, pc>>
  BY DEF ImportPartly, IInv, TypeOK
<1>2. op[h].kind = "restore"
  BY <1>1 DEF IInv, PhasesOK, PhaseOK
<1>3. restoring[h] # None
  BY <1>1 DEF HostsOK, GuardOK
<1>4. GuardOK(h)'
  BY <1>1, <1>2, <1>3 DEF GuardOK, UploadPhases
<1>5. OwnOK(h)'
  BY <1>1, <1>2, <1>3 DEF OwnOK
<1>6. \A g \in Hosts \ {h} : HostKept(g)
  BY DEF ImportPartly, HostKept, IInv, TypeOK
<1> QED
  BY <1>4, <1>5, <1>6, HostStep

\* The import is whole: what differs from the archive was left in place by it.
LEMMA ImportArchiveHost ==
  ASSUME IInv, HostsOK, NEW h \in Hosts, ImportArchive(h)
  PROVE  HostsOK'
<1>1. /\ pc[h] = "restore_import" /\ pc'[h] = "restore_imported" /\ torn'[h] = FALSE
      /\ own'[h] = own[h] \cap ChangedKeys(op[h].got, ws'[h])
      /\ left'[h] = ChangedKeys(op[h].got, ws'[h]) \ own[h]
      /\ UNCHANGED <<base, restoring, op>>
  BY DEF ImportArchive, Goto, IInv, TypeOK
<1>2. op[h].kind = "restore"
  BY <1>1 DEF IInv, PhasesOK, PhaseOK
<1>3. restoring[h] # None
  BY <1>1 DEF HostsOK, GuardOK
<1>4. GuardOK(h)'
  BY <1>1, <1>2, <1>3 DEF GuardOK, UploadPhases
<1>5. OwnOK(h)'
  BY <1>1, <1>2, <1>3 DEF OwnOK, ChangedKeys
<1>6. \A g \in Hosts \ {h} : HostKept(g)
  BY DEF ImportArchive, Goto, HostKept, IInv, TypeOK
<1> QED
  BY <1>4, <1>5, <1>6, HostStep

\* The guard stays for the second half of the restore.
LEMMA MarkRestoreImportedHost ==
  ASSUME IInv, HostsOK, NEW h \in Hosts, MarkRestoreImported(h)
  PROVE  HostsOK'
<1>1. /\ pc[h] = "restore_imported" /\ pc'[h] = "pull_base" /\ restoring'[h] = "imported"
      /\ UNCHANGED <<ws, base, own, left, op, torn>>
  BY DEF MarkRestoreImported, Goto, IInv, TypeOK
<1>2. op[h].kind = "restore" /\ ~torn[h]
  BY <1>1 DEF IInv, PhasesOK, PhaseOK, HostsOK, GuardOK
<1>3. GuardOK(h)'
  BY <1>1, <1>2 DEF GuardOK, UploadPhases
<1>4. OwnOK(h) /\ "imported" # None
  BY PhaseAssumption DEF HostsOK, RestorePhases
<1>5. OwnOK(h)'
  BY <1>1, <1>2, <1>4 DEF OwnOK, ChangedKeys
<1>6. \A g \in Hosts \ {h} : HostKept(g)
  BY DEF MarkRestoreImported, Goto, HostKept, IInv, TypeOK
<1> QED
  BY <1>3, <1>5, <1>6, HostStep

\* The guard goes last: by then the base is the restored archive.
LEMMA ClearRestoreInflightHost ==
  ASSUME IInv, HostsOK, NEW h \in Hosts, ClearRestoreInflight(h)
  PROVE  HostsOK'
<1>1. /\ pc[h] = "restore_clear" /\ pc'[h] = "idle" /\ op'[h] = NoOp
      /\ UNCHANGED <<ws, base, own, left, torn>>
  BY DEF ClearRestoreInflight, Finish, IInv, TypeOK
<1>2. op[h].kind = "restore" /\ ~torn[h] /\ OwnOK(h) /\ NoOp.kind = "none"
  BY <1>1 DEF HostsOK, GuardOK, NoOp
<1>3. GuardOK(h)'
  BY <1>1, <1>2 DEF GuardOK, UploadPhases
<1>4. OwnOK(h)'
  BY <1>1, <1>2 DEF OwnOK, ChangedKeys
<1>5. \A g \in Hosts \ {h} : HostKept(g)
  BY DEF ClearRestoreInflight, Finish, HostKept, IInv, TypeOK
<1> QED
  BY <1>3, <1>4, <1>5, HostStep

-----------------------------------------------------------------------------
(***************************************************************************)
(* The environment                                                         *)
(***************************************************************************)

\* An edit is the host's own.
LEMMA EditHost ==
  ASSUME IInv, HostsOK, NEW h \in Hosts, NEW k \in Keys, NEW v \in Vals, Edit(h, k, v)
  PROVE  HostsOK'
<1>1. ws'[h] = [ws[h] EXCEPT ![k] = v] /\ own'[h] = own[h] \cup {k}
      /\ UNCHANGED <<base, restoring, pc, op, left, torn>>
  BY DEF Edit, IInv, TypeOK
<1>2. ws[h] \in [Keys -> Vals]
  BY DEF IInv, TypeOK, Archives
<1>3. \A a, s : ChangedKeys(a, ws[h]) \subseteq own[h] \cup s
                => ChangedKeys(a, ws'[h]) \subseteq own'[h] \cup s
  BY <1>1, <1>2 DEF ChangedKeys
<1>4. GuardOK(h) /\ OwnOK(h)
  BY DEF HostsOK
<1>5. GuardOK(h)'
  BY <1>1, <1>4 DEF GuardOK
<1>6. OwnOK(h)'
  <2>1. ChangedKeys(base[h], ws[h]) \subseteq Accounted(h)
          => ChangedKeys(base[h], ws[h])' \subseteq Accounted(h)'
    BY <1>1, <1>3 DEF ChangedKeys
  <2>2. ChangedKeys(op[h].exp, ws[h]) \subseteq own[h]
          => ChangedKeys(op[h].exp, ws[h])' \subseteq own'[h]
    BY <1>1, <1>2 DEF ChangedKeys
  <2>3. ChangedKeys(op[h].got, ws[h]) \subseteq Accounted(h)
          => ChangedKeys(op[h].got, ws[h])' \subseteq Accounted(h)'
    BY <1>1, <1>3 DEF ChangedKeys
  <2> QED
    BY <1>1, <1>4, <2>1, <2>2, <2>3 DEF OwnOK
<1>7. \A g \in Hosts \ {h} : HostKept(g)
  BY DEF Edit, HostKept, IInv, TypeOK
<1> QED
  BY <1>5, <1>6, <1>7, HostStep

\* A lost base makes no claim.
LEMMA LoseBaseHost ==
  ASSUME IInv, HostsOK, NEW h \in Hosts, LoseBase(h)
  PROVE  HostsOK'
<1>1. base'[h] = None /\ UNCHANGED <<ws, restoring, own, left, pc, op, torn>>
  BY DEF LoseBase, IInv, TypeOK
<1>2. GuardOK(h) /\ OwnOK(h)
  BY DEF HostsOK
<1>3. GuardOK(h)'
  BY <1>1, <1>2 DEF GuardOK
<1>4. OwnOK(h)'
  BY <1>1, <1>2 DEF OwnOK, ChangedKeys
<1>5. \A g \in Hosts \ {h} : HostKept(g)
  BY DEF LoseBase, HostKept, IInv, TypeOK
<1> QED
  BY <1>3, <1>4, <1>5, HostStep

\* An empty machine has nothing to know.
LEMMA WipeHost ==
  ASSUME IInv, HostsOK, NEW h \in Hosts, Wipe(h)
  PROVE  HostsOK'
<1>1. pc'[h] = "idle" /\ op'[h] = NoOp /\ base'[h] = None /\ torn'[h] = FALSE
  BY DEF Wipe, Finish, IInv, TypeOK
<1>2. GuardOK(h)'
  BY <1>1 DEF GuardOK, UploadPhases, NoOp
<1>3. OwnOK(h)'
  BY <1>1 DEF OwnOK, NoOp
<1>4. \A g \in Hosts \ {h} : HostKept(g)
  BY DEF Wipe, Finish, HostKept, IInv, TypeOK
<1> QED
  BY <1>2, <1>3, <1>4, HostStep

-----------------------------------------------------------------------------
(***************************************************************************)
(* Interrupted restores                                                    *)
(***************************************************************************)

\* Before anything runs nothing is known.
LEMMA HostsInit == Init => HostsOK
<1> SUFFICES ASSUME Init, NEW h \in Hosts PROVE GuardOK(h) /\ OwnOK(h)
  BY DEF HostsOK
<1> QED
  BY DEF Init, GuardOK, OwnOK, UploadPhases, NoOp

\* Every step keeps what the hosts know of their disks.
LEMMA HostsStep ==
  ASSUME IInv, HostsOK, [Next]_vars
  PROVE  HostsOK'
<1>1. CASE UNCHANGED vars
  BY <1>1, NoHostStep DEF vars
<1>2. ASSUME NEW h \in Hosts, NEW recover \in BOOLEAN, NEW force \in BOOLEAN,
             SyncOne(h, recover, force)
      PROVE  HostsOK'
  BY <1>2, SyncOneHost
<1>3. ASSUME NEW h \in Hosts, StartRestore(h)
      PROVE  HostsOK'
  BY <1>3, StartRestoreHost
<1>4. ASSUME NEW h \in Hosts, Progress(h)
      PROVE  HostsOK'
  BY <1>4, RegisterHost, MarkFirstSyncInflightHost, ClearFirstSyncInflightHost,
     FetchCloudBaseHost, PersistCloudBaseHost, PersistCloudStateHost, ExecuteDeltaHost,
     UploadHost, PersistLocalBaseHost, PersistLocalStateHost, SaveRestoreInflightHost,
     ImportArchiveHost, MarkRestoreImportedHost, ClearRestoreInflightHost DEF Progress
<1>5. ASSUME NEW h \in Hosts, NEW k \in Keys, NEW v \in Vals, Edit(h, k, v)
      PROVE  HostsOK'
  BY <1>5, EditHost
<1>6. ASSUME NEW h \in Hosts, Fault(h)
      PROVE  HostsOK'
  <2>1. CASE ImportPartly(h) \/ LoseBase(h) \/ Wipe(h)
    BY <2>1, ImportPartlyHost, LoseBaseHost, WipeHost
  <2>2. CASE RegisterLost(h) \/ Kill(h) \/ RequestFails(h) \/ UploadLost(h) \/ UploadLate(h)
    <3>1. UNCHANGED <<ws, base, restoring, own, left, torn>>
      BY <2>2 DEF RegisterLost, Kill, RequestFails, UploadLost, UploadLate, disk
    <3>2. Finish(h, "none") \/ Finish(h, "failed")
      BY <2>2 DEF RegisterLost, Kill, RequestFails, UploadLost, UploadLate
    <3> QED
      BY <3>1, <3>2, FinishHost
  <2> QED
    BY <1>6, <2>1, <2>2 DEF Fault
<1>7. ASSUME NEW r \in wire, Arrive(r)
      PROVE  HostsOK'
  BY <1>7, NoHostStep DEF Arrive, disk
<1> QED
  BY <1>1, <1>2, <1>3, <1>4, <1>5, <1>6, <1>7 DEF Next

\* The hosts' invariant holds in every behaviour, beside IInv.
THEOREM HostsInvariance == Spec => []HostsOK
<1>1. Init => HostsOK
  BY HostsInit
<1>2. IInv /\ HostsOK /\ [Next]_vars => HostsOK'
  BY HostsStep
<1> QED
  BY <1>1, <1>2, Invariance, PTL DEF Spec

\* ensure_sync_not_during_restore: wherever a restore is killed, no sync runs on
\* what it left half imported, and its guard stays on disk until it is whole.
THEOREM NoSyncOfTornWorkspaceHolds == Spec => []NoSyncOfTornWorkspace
<1>1. HostsOK => NoSyncOfTornWorkspace
  BY DEF HostsOK, GuardOK, NoSyncOfTornWorkspace
<1> QED
  BY <1>1, HostsInvariance, PTL

\* execute_delta: however syncs and restores are interrupted, what the next
\* sync would upload was written on this host, or is what an import, --recover or
\* an adoption set apart; nothing else is ever taken back.
THEOREM UploadsOnlyLocalEditsHolds == Spec => []UploadsOnlyLocalEdits
<1>1. HostsOK => UploadsOnlyLocalEdits
  BY DEF HostsOK, GuardOK, OwnOK, UploadsOnlyLocalEdits
<1> QED
  BY <1>1, HostsInvariance, PTL

-----------------------------------------------------------------------------
(***************************************************************************)
(* First syncs                                                             *)
(***************************************************************************)

\* What has been spent stays spent.
LEMMA SpentGrows ==
  ASSUME IInv, spent' = spent \/ \E f \in FaultKinds : Spend(f)
  PROVE  /\ \A f \in FaultKinds : spent[f] \in Nat /\ spent'[f] \in Nat
         /\ \A f \in FaultKinds : spent'[f] = 0 => spent[f] = 0
         /\ {"force", "late"} \subseteq FaultKinds
<1>1. spent \in [FaultKinds -> Nat]
  BY DEF IInv, TypeOK
<1>2. CASE spent' = spent
  BY <1>1, <1>2 DEF FaultKinds
<1>3. ASSUME NEW f \in FaultKinds, Spend(f)
      PROVE  /\ \A e \in FaultKinds : spent[e] \in Nat /\ spent'[e] \in Nat
             /\ \A e \in FaultKinds : spent'[e] = 0 => spent[e] = 0
             /\ {"force", "late"} \subseteq FaultKinds
  <2>1. spent' = [spent EXCEPT ![f] = spent[f] + 1]
    BY <1>3 DEF Spend
  <2>2. \A e \in FaultKinds : spent'[e] = IF e = f THEN spent[f] + 1 ELSE spent[e]
    BY <1>1, <2>1
  <2>3. {"force", "late"} \subseteq FaultKinds
    BY DEF FaultKinds
  <2> QED
    BY <1>1, <2>2, <2>3
<1> QED
  BY <1>2, <1>3

\* What a step of h leaves alone of the other hosts' first syncs.
OthersKept(h) ==
  \A g \in Hosts \ {h} : pc'[g] = pc[g] /\ op'[g] = op[g] /\ marker'[g] = marker[g]

\* A step of one host that tells the service nothing: it makes no new claim,
\* and goes on to an upload only after its check, or after a snapshot exists.
LEMMA FirstLocal ==
  ASSUME IInv, FirstOK, NEW h \in Hosts, UNCHANGED <<cloud, wire, founders>>, OthersKept(h),
         spent' = spent \/ \E f \in FaultKinds : Spend(f),
         Claims(h)' => Claims(h),
         op'[h].force => spent'["force"] > 0,
         pc'[h] = "diff" => op'[h].kind # "first",
         \/ pc'[h] \notin {"mark", "put"}
         \/ pc'[h] = "put" /\ op'[h].kind # "first" /\ cloud.snap # None
         \/ pc'[h] = "put" /\ pc[h] = "mark" /\ op' = op
         \/ pc' = pc /\ op' = op
  PROVE  FirstOK'
<1>1. /\ spent'["force"] \in Nat /\ spent["force"] \in Nat
      /\ spent'["late"] \in Nat /\ spent["late"] \in Nat
      /\ spent'["force"] = 0 => spent["force"] = 0
      /\ spent'["late"] = 0 => spent["late"] = 0
  BY SpentGrows
<1>2. \A g \in Hosts : Claims(g)' => Claims(g)
  BY DEF Claims, OthersKept
<1>3. \A g \in Hosts :
        /\ op'[g].force => spent'["force"] > 0
        /\ Claims(g)' => cloud.exists
  BY <1>1, <1>2 DEF FirstOK, OthersKept
<1>4. spent'["force"] = 0 =>
        /\ \A f, g \in Hosts : Claims(f)' /\ Claims(g)' => f = g
        /\ \A f \in founders, g \in Hosts : Claims(g)' => f = g
  BY <1>1, <1>2 DEF FirstOK
<1>5. ASSUME NEW g \in Hosts
      PROVE  /\ pc'[g] = "mark" => op'[g].kind = "first"
             /\ pc'[g] = "diff" => op'[g].kind # "first"
             /\ pc'[g] = "put" /\ op'[g].kind # "first" => cloud.snap # None
  <2>1. /\ pc[g] = "mark" => op[g].kind = "first"
        /\ pc[g] = "diff" => op[g].kind # "first"
        /\ pc[g] = "put" /\ op[g].kind # "first" => cloud.snap # None
    BY DEF FirstOK
  <2>3. CASE pc'[g] = pc[g] /\ op'[g] = op[g]
    BY <2>1, <2>3
  <2>4. CASE g = h /\ pc'[h] \notin {"mark", "put"}
    BY <2>4
  <2>5. CASE g = h /\ pc'[h] = "put" /\ pc[h] = "mark" /\ op' = op
    BY <2>1, <2>5
  <2>6. CASE g = h /\ pc'[h] = "put" /\ op'[h].kind # "first" /\ cloud.snap # None
    BY <2>6
  <2> QED
    BY <2>3, <2>4, <2>5, <2>6 DEF OthersKept
<1>6. spent'["late"] = 0 => wire' = {} /\ (cloud.snap = None <=> founders = {})
  BY <1>1 DEF FirstOK
<1> QED
  BY <1>3, <1>4, <1>5, <1>6 DEF FirstOK

\* An operation that ends makes no claim of its own; a marker left behind does.
LEMMA FirstFinish ==
  ASSUME IInv, FirstOK, NEW h \in Hosts, NEW r, Finish(h, r), UNCHANGED <<cloud, wire, founders>>,
         \A g \in Hosts \ {h} : marker'[g] = marker[g],
         marker'[h] \in {marker[h], None},
         spent' = spent \/ \E f \in FaultKinds : Spend(f)
  PROVE  FirstOK'
<1>1. pc'[h] = "idle" /\ op'[h] = NoOp /\ OthersKept(h)
  BY DEF Finish, OthersKept, IInv, TypeOK
<1>2. ~NoOp.force
  BY DEF NoOp
<1>3. Claims(h)' => Claims(h)
  BY <1>1 DEF Claims
<1> QED
  BY <1>1, <1>2, <1>3, FirstLocal

\* An operation that goes on to a phase before or after its upload.
LEMMA FirstGoto ==
  ASSUME IInv, FirstOK, NEW h \in Hosts, NEW p, Goto(h, p), UNCHANGED <<cloud, wire, founders, spent>>,
         \A g \in Hosts \ {h} : op'[g] = op[g] /\ marker'[g] = marker[g],
         marker'[h] \in {marker[h], None},
         op'[h].force = op[h].force \/ op'[h].force = FALSE,
         p \notin {"mark", "put"}, p = "diff" => op'[h].kind # "first"
  PROVE  FirstOK'
<1>1. pc'[h] = p /\ OthersKept(h)
  BY DEF Goto, OthersKept, IInv, TypeOK
<1>2. op'[h].force => spent'["force"] > 0
  BY DEF FirstOK
<1>3. Claims(h)' => Claims(h)
  BY <1>1 DEF Claims
<1> QED
  BY <1>1, <1>2, <1>3, FirstLocal

\* No update of an operation's other fields changes --force-first-sync.
LEMMA OpForce ==
  ASSUME IInv, NEW h \in Hosts
  PROVE  /\ \A k : op' = [op EXCEPT ![h].kind = k] => op'[h].force = op[h].force
         /\ \A s : op' = [op EXCEPT ![h].seq = s] => op'[h].force = op[h].force
         /\ \A d : op' = [op EXCEPT ![h].delta = d] => op'[h].force = op[h].force
         /\ \A a, s : op' = [op EXCEPT ![h].got = a, ![h].seq = s] => op'[h].force = op[h].force
<1>1. op[h] \in Ops /\ op \in [Hosts -> Ops]
  BY DEF IInv, TypeOK
<1>2. DOMAIN op[h] = {"kind", "force", "exp", "got", "seq", "delta"}
  BY <1>1 DEF Ops
<1> QED
  BY <1>1, <1>2

\* A forced sync is counted; no sync begins with an upload.
LEMMA SyncOneFirst ==
  ASSUME IInv, FirstOK, NEW h \in Hosts, NEW recover \in BOOLEAN, NEW force \in BOOLEAN,
         SyncOne(h, recover, force)
  PROVE  FirstOK'
<1> DEFINE mode == DecideSyncMode(cursor[h], base[h] # None, recover)
           next == CASE mode = "first" -> "register" [] mode = "recover" -> "fetch"
                     [] mode = "delta" -> "diff"
<1>0. mode \in {"first", "recover", "delta", "missing_base"}
  BY DEF DecideSyncMode
<1>1. /\ UNCHANGED <<cloud, wire, marker, founders>>
      /\ IF force THEN Spend("force") ELSE UNCHANGED spent
  BY DEF SyncOne, disk
<1>2. spent' = spent \/ \E f \in FaultKinds : Spend(f)
  BY <1>1 DEF FaultKinds
<1>3. CASE Finish(h, "restore_incomplete") \/ Finish(h, "missing_base")
  BY <1>1, <1>2, <1>3, FirstFinish
<1>4. CASE /\ mode # "missing_base"
           /\ op' = [op EXCEPT ![h] = Started(h, mode, force)]
           /\ Goto(h, next)
  <2>1. op'[h] = Started(h, mode, force) /\ \A g \in Hosts \ {h} : op'[g] = op[g]
    BY <1>4 DEF IInv, TypeOK
  <2>2. op'[h].kind = mode /\ op'[h].force = force
    BY <2>1 DEF Started, NoOp
  <2>3. pc'[h] = next /\ OthersKept(h)
    BY <1>1, <1>4, <2>1 DEF Goto, OthersKept, IInv, TypeOK
  <2>4. pc'[h] \in {"register", "fetch", "diff"} /\ (pc'[h] = "diff" => mode = "delta")
    BY <1>0, <1>4, <2>3
  <2>5. force => spent'["force"] > 0
    <3>1. spent["force"] \in Nat /\ spent \in [FaultKinds -> Nat] /\ "force" \in FaultKinds
      BY DEF IInv, TypeOK, FaultKinds
    <3> QED
      BY <1>1, <3>1 DEF Spend
  <2>6. Claims(h)' => Claims(h)
    BY <1>1, <2>4 DEF Claims
  <2> HIDE DEF mode, next
  <2> QED
    BY <1>1, <1>2, <2>2, <2>3, <2>4, <2>5, <2>6, FirstLocal
<1> QED
  BY <1>3, <1>4 DEF SyncOne

\* Steps that neither register nor upload, nor change the operation.
LEMMA QuietFirst ==
  ASSUME IInv, FirstOK, NEW h \in Hosts,
         \/ PersistCloudBase(h) \/ PersistCloudState(h) \/ PersistLocalBase(h)
         \/ SaveRestoreInflight(h) \/ ImportArchive(h) \/ MarkRestoreImported(h)
         \/ PersistLocalState(h) \/ ClearRestoreInflight(h) \/ StartRestore(h)
  PROVE  FirstOK'
<1>1. UNCHANGED <<cloud, wire, marker, founders, spent>>
  BY DEF PersistCloudBase, PersistCloudState, PersistLocalBase, SaveRestoreInflight, ImportArchive,
     MarkRestoreImported, PersistLocalState, ClearRestoreInflight, StartRestore, disk
<1>2. CASE Finish(h, "synced") \/ Finish(h, "restored")
  BY <1>1, <1>2, FirstFinish
<1>3. CASE StartRestore(h)
  <2>1. op'[h].force = FALSE /\ \A g \in Hosts \ {h} : op'[g] = op[g]
    BY <1>3 DEF StartRestore, NoOp, IInv, TypeOK
  <2> QED
    BY <1>1, <1>3, <2>1, FirstGoto DEF StartRestore
<1>4. CASE PersistCloudState(h)
  <2>1. op[h].kind \in {"recover", "adopt", "restore"}
    BY <1>4 DEF PersistCloudState, IInv, PhasesOK, PhaseOK
  <2>2. \E p \in {"diff", "clear_marker", "restore_clear"} : Goto(h, p)
    BY <1>4, <2>1 DEF PersistCloudState
  <2>3. op' = op
    BY <1>4 DEF PersistCloudState
  <2> QED
    BY <1>1, <2>1, <2>2, <2>3, FirstGoto
<1>5. CASE \E p \in {"pull_state", "save_state", "restore_import", "restore_imported", "pull_base",
                     "clear_marker"} : Goto(h, p) /\ op' = op
  BY <1>1, <1>5, FirstGoto
<1> QED
  BY <1>2, <1>3, <1>4, <1>5 DEF PersistCloudBase, PersistLocalBase, SaveRestoreInflight,
     ImportArchive, MarkRestoreImported, PersistLocalState, ClearRestoreInflight

\* The marker of the host that claims the agent already; and its removal.
LEMMA MarkerFirst ==
  ASSUME IInv, FirstOK, NEW h \in Hosts, MarkFirstSyncInflight(h) \/ ClearFirstSyncInflight(h)
  PROVE  FirstOK'
<1>1. CASE MarkFirstSyncInflight(h)
  <2>1. /\ pc[h] = "mark" /\ pc'[h] = "put" /\ op' = op /\ OthersKept(h)
        /\ UNCHANGED <<cloud, wire, founders, spent>>
    BY <1>1 DEF MarkFirstSyncInflight, Goto, OthersKept, IInv, TypeOK
  <2>2. op[h].kind = "first" /\ (op'[h].force => spent'["force"] > 0)
    BY <2>1 DEF FirstOK
  <2>3. Claims(h)
    BY <2>1, <2>2 DEF Claims
  <2> QED
    BY <2>1, <2>2, <2>3, FirstLocal
<1>2. CASE ClearFirstSyncInflight(h)
  <2>1. /\ UNCHANGED <<cloud, wire, founders, spent>> /\ marker'[h] \in {marker[h], None}
        /\ \A g \in Hosts \ {h} : marker'[g] = marker[g]
    BY <1>2 DEF ClearFirstSyncInflight, IInv, TypeOK
  <2>2. CASE Finish(h, "synced")
    BY <2>1, <2>2, FirstFinish
  <2>3. CASE op[h].kind = "adopt" /\ Goto(h, "diff") /\ UNCHANGED op
    BY <2>1, <2>3, FirstGoto
  <2> QED
    BY <1>2, <2>2, <2>3 DEF ClearFirstSyncInflight
<1> QED
  BY <1>1, <1>2

\* Fetching claims nothing.
LEMMA FetchCloudBaseFirst ==
  ASSUME IInv, FirstOK, NEW h \in Hosts, FetchCloudBase(h)
  PROVE  FirstOK'
<1>1. UNCHANGED <<cloud, wire, marker, founders, spent>>
  BY DEF FetchCloudBase, disk
<1>2. CASE Finish(h, "failed") \/ Finish(h, "first_sync_conflict")
  BY <1>1, <1>2, FirstFinish
<1>3. CASE /\ op' = [op EXCEPT ![h].got = cloud.head, ![h].seq = cloud.latest]
           /\ Goto(h, IF op[h].kind = "restore" THEN "restore_mark" ELSE "pull_base")
  <2>1. op'[h].force = op[h].force
    BY <1>3, OpForce
  <2>2. \A g \in Hosts \ {h} : op'[g] = op[g]
    BY <1>3 DEF IInv, TypeOK
  <2>3. \E p \in {"restore_mark", "pull_base"} : Goto(h, p)
    BY <1>3
  <2> QED
    BY <1>1, <2>1, <2>2, <2>3, FirstGoto
<1> QED
  BY <1>2, <1>3 DEF FetchCloudBase

\* A diff is taken against a sequence the service assigned: a snapshot exists.
LEMMA ExecuteDeltaFirst ==
  ASSUME IInv, FirstOK, NEW h \in Hosts, ExecuteDelta(h)
  PROVE  FirstOK'
<1>1. UNCHANGED <<cloud, wire, marker, founders, spent>> /\ pc[h] = "diff"
  BY DEF ExecuteDelta, disk
<1>2. CASE Finish(h, "missing_base") \/ Finish(h, "no_changes")
  BY <1>1, <1>2, FirstFinish
<1>3. CASE UNCHANGED op /\ Goto(h, "put")
  <2>1. cursor[h] = op[h].seq /\ op[h].seq \in Nat
    BY <1>1 DEF IInv, PhasesOK, PhaseOK, TypeOK, Ops
  <2>2. cloud.snap # None
    BY <2>1, ServiceAssumption DEF IInv, CursorWithinHistory, Restorable
  <2>3. op[h].kind # "first" /\ (op'[h].force => spent'["force"] > 0)
    BY <1>1, <1>3 DEF FirstOK
  <2>4. pc'[h] = "put" /\ OthersKept(h)
    BY <1>1, <1>3 DEF Goto, OthersKept, IInv, TypeOK
  <2>5. Claims(h)' => Claims(h)
    BY <1>1, <1>3, <2>3 DEF Claims
  <2> QED
    BY <1>1, <1>3, <2>2, <2>3, <2>4, <2>5, FirstLocal
<1>4. CASE op' = [op EXCEPT ![h].delta = Diff(base[h], op[h].exp)] /\ Goto(h, "push")
  <2>1. op'[h].force = op[h].force
    BY <1>4, OpForce
  <2>2. \A g \in Hosts \ {h} : op'[g] = op[g]
    BY <1>4 DEF IInv, TypeOK
  <2> QED
    BY <1>1, <1>4, <2>1, <2>2, FirstGoto
<1> QED
  BY <1>2, <1>3, <1>4 DEF ExecuteDelta

\* The registration of an unknown agent is nobody else's claim.
LEMMA CreatedFirst ==
  ASSUME IInv, FirstOK, NEW h \in Hosts, ~cloud.exists, cloud' = Registered(cloud),
         UNCHANGED <<wire, marker, founders>>, OthersKept(h),
         spent' = spent \/ \E f \in FaultKinds : Spend(f),
         op'[h].force => spent'["force"] > 0,
         pc'[h] = "mark" => op'[h].kind = "first",
         pc'[h] \notin {"put", "diff"}
  PROVE  FirstOK'
<1>1. cloud'.exists /\ cloud'.snap = None
  BY DEF Registered, NoAgent
<1>2. \A g \in Hosts : ~Claims(g)
  BY DEF FirstOK
<1>3. \A g \in Hosts \ {h} : ~Claims(g)'
  BY <1>2 DEF Claims, OthersKept
<1>4. /\ spent'["force"] \in Nat /\ spent["force"] \in Nat
      /\ spent'["force"] = 0 => spent["force"] = 0
      /\ spent'["late"] = 0 => spent["late"] = 0
  BY SpentGrows
<1>5. \A g \in Hosts :
        /\ op'[g].force => spent'["force"] > 0
        /\ pc'[g] = "mark" => op'[g].kind = "first"
        /\ pc'[g] = "diff" => op'[g].kind # "first"
  BY <1>4 DEF FirstOK, OthersKept
<1>6. \A g \in Hosts : pc'[g] = "put" => op'[g].kind = "first"
  <2>1. cloud.snap = None
    BY DEF IInv, CloudOK
  <2> QED
    BY <2>1 DEF FirstOK, OthersKept
<1>7. founders = {} /\ (spent'["late"] = 0 => wire' = {})
  <2>1. cloud.snap = None
    BY DEF IInv, CloudOK
  <2> QED
    BY <1>4, <2>1 DEF FirstOK
<1> QED
  BY <1>1, <1>3, <1>5, <1>6, <1>7 DEF FirstOK

\* A first sync is authorised by the agent's creation, by the marker of the host
\* that created it, or by force.
LEMMA RegisterFirst ==
  ASSUME IInv, FirstOK, NEW h \in Hosts, Register(h)
  PROVE  FirstOK'
<1> DEFINE decision == DecideFirstSyncConflict(cloud.exists, cloud.latest, marker[h] # None, op[h].force)
<1>1. /\ pc[h] = "register" /\ UNCHANGED <<wire, marker, founders, spent>>
      /\ cloud' = IF cloud.exists THEN cloud ELSE Registered(cloud)
  BY DEF Register, disk
<1>2. OthersKept(h)
  BY DEF Register, Goto, Finish, OthersKept, disk, IInv, TypeOK
<1>3. \/ decision = "upload" /\ pc'[h] = "mark" /\ op' = [op EXCEPT ![h].kind = "first"]
      \/ decision = "verify" /\ Goto(h, "fetch") /\ op' = [op EXCEPT ![h].kind = "adopt"]
      \/ Finish(h, "first_sync_conflict")
  BY DEF Register, Goto, IInv, TypeOK
<1>4. op'[h].force => spent'["force"] > 0
  <2>1. op'[h].force = op[h].force \/ op'[h] = NoOp
    BY <1>3, OpForce DEF Finish, IInv, TypeOK
  <2>2. ~NoOp.force
    BY DEF NoOp
  <2>3. op[h].force => spent["force"] > 0
    BY DEF FirstOK
  <2> QED
    BY <1>1, <2>1, <2>2, <2>3
<1>5. CASE ~cloud.exists
  <2>1. pc'[h] \notin {"put", "diff"} /\ (pc'[h] = "mark" => op'[h].kind = "first")
    BY <1>3, OpFields DEF Goto, Finish, IInv, TypeOK
  <2> QED
    BY <1>1, <1>2, <1>4, <1>5, <2>1, CreatedFirst
<1>6. CASE cloud.exists
  <2>1. UNCHANGED cloud
    BY <1>1, <1>6
  <2>2. CASE Finish(h, "first_sync_conflict")
    BY <1>1, <2>1, <2>2, FirstFinish
  <2>3. CASE Goto(h, "fetch") /\ op' = [op EXCEPT ![h].kind = "adopt"]
    <3>1. op'[h].force = op[h].force
      BY <2>3, OpForce
    <3>2. \A g \in Hosts \ {h} : op'[g] = op[g] /\ marker'[g] = marker[g]
      BY <1>2 DEF OthersKept
    <3> QED
      BY <1>1, <2>1, <2>3, <3>1, <3>2, FirstGoto
  <2>4. CASE decision = "upload" /\ pc'[h] = "mark" /\ op' = [op EXCEPT ![h].kind = "first"]
    <3>1. op'[h].kind = "first"
      BY <2>4, OpFields
    <3>2. \/ op[h].force
          \/ marker[h] # None /\ cloud.latest = 0
      BY <1>6, <2>4 DEF DecideFirstSyncConflict
    <3>3. spent["force"] = 0 => Claims(h)
      BY <3>2 DEF FirstOK, Claims
    <3>4. \A g \in Hosts : Claims(g)' /\ g # h => Claims(g)
      BY <1>2 DEF Claims, OthersKept
    <3>5. \A g \in Hosts : /\ op'[g].force => spent["force"] > 0
                           /\ pc'[g] = "mark" => op'[g].kind = "first"
                           /\ pc'[g] = "diff" => op'[g].kind # "first"
                           /\ pc'[g] = "put" /\ op'[g].kind # "first" => cloud.snap # None
      BY <1>1, <1>2, <1>4, <2>4, <3>1 DEF FirstOK, OthersKept
    <3>6. spent["force"] = 0 =>
            /\ \A f, g \in Hosts : Claims(f)' /\ Claims(g)' => f = g
            /\ \A f \in founders, g \in Hosts : Claims(g)' => f = g
      BY <3>3, <3>4 DEF FirstOK
    <3> QED
      BY <1>1, <1>6, <2>1, <3>5, <3>6 DEF FirstOK
  <2> QED
    BY <1>3, <2>2, <2>3, <2>4
<1> QED
  BY <1>5, <1>6

\* A snapshot or a delta of h lands.  The one that begins the history is of the
\* only host with the right to a first one.
LEMMA FirstLanded ==
  ASSUME IInv, FirstOK, NEW h \in Hosts, UNCHANGED <<wire, marker>>, OthersKept(h),
         cloud'.exists,
         spent' = spent \/ \E f \in FaultKinds : Spend(f),
         \/ cloud.snap # None /\ founders' = founders
         \/ cloud.snap = None /\ founders' = founders \cup {h} /\ Claims(h),
         cloud'.snap # None,
         pc'[h] \notin {"mark", "put", "diff"},
         op'[h].force => op[h].force
  PROVE  FirstOK'
<1>1. /\ spent'["force"] \in Nat /\ spent["force"] \in Nat
      /\ spent'["late"] \in Nat /\ spent["late"] \in Nat
      /\ spent'["force"] = 0 => spent["force"] = 0
      /\ spent'["late"] = 0 => spent["late"] = 0
  BY SpentGrows
<1>2. \A g \in Hosts : Claims(g)' => Claims(g)
  BY DEF Claims, OthersKept
<1>3. \A g \in Hosts :
        /\ op'[g].force => spent'["force"] > 0
        /\ pc'[g] = "mark" => op'[g].kind = "first"
        /\ pc'[g] = "diff" => op'[g].kind # "first"
  BY <1>1 DEF FirstOK, OthersKept
<1>4. spent'["force"] = 0 =>
        /\ \A f, g \in Hosts : Claims(f)' /\ Claims(g)' => f = g
        /\ \A f \in founders', g \in Hosts : Claims(g)' => f = g
  BY <1>1, <1>2 DEF FirstOK
<1>5. spent'["late"] = 0 => wire' = {} /\ founders' # {}
  BY <1>1 DEF FirstOK
<1> QED
  BY <1>3, <1>4, <1>5 DEF FirstOK

\* Uploads of a running sync, answered or not.
LEMMA UploadFirst ==
  ASSUME IInv, FirstOK, NEW h \in Hosts,
         UploadSnapshot(h) \/ UploadDelta(h) \/ UploadLost(h)
  PROVE  FirstOK'
<1>1. /\ pc[h] \in {"put", "push"} /\ UNCHANGED <<wire, marker>>
      /\ spent' = spent \/ \E f \in FaultKinds : Spend(f)
  BY DEF UploadSnapshot, UploadDelta, UploadLost, disk, FaultKinds
<1>2. CASE Finish(h, "conflict") /\ UNCHANGED <<cloud, founders>>
  BY <1>1, <1>2, FirstFinish
<1>3. CASE /\ \/ pc[h] = "put" /\ SnapshotLands(h)
              \/ pc[h] = "push" /\ DeltaLands(h) /\ UNCHANGED founders
           /\ \/ Finish(h, "failed")
              \/ op' = [op EXCEPT ![h].seq = cloud'.latest] /\ Goto(h, "save_base")
  <2>1. PhaseOK(h)
    BY DEF IInv, PhasesOK
  <2>2. cloud'.exists /\ cloud'.snap # None
    <3>1. Restorable(cloud)'
      BY <1>3, <2>1, SnapshotTaken, DeltaTaken DEF PhaseOK, Exported, SnapshotLands, DeltaLands
    <3> QED
      BY <3>1 DEF Restorable
  <2>3. \/ cloud.snap # None /\ founders' = founders
        \/ cloud.snap = None /\ founders' = founders \cup {h} /\ Claims(h)
    <3>1. CASE pc[h] = "push" /\ DeltaLands(h) /\ UNCHANGED founders
      BY <3>1 DEF DeltaLands, AcceptsDelta, IInv, CloudOK
    <3>2. CASE pc[h] = "put" /\ SnapshotLands(h)
      BY <3>2 DEF SnapshotLands, FirstOK, Claims
    <3> QED
      BY <1>3, <3>1, <3>2
  <2>5. OthersKept(h) /\ pc'[h] \in {"idle", "save_base"}
    BY <1>1, <1>3 DEF Goto, Finish, OthersKept, IInv, TypeOK
  <2>6. op'[h].force => op[h].force
    <3>1. CASE op' = [op EXCEPT ![h].seq = cloud'.latest]
      BY <3>1, OpForce
    <3>2. CASE Finish(h, "failed")
      BY <3>2 DEF Finish, NoOp, IInv, TypeOK
    <3> QED
      BY <1>3, <3>1, <3>2
  <2> QED
    BY <1>1, <2>2, <2>3, <2>5, <2>6, FirstLanded
<1> QED
  BY <1>2, <1>3 DEF UploadSnapshot, UploadDelta, UploadLost

\* A late arrival is one of those the property sets aside.
LEMMA ArriveFirst ==
  ASSUME IInv, FirstOK, NEW r \in wire, Arrive(r)
  PROVE  FirstOK'
<1>1. spent["late"] # 0 /\ UNCHANGED <<marker, founders, pc, op, spent>> /\ r \in Requests
  BY DEF FirstOK, Arrive, disk, IInv, TypeOK
<1>2. CASE UNCHANGED cloud
  BY <1>1, <1>2 DEF FirstOK, Claims
<1>3. CASE cloud' # cloud
  <2>1. Restorable(cloud)'
    <3>1. CASE /\ r.kind = "snapshot" /\ cloud.exists
               /\ \E step \in SnapshotSteps : cloud' = PutSnapshot(cloud, r.exp, step)
      BY <1>1, <3>1, SnapshotTaken DEF Requests
    <3>2. CASE r.kind = "delta" /\ AcceptsDelta(cloud, r.seq) /\ cloud' = PushDelta(cloud, r.delta)
      BY <3>2, DeltaTaken DEF IInv, WireOK
    <3> QED
      BY <1>3, <3>1, <3>2 DEF Arrive
  <2> QED
    BY <1>1, <2>1 DEF FirstOK, Claims, Restorable
<1> QED
  BY <1>2, <1>3

\* Everything else that can go wrong makes no claim.
LEMMA FaultFirst ==
  ASSUME IInv, FirstOK, NEW h \in Hosts, Fault(h)
  PROVE  FirstOK'
<1>1. CASE RegisterLost(h)
  <2>1. /\ ~cloud.exists /\ cloud' = Registered(cloud) /\ Finish(h, "failed") /\ Spend("lost")
        /\ UNCHANGED <<wire, marker, founders>>
    BY <1>1 DEF RegisterLost, disk
  <2>2. pc'[h] = "idle" /\ op'[h] = NoOp /\ OthersKept(h)
    BY <2>1 DEF Finish, OthersKept, IInv, TypeOK
  <2>3. \E f \in FaultKinds : Spend(f)
    BY <2>1 DEF FaultKinds
  <2> QED
    BY <2>1, <2>2, <2>3, CreatedFirst DEF NoOp
<1>2. CASE Kill(h) \/ RequestFails(h)
  <2>1. spent' = spent \/ \E f \in FaultKinds : Spend(f)
    BY <1>2 DEF Kill, RequestFails, FaultKinds
  <2> QED
    BY <1>2, <2>1, FirstFinish DEF Kill, RequestFails, disk
<1>3. CASE Wipe(h)
  <2>1. (\E f \in FaultKinds : Spend(f)) /\ Finish(h, "none") /\ UNCHANGED <<cloud, wire, founders>>
    BY <1>3 DEF Wipe, FaultKinds
  <2>2. marker'[h] = None /\ \A g \in Hosts \ {h} : marker'[g] = marker[g]
    BY <1>3 DEF Wipe, IInv, TypeOK
  <2> QED
    BY <2>1, <2>2, FirstFinish
<1>4. CASE ImportPartly(h) \/ LoseBase(h)
  <2>1. UNCHANGED <<cloud, wire, marker, founders, pc, op>> /\ (spent' = spent \/ \E f \in FaultKinds : Spend(f))
    BY <1>4 DEF ImportPartly, LoseBase, FaultKinds
  <2>2. OthersKept(h) /\ (Claims(h)' => Claims(h))
    BY <2>1 DEF OthersKept, Claims
  <2>3. /\ op'[h].force => spent'["force"] > 0
        /\ pc'[h] = "diff" => op'[h].kind # "first"
    BY <2>1, SpentGrows DEF FirstOK
  <2> QED
    BY <2>1, <2>2, <2>3, FirstLocal
<1>5. CASE UploadLost(h)
  BY <1>5, UploadFirst
<1>6. CASE UploadLate(h)
  <2>1. UNCHANGED <<cloud, marker, founders>> /\ Finish(h, "failed") /\ Spend("late")
    BY <1>6 DEF UploadLate, disk
  <2>2. pc'[h] = "idle" /\ op'[h] = NoOp /\ OthersKept(h) /\ ~NoOp.force
    BY <2>1 DEF Finish, OthersKept, NoOp, IInv, TypeOK
  <2>3. /\ spent'["force"] = spent["force"] /\ spent'["late"] # 0
        /\ spent'["force"] \in Nat /\ spent'["late"] \in Nat
    <3>1. spent \in [FaultKinds -> Nat] /\ {"force", "late"} \subseteq FaultKinds
      BY DEF IInv, TypeOK, FaultKinds
    <3> QED
      BY <2>1, <3>1 DEF Spend
  <2>5. \A g \in Hosts : Claims(g)' => Claims(g)
    BY <2>1, <2>2 DEF Claims, OthersKept
  <2>6. \A g \in Hosts :
          /\ op'[g].force => spent'["force"] > 0
          /\ pc'[g] = "mark" => op'[g].kind = "first"
          /\ pc'[g] = "diff" => op'[g].kind # "first"
          /\ pc'[g] = "put" /\ op'[g].kind # "first" => cloud.snap # None
    BY <2>2, <2>3 DEF FirstOK, OthersKept
  <2> QED
    BY <2>1, <2>3, <2>5, <2>6 DEF FirstOK
<1> QED
  BY <1>1, <1>2, <1>3, <1>4, <1>5, <1>6 DEF Fault

\* Before anything runs the service knows nothing.
LEMMA FirstInit == Init => FirstOK
BY DEF Init, NoAgent, NoOp, FirstOK, Claims

\* Every step keeps the right to a first snapshot with the agent's creator.
LEMMA FirstStep ==
  ASSUME IInv, FirstOK, [Next]_vars
  PROVE  FirstOK'
<1>1. CASE UNCHANGED vars
  BY <1>1 DEF vars, FirstOK, Claims
<1>2. ASSUME NEW h \in Hosts, NEW recover \in BOOLEAN, NEW force \in BOOLEAN,
             SyncOne(h, recover, force)
      PROVE  FirstOK'
  BY <1>2, SyncOneFirst
<1>3. ASSUME NEW h \in Hosts, Progress(h) \/ StartRestore(h)
      PROVE  FirstOK'
  BY <1>3, RegisterFirst, MarkerFirst, FetchCloudBaseFirst, ExecuteDeltaFirst, UploadFirst,
     QuietFirst DEF Progress
<1>4. ASSUME NEW h \in Hosts, NEW k \in Keys, NEW v \in Vals, Edit(h, k, v)
      PROVE  FirstOK'
  <2>1. UNCHANGED <<cloud, wire, marker, founders, pc, op>> /\ \E f \in FaultKinds : Spend(f)
    BY <1>4 DEF Edit, FaultKinds
  <2>2. OthersKept(h) /\ (Claims(h)' => Claims(h))
    BY <2>1 DEF OthersKept, Claims
  <2>3. /\ op'[h].force => spent'["force"] > 0
        /\ pc'[h] = "diff" => op'[h].kind # "first"
    BY <2>1, SpentGrows DEF FirstOK
  <2> QED
    BY <2>1, <2>2, <2>3, FirstLocal
<1>5. ASSUME NEW h \in Hosts, Fault(h)
      PROVE  FirstOK'
  BY <1>5, FaultFirst
<1>6. ASSUME NEW r \in wire, Arrive(r)
      PROVE  FirstOK'
  BY <1>6, ArriveFirst
<1> QED
  BY <1>1, <1>2, <1>3, <1>4, <1>5, <1>6 DEF Next

\* The first syncs' invariant holds in every behaviour, beside IInv.
THEOREM FirstInvariance == Spec => []FirstOK
<1>1. Init => FirstOK
  BY FirstInit
<1>2. IInv /\ FirstOK /\ [Next]_vars => FirstOK'
  BY FirstStep
<1> QED
  BY <1>1, <1>2, Invariance, PTL DEF Spec

\* decide_first_sync_conflict: unless an operator forces it, and whatever is
\* killed, wiped or lost on however many hosts, a first snapshot finds none, or
\* one whose history its own host began; whether or not a snapshot takes a new
\* sequence, so even where a sequence of 0 does not mean an empty history.
THEOREM FirstUploadContinuesOwnHistoryHolds == Spec => []FirstUploadContinuesOwnHistory
<1>1. TypeOK /\ FirstOK => FirstUploadContinuesOwnHistory
  <2> SUFFICES ASSUME TypeOK, FirstOK, NEW h \in Hosts, pc[h] \in {"mark", "put"},
                      op[h].kind = "first", spent["force"] + spent["late"] = 0
               PROVE  cloud.snap = None \/ founders = {h}
    BY DEF FirstUploadContinuesOwnHistory
  <2>1. spent["force"] = 0 /\ spent["late"] = 0 /\ founders \subseteq Hosts
    BY DEF TypeOK, FaultKinds
  <2>2. \A g \in founders : g = h
    BY <2>1 DEF FirstOK, Claims
  <2> QED
    BY <2>1, <2>2 DEF FirstOK
<1> QED
  BY <1>1, FirstInvariance, TypeCorrect, PTL

-----------------------------------------------------------------------------
(***************************************************************************)
(* AlfSync implements PublishedArchives                                    *)
(***************************************************************************)

\* Steps that keep every export and every request keep the drafts.
LEMMA DraftsKept ==
  ASSUME \A g \in Hosts : op'[g].exp = op[g].exp, wire' = wire
  PROVE  PendingArchives' = PendingArchives
BY DEF PendingArchives

\* An operation that ends drops its export, unless it is still on the wire.
LEMMA DraftsDropped ==
  ASSUME IInv, NEW h \in Hosts, NEW r, Finish(h, r),
         \A m \in wire' : m \in wire \/ (m.exp = op[h].exp /\ op[h].exp # None)
  PROVE  PendingArchives' \subseteq PendingArchives
<1>1. op'[h] = NoOp /\ \A g \in Hosts \ {h} : op'[g] = op[g]
  BY DEF Finish, IInv, TypeOK
<1>2. NoOp.exp = None
  BY DEF NoOp
<1>3. ASSUME NEW g \in Hosts, op'[g].exp # None
      PROVE  op'[g].exp \in PendingArchives
  BY <1>1, <1>2, <1>3 DEF PendingArchives
<1>4. ASSUME NEW m \in wire'
      PROVE  m.exp \in PendingArchives
  BY <1>4 DEF PendingArchives
<1> QED
  BY <1>3, <1>4 DEF PendingArchives

\* Nothing a reader of the cloud can see.
LEMMA HiddenStep ==
  ASSUME cloud'.head = cloud.head, cloud'.latest = cloud.latest, cloud'.readings = cloud.readings,
         \A g \in Hosts : op'[g].exp = op[g].exp, wire' = wire
  PROVE  UNCHANGED Published!vars
BY DraftsKept DEF Published!vars

\* A draft is given up.
LEMMA GivenUpStep ==
  ASSUME IInv, NEW h \in Hosts, NEW r, Finish(h, r),
         cloud'.head = cloud.head, cloud'.latest = cloud.latest, cloud'.readings = cloud.readings,
         \A m \in wire' : m \in wire \/ (m.exp = op[h].exp /\ op[h].exp # None)
  PROVE  Published!Next
<1>1. PendingArchives' \subseteq PendingArchives
  BY DraftsDropped
<1>2. Published!Discard
  BY <1>1 DEF Published!Discard
<1> QED
  BY <1>2 DEF Published!Next

\* A snapshot is published as a whole, under a new version or once more under the
\* current one.
LEMMA SnapshotPublished ==
  ASSUME IInv, cloud.exists, NEW a \in Archives, a \in PendingArchives,
         NEW step \in SnapshotSteps, cloud' = PutSnapshot(cloud, a, step),
         PendingArchives' \subseteq PendingArchives
  PROVE  Published!Next
<1>1. /\ cloud'.latest = cloud.latest + step /\ cloud'.head = a
      /\ cloud'.readings = IF step = 0 THEN cloud.readings \cup {a} ELSE {a}
  BY SnapshotTaken
<1>2. cloud.latest \in Nat
  BY DEF IInv, TypeOK, Services
<1>3. CASE step = 0
  <2>1. Published!Reissue(a)
    BY <1>1, <1>2, <1>3 DEF Published!Reissue
  <2> QED
    BY <2>1 DEF Published!Next
<1>4. CASE step = 1
  <2>1. Published!Publish(a)
    BY <1>1, <1>4 DEF Published!Publish
  <2> QED
    BY <2>1 DEF Published!Next
<1> QED
  BY <1>3, <1>4

\* A delta that was made from a reading of the current version amends it.
LEMMA DeltaPublished ==
  ASSUME IInv, NEW b, AcceptsDelta(cloud, b), NEW d \in Deltas, cloud' = PushDelta(cloud, d),
         NEW a \in Archives, a \in PendingArchives,
         \E c \in cloud.readings : Apply(d, c) = a,
         PendingArchives' \subseteq PendingArchives
  PROVE  Published!Next
<1>1. cloud \in Services /\ cloud.head \in Archives /\ cloud.head \in cloud.readings
  BY DEF IInv, TypeOK, Services, OptArchives, AcceptsDelta, CloudOK
<1>2. /\ cloud'.latest = cloud.latest + 1
      /\ cloud'.head = Apply(d, cloud.head)
      /\ cloud'.readings = {Apply(d, c) : c \in cloud.readings}
  BY <1>1, PushDeltaType
<1>3. a \in cloud'.readings /\ cloud'.head \in cloud'.readings
  BY <1>1, <1>2
<1>4. cloud.readings = {cloud.head} => cloud'.readings = {a}
  BY <1>2
<1>5. Published!Amend(a)
  BY <1>1, <1>2, <1>3, <1>4 DEF Published!Amend
<1> QED
  BY <1>5 DEF Published!Next

\* A sync that starts drafts the workspace as it is.
LEMMA SyncOnePublished ==
  ASSUME IInv, HostsOK, NEW h \in Hosts, NEW recover \in BOOLEAN, NEW force \in BOOLEAN,
         SyncOne(h, recover, force)
  PROVE  Published!Next
<1> DEFINE mode == DecideSyncMode(cursor[h], base[h] # None, recover)
<1>1. UNCHANGED <<cloud, wire>> /\ pc[h] = "idle"
  BY DEF SyncOne
<1>2. CASE Finish(h, "restore_incomplete") \/ Finish(h, "missing_base")
  BY <1>1, <1>2, GivenUpStep
<1>3. CASE op' = [op EXCEPT ![h] = Started(h, mode, force)]
  <2>1. op'[h].exp = ws[h] /\ \A g \in Hosts \ {h} : op'[g] = op[g]
    BY <1>3 DEF Started, NoOp, IInv, TypeOK
  <2>2. op[h].exp = None
    BY <1>1 DEF HostsOK, GuardOK, NoOp
  <2>3. PICK a \in Archives : a = ws[h]
    BY DEF IInv, TypeOK
  <2>4. a # None
    BY ServiceAssumption
  <2>5. PendingArchives' = PendingArchives \cup {a}
    BY <1>1, <2>1, <2>2, <2>3, <2>4 DEF PendingArchives
  <2>6. Published!Draft(a)
    BY <1>1, <2>5 DEF Published!Draft
  <2> QED
    BY <2>6 DEF Published!Next
<1> QED
  BY <1>2, <1>3 DEF SyncOne

\* The steps of an operation that send nothing.
LEMMA LocalPublished ==
  ASSUME IInv, HostsOK, NEW h \in Hosts,
         \/ MarkFirstSyncInflight(h) \/ ClearFirstSyncInflight(h) \/ FetchCloudBase(h)
         \/ PersistCloudBase(h) \/ PersistCloudState(h) \/ ExecuteDelta(h)
         \/ PersistLocalBase(h) \/ PersistLocalState(h) \/ StartRestore(h)
         \/ SaveRestoreInflight(h) \/ ImportArchive(h) \/ MarkRestoreImported(h)
         \/ ClearRestoreInflight(h)
  PROVE  Published!Next \/ UNCHANGED Published!vars
<1>1. UNCHANGED <<cloud, wire>>
  BY DEF MarkFirstSyncInflight, ClearFirstSyncInflight, FetchCloudBase, PersistCloudBase,
     PersistCloudState, ExecuteDelta, PersistLocalBase, PersistLocalState, StartRestore,
     SaveRestoreInflight, ImportArchive, MarkRestoreImported, ClearRestoreInflight
<1>2. CASE \E r : Finish(h, r)
  BY <1>1, <1>2, GivenUpStep
<1>3. CASE UNCHANGED op
  BY <1>1, <1>3, HiddenStep
<1>4. CASE \E a, s : op' = [op EXCEPT ![h].got = a, ![h].seq = s]
  <2>1. PICK a, s : op' = [op EXCEPT ![h].got = a, ![h].seq = s]
    BY <1>4
  <2>2. op'[h].exp = op[h].exp
    BY <2>1, OpFields DEF IInv, TypeOK
  <2>3. \A g \in Hosts \ {h} : op'[g] = op[g]
    BY <2>1 DEF IInv, TypeOK
  <2> QED
    BY <1>1, <2>2, <2>3, HiddenStep
<1>5. CASE \E d : op' = [op EXCEPT ![h].delta = d]
  <2>1. PICK d : op' = [op EXCEPT ![h].delta = d]
    BY <1>5
  <2>2. op'[h].exp = op[h].exp
    BY <2>1, OpFields DEF IInv, TypeOK
  <2>3. \A g \in Hosts \ {h} : op'[g] = op[g]
    BY <2>1 DEF IInv, TypeOK
  <2> QED
    BY <1>1, <2>2, <2>3, HiddenStep
<1>6. CASE StartRestore(h)
  <2>1. op[h] = NoOp
    BY <1>6 DEF StartRestore, HostsOK, GuardOK
  <2>2. op'[h].exp = None /\ \A g \in Hosts \ {h} : op'[g] = op[g]
    BY <1>6 DEF StartRestore, NoOp, IInv, TypeOK
  <2> QED
    BY <1>1, <2>1, <2>2, HiddenStep DEF NoOp
<1> QED
  BY <1>2, <1>3, <1>4, <1>5, <1>6
     DEF MarkFirstSyncInflight, ClearFirstSyncInflight, FetchCloudBase, PersistCloudBase,
     PersistCloudState, ExecuteDelta, PersistLocalBase, PersistLocalState, SaveRestoreInflight,
     ImportArchive, MarkRestoreImported, ClearRestoreInflight

\* Registering publishes nothing.
LEMMA RegisterPublished ==
  ASSUME IInv, FirstOK, NEW h \in Hosts, Register(h) \/ RegisterLost(h)
  PROVE  Published!Next \/ UNCHANGED Published!vars
<1>1. cloud'.head = cloud.head /\ cloud'.latest = cloud.latest /\ cloud'.readings = cloud.readings
  <2>1. cloud' = cloud \/ (~cloud.exists /\ cloud' = Registered(cloud))
    BY DEF Register, RegisterLost
  <2>2. CASE cloud' = cloud
    BY <2>2
  <2>3. CASE ~cloud.exists /\ cloud' = Registered(cloud)
    <3>1. cloud.latest = 0 /\ cloud.head = None /\ cloud.readings = {}
      BY <2>3 DEF FirstOK, NoAgent
    <3>2. cloud'.latest = 0 /\ cloud'.head = None /\ cloud'.readings = {}
      BY <2>3 DEF Registered, NoAgent
    <3> QED
      BY <3>1, <3>2
  <2> QED
    BY <2>1, <2>2, <2>3
<1>2. wire' = wire
  BY DEF Register, RegisterLost
<1>3. CASE \E r : Finish(h, r)
  BY <1>1, <1>2, <1>3, GivenUpStep
<1>4. CASE \E k : op' = [op EXCEPT ![h].kind = k]
  <2>1. op'[h].exp = op[h].exp /\ \A g \in Hosts \ {h} : op'[g] = op[g]
    BY <1>4, OpFields DEF IInv, TypeOK
  <2> QED
    BY <1>1, <1>2, <2>1, HiddenStep
<1> QED
  BY <1>3, <1>4 DEF Register, RegisterLost

\* An upload that lands publishes or amends.
LEMMA UploadPublished ==
  ASSUME IInv, NEW h \in Hosts,
         UploadSnapshot(h) \/ UploadDelta(h) \/ UploadLost(h)
  PROVE  Published!Next
<1>1. wire' = wire /\ PhaseOK(h) /\ pc[h] \in {"put", "push"}
  BY DEF UploadSnapshot, UploadDelta, UploadLost, IInv, PhasesOK
<1>2. CASE Finish(h, "conflict") /\ UNCHANGED cloud
  BY <1>1, <1>2, GivenUpStep
<1>3. CASE /\ \/ pc[h] = "put" /\ SnapshotLands(h)
              \/ pc[h] = "push" /\ DeltaLands(h)
           /\ \/ Finish(h, "failed")
              \/ op' = [op EXCEPT ![h].seq = cloud'.latest]
  <2>1. op[h].exp \in Archives
    BY <1>1 DEF PhaseOK, Exported
  <2>2. op[h].exp \in PendingArchives
    BY <2>1, ServiceAssumption DEF PendingArchives
  <2>3. PendingArchives' \subseteq PendingArchives
    <3>1. CASE Finish(h, "failed")
      BY <1>1, <3>1, DraftsDropped
    <3>2. CASE op' = [op EXCEPT ![h].seq = cloud'.latest]
      <4>1. op'[h].exp = op[h].exp /\ \A g \in Hosts \ {h} : op'[g] = op[g]
        BY <3>2, OpFields DEF IInv, TypeOK
      <4> QED
        BY <1>1, <4>1, DraftsKept
    <3> QED
      BY <1>3, <3>1, <3>2
  <2>4. CASE pc[h] = "put" /\ SnapshotLands(h)
    BY <2>1, <2>2, <2>3, <2>4, SnapshotPublished DEF SnapshotLands
  <2>5. CASE pc[h] = "push" /\ DeltaLands(h)
    <3>1. /\ op[h].delta \in Deltas
          /\ \E c \in cloud.readings : Apply(op[h].delta, c) = op[h].exp
      BY <1>1, <2>5 DEF PhaseOK, DeltaLands, AcceptsDelta
    <3> QED
      BY <2>1, <2>2, <2>3, <2>5, <3>1, DeltaPublished DEF DeltaLands
  <2> QED
    BY <1>3, <2>4, <2>5
<1> QED
  BY <1>2, <1>3 DEF UploadSnapshot, UploadDelta, UploadLost

\* So does one that arrives late; or it is refused.
LEMMA ArrivePublished ==
  ASSUME IInv, NEW r \in wire, Arrive(r)
  PROVE  Published!Next
<1>1. r \in Requests /\ op' = op /\ wire' = wire \ {r}
  BY DEF IInv, TypeOK, Arrive
<1>2. r.exp \in Archives /\ r.exp \in PendingArchives
  BY <1>1 DEF Requests, PendingArchives
<1>3. PendingArchives' \subseteq PendingArchives
  BY <1>1 DEF PendingArchives
<1>4. CASE UNCHANGED cloud
  <2>1. Published!Discard
    BY <1>3, <1>4 DEF Published!Discard
  <2> QED
    BY <2>1 DEF Published!Next
<1>5. CASE /\ r.kind = "snapshot" /\ cloud.exists
           /\ \E step \in SnapshotSteps : cloud' = PutSnapshot(cloud, r.exp, step)
  BY <1>2, <1>3, <1>5, SnapshotPublished
<1>6. CASE r.kind = "delta" /\ AcceptsDelta(cloud, r.seq) /\ cloud' = PushDelta(cloud, r.delta)
  <2>1. r.delta \in Deltas /\ \E c \in cloud.readings : Apply(r.delta, c) = r.exp
    BY <1>6 DEF IInv, WireOK, AcceptsDelta
  <2> QED
    BY <1>2, <1>3, <1>6, <2>1, DeltaPublished
<1> QED
  BY <1>4, <1>5, <1>6 DEF Arrive

\* Faults publish only what lands.
LEMMA FaultPublished ==
  ASSUME IInv, FirstOK, NEW h \in Hosts, Fault(h)
  PROVE  Published!Next \/ UNCHANGED Published!vars
<1>1. CASE RegisterLost(h) \/ UploadLost(h)
  BY <1>1, RegisterPublished, UploadPublished
<1>2. CASE ImportPartly(h) \/ LoseBase(h)
  BY <1>2, HiddenStep DEF ImportPartly, LoseBase
<1>3. CASE Kill(h) \/ RequestFails(h) \/ Wipe(h)
  <2>1. UNCHANGED <<cloud, wire>> /\ \E r : Finish(h, r)
    BY <1>3 DEF Kill, RequestFails, Wipe
  <2> QED
    BY <2>1, GivenUpStep
<1>4. CASE UploadLate(h)
  <2>1. op[h].exp \in Archives
    BY <1>4 DEF UploadLate, IInv, PhasesOK, PhaseOK, Exported
  <2>2. \A m \in wire' : m \in wire \/ (m.exp = op[h].exp /\ op[h].exp # None)
    BY <1>4, <2>1, ServiceAssumption DEF UploadLate
  <2> QED
    BY <1>4, <2>2, GivenUpStep DEF UploadLate
<1> QED
  BY <1>1, <1>2, <1>3, <1>4 DEF Fault

\* Every step publishes one draft, drafts, gives up or is hidden.
LEMMA PublishedStep ==
  ASSUME IInv, HostsOK, FirstOK, [Next]_vars
  PROVE  [Published!Next]_(Published!vars)
<1>1. CASE UNCHANGED vars
  BY <1>1, HiddenStep DEF vars
<1>2. ASSUME NEW h \in Hosts, NEW recover \in BOOLEAN, NEW force \in BOOLEAN,
             SyncOne(h, recover, force)
      PROVE  Published!Next
  BY <1>2, SyncOnePublished
<1>3. ASSUME NEW h \in Hosts, Progress(h) \/ StartRestore(h)
      PROVE  Published!Next \/ UNCHANGED Published!vars
  BY <1>3, RegisterPublished, UploadPublished, LocalPublished DEF Progress
<1>4. ASSUME NEW h \in Hosts, NEW k \in Keys, NEW v \in Vals, Edit(h, k, v)
      PROVE  UNCHANGED Published!vars
  BY <1>4, HiddenStep DEF Edit
<1>5. ASSUME NEW h \in Hosts, Fault(h)
      PROVE  Published!Next \/ UNCHANGED Published!vars
  BY <1>5, FaultPublished
<1>6. ASSUME NEW r \in wire, Arrive(r)
      PROVE  Published!Next
  BY <1>6, ArrivePublished
<1> QED
  BY <1>1, <1>2, <1>3, <1>4, <1>5, <1>6 DEF Next

\* What a reader of the cloud sees: the head is one whole exported archive, and a
\* mixture of two can only come of a delta that met a sequence which a snapshot
\* had been put on after another archive.
THEOREM PublishedSpecHolds == Spec => PublishedSpec
<1>1. Init => Published!Init
  BY DEF Init, NoAgent, NoOp, Published!Init, PendingArchives
<1>2. IInv /\ HostsOK /\ FirstOK /\ [Next]_vars => [Published!Next]_(Published!vars)
  BY PublishedStep
<1> QED
  BY <1>1, <1>2, Invariance, HostsInvariance, FirstInvariance, PTL
     DEF Spec, PublishedSpec, Published!Spec

=============================================================================
