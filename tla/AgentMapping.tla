---------------------------- MODULE AgentMapping ----------------------------
(***************************************************************************)
(* Which agent is which: the [[agents]] mapping of config.toml that joins  *)
(* a runtime's agents to their cloud identities (alf-cli/src/discovery.rs, *)
(* selector.rs, config.rs, commands/agents.rs), the .alf-agent-id pin in   *)
(* each workspace, and the slices of ZeroClaw's shared brain.db that are   *)
(* exported and restored through it (adapter-zeroclaw).                    *)
(*                                                                         *)
(* The user creates, renames and deletes agents in the runtime at any      *)
(* time.  Discovery has loaded the mapping when it reads the install and   *)
(* the pins, outside the configuration lock, and persists what it          *)
(* concluded later, under it; a command selects its row and its binding    *)
(* first and acts on them later.                                           *)
(* The second runtime is a single-agent one (the default discover_agents)  *)
(* pointed at the workspace Shared.  Every workspace directory exists; the *)
(* memory backend is SQLite; a row's content is named by the row that      *)
(* first carried it.                                                       *)
(***************************************************************************)
EXTENDS Naturals, FiniteSetsExt, SequencesExt

CONSTANTS
  None,
  Aliases,        \* names of ZeroClaw agents; each has a workspace of that name
  DefaultAlias,   \* the system agent's alias
  Declared,       \* aliases with an [agents.<alias>] block, in their order
  Shared,         \* the workspace a second runtime is pointed at
  HandNamed,      \* aliases their user may have written a row for
  StateIds,       \* ids with a file in ~/.alf/state
  Keys,           \* keys of memories
  Procs,          \* alf processes
  MaxAgents, MaxRows, MaxGestures, MaxRuns    \* bounds

Runtimes == {"zeroclaw", "generic"}

\* The derivation of an id from a workspace differs by runtime.
AlfIds == Runtimes \X Aliases \cup StateIds

Modes == {"total", "merge"}

ASSUME MappingConstants ==
  /\ Declared \in Seq(Aliases)
  /\ {DefaultAlias, Shared} \cup HandNamed \subseteq Aliases
  /\ {MaxAgents, MaxRows, MaxGestures, MaxRuns} \subseteq Nat

VARIABLES
  brain,      \* the agents table of brain.db, oldest first
  slices,     \* its memories table
  rows,       \* [[agents]] in config.toml
  pins,       \* .alf-agent-id of each workspace
  archives,   \* the last archive exported under each id
  procs,      \* the command each process is in the middle of
  used        \* ids and steps spent: the bounds

vars == <<brain, slices, rows, pins, archives, procs, used>>

\* The members of a sequence that are in a set, in their order.
Keep(seq, S) ==
  FoldLeft(LAMBDA kept, e : IF e \in S THEN Append(kept, e) ELSE kept, <<>>, seq)

-----------------------------------------------------------------------------
(***************************************************************************)
(* Discovery                                                               *)
(***************************************************************************)

Named(alias) == {k \in DOMAIN brain : brain[k].alias = alias}

\* The Z3 rule.
DefaultEnabled(alias, sole) ==
  \/ alias \in Range(Declared)
  \/ sole
  \/ alias = DefaultAlias /\ Declared = <<>>

\* The agents of the table, then the ones that are only declared.
ZeroClawAgents ==
  LET inTable  == [k \in DOMAIN brain |-> brain[k].alias]
      declared == Keep(Declared, Aliases \ Range(inTable))
      aliases  == inTable \o declared
      known    == IF aliases = <<>> THEN <<DefaultAlias>> ELSE aliases
      Binding(a) ==
        [alias  |-> a,
         zcid   |-> IF Named(a) = {} THEN None ELSE brain[Min(Named(a))].id,
         ws     |-> a,
         enable |-> DefaultEnabled(a, Len(known) = 1)]
  IN  [k \in DOMAIN known |-> Binding(known[k])]

discover_agents(runtime) ==
  IF runtime = "zeroclaw"
  THEN ZeroClawAgents
  ELSE <<[alias |-> DefaultAlias, zcid |-> None, ws |-> Shared, enable |-> TRUE]>>

\* The pin, else the id derived from the path.
resolve_agent_id(runtime, ws, pn) ==
  IF pn[ws] # None THEN pn[ws] ELSE <<runtime, ws>>

\* By their places in the mapping. A row that names no runtime, as hand-written
\* ones may, is every runtime's.
agents_for_runtime(cfg, runtime) == {k \in DOMAIN cfg : cfg[k].runtime \in {runtime, None}}

IdsOf(cfg) == {cfg[k].alf : k \in DOMAIN cfg}

\* The rules by which a row is a binding's, strongest first.
Fits(rule, row, b) ==
  CASE rule = 1 -> row.zcid # None /\ row.zcid = b.zcid
    [] rule = 2 -> row.ws = b.ws
    [] rule = 3 -> row.alias = b.alias

\* The first free row by the strongest rule that finds one; 0 is no row.
Take(cfg, mine, taken, b) ==
  LET by(n) == {k \in mine \ Range(taken) : Fits(n, cfg[k], b)}
      rules == {n \in 1..3 : by(n) # {}}
  IN  Append(taken, IF rules = {} THEN 0 ELSE Min(by(Min(rules))))

\* Each binding in turn takes its row.
Matched(cfg, mine, found) ==
  FoldLeft(LAMBDA taken, b : Take(cfg, mine, taken, b), <<>>, found)

\* A sole row that nothing matched goes to the only binding that is on by
\* default, and takes its alias.
Adopts(cfg, mine, found) ==
  LET on == {k \in DOMAIN found : found[k].enable}
  IN  IF /\ Cardinality(mine) = 1
         /\ mine \cap Range(Matched(cfg, mine, found)) = {}
         /\ Cardinality(on) = 1
      THEN on ELSE {}

RowsOf(cfg, mine, found) ==
  [k \in DOMAIN found |-> IF k \in Adopts(cfg, mine, found) THEN Min(mine)
                         ELSE Matched(cfg, mine, found)[k]]

\* A recreated agent, or a workspace that says it is another agent's.
Drifts(row, b, pn) ==
  \/ row.zcid # None /\ b.zcid # None /\ row.zcid # b.zcid
  \/ pn[b.ws] # None /\ pn[b.ws] # row.alf

FaultyRefreshed(row, b, adopted) ==
  [row EXCEPT !.zcid = b.zcid, !.alias = IF adopted THEN b.alias ELSE row.alias]

Refreshed(row, b, adopted) ==
  [row EXCEPT !.ws = b.ws, !.zcid = b.zcid,
              !.alias = IF adopted THEN b.alias ELSE row.alias]

FaultyAllocated(b, runtime, pn, taken, foreign, alone) ==
  IF pn[b.ws] # None /\ pn[b.ws] \notin taken \cup foreign
  THEN pn[b.ws]
  ELSE IF Cardinality(StateIds) = 1 /\ StateIds \cap foreign = {}
       THEN CHOOSE s \in StateIds : TRUE
       ELSE resolve_agent_id(runtime, b.ws, pn)

\* The identity of an agent the mapping has no row for: the workspace's own
\* pin unless some row has it, the only state file on first contact, else
\* the derivation.
Allocated(b, runtime, pn, taken, foreign, alone) ==
  IF pn[b.ws] # None /\ pn[b.ws] \notin taken \cup foreign
  THEN pn[b.ws]
  ELSE IF alone /\ Cardinality(StateIds) = 1 /\ StateIds \cap foreign = {}
       THEN CHOOSE s \in StateIds : TRUE
       ELSE resolve_agent_id(runtime, b.ws, pn)

\* What becomes of the k-th binding: a new row, or the matched one refreshed.
Settle(plan, out, k) ==
  LET cfg     == plan.cfg
      mine    == plan.mine
      b       == plan.found[k]
      row     == cfg[plan.match[k]]
      taken   == {cfg[j].alf : j \in mine} \cup IdsOf(out)
      foreign == {cfg[j].alf : j \in DOMAIN cfg \ mine}
      alone   == mine = {} /\ Len(plan.found) = 1
      New     ==
        [runtime |-> plan.runtime, alias |-> b.alias, zcid |-> b.zcid, ws |-> b.ws,
         alf     |-> Allocated(b, plan.runtime, plan.pins, taken, foreign, alone),
         enabled |-> mine = {} /\ b.enable]
  IN  IF plan.match[k] = 0 THEN Append(out, New)
      ELSE IF Drifts(row, b, plan.pins) THEN out
      ELSE Append(out, Refreshed(row, b, k \in plan.adopted))

\* The rows a discovery of the runtime wants written.
reconcile(cfg, pn, runtime) ==
  LET mine  == agents_for_runtime(cfg, runtime)
      found == discover_agents(runtime)
      plan  == [cfg |-> cfg, mine |-> mine, found |-> found, runtime |-> runtime,
                pins |-> pn, adopted |-> Adopts(cfg, mine, found),
                match |-> RowsOf(cfg, mine, found)]
  IN  FoldLeft(LAMBDA out, k : Settle(plan, out, k), <<>>, [k \in DOMAIN found |-> k])

\* config.rs upsert_agent: keyed by the id alone, whatever the runtime.
upsert_agent(cfg, entry) ==
  LET same == {k \in DOMAIN cfg : cfg[k].alf = entry.alf}
  IN  IF same = {} THEN Append(cfg, entry) ELSE [cfg EXCEPT ![Min(same)] = entry]

apply_reconcile(cfg, out) == FoldLeft(upsert_agent, cfg, out)

\* The bindings that no row of the mapping is for.
Unmapped(cfg, runtime) ==
  LET found == discover_agents(runtime)
  IN  {k \in DOMAIN found : RowsOf(cfg, agents_for_runtime(cfg, runtime), found)[k] = 0}

\* Applying what a discovery wants would write the mapping: a new row always
\* does, an old one when it differs.
Dirty(cfg, pn, runtime) ==
  Unmapped(cfg, runtime) # {} \/ Range(reconcile(cfg, pn, runtime)) \ Range(cfg) # {}

WritePin(pn, entry) ==
  IF pn[entry.ws] = None THEN [pn EXCEPT ![entry.ws] = entry.alf] ELSE pn

write_missing_agent_id_files(pn, out) == FoldLeft(WritePin, pn, out)

-----------------------------------------------------------------------------
(***************************************************************************)
(* Slices of the shared store                                              *)
(***************************************************************************)

SliceOf(zcid) == {s \in slices : s.owner = zcid}

\* Archived rows carry no owner.
Archived(s) == [id |-> s.id, key |-> s.key, text |-> s.text]

FaultyResolve(a, fresh) ==
  IF Named(a.alias) # {} THEN brain[Min(Named(a.alias))].id
  ELSE IF a.zcid # None THEN a.zcid ELSE fresh

\* The agent of the live store a restored slice goes to: the one that has
\* the alias now; else a new one with the archived id, or with a fresh id
\* when there is none or another agent has it.
resolve_target_agent(a, fresh) ==
  IF Named(a.alias) # {}
  THEN brain[Min(Named(a.alias))].id
  ELSE IF a.zcid # None /\ \A k \in DOMAIN brain : brain[k].id # a.zcid
       THEN a.zcid
       ELSE fresh

\* Native ids are unique in the whole table.
restore_total(target, a) ==
  LET others == {s \in slices : s.owner # target}
  IN  IF \E r \in a.rows, s \in others : s.id = r.id
      THEN slices
      ELSE others \cup {[id |-> r.id, key |-> r.key, text |-> r.text, owner |-> target] :
                          r \in a.rows}

\* Upsert on the owner and the key: the live row keeps its own id.
restore_merge(target, a) ==
  LET Clash(r) == {s \in SliceOf(target) : s.key = r.key}
      new      == {r \in a.rows : Clash(r) = {}}
      Text(s)  == IF \E r \in a.rows : r.key = s.key
                  THEN (CHOOSE r \in a.rows : r.key = s.key).text ELSE s.text
  IN  IF \E r \in new, s \in slices : s.id = r.id
      THEN slices
      ELSE {IF s.owner = target THEN [s EXCEPT !.text = Text(s)] ELSE s : s \in slices}
             \cup {[id |-> r.id, key |-> r.key, text |-> r.text, owner |-> target] :
                     r \in new}

-----------------------------------------------------------------------------
(***************************************************************************)
(* Commands                                                                *)
(***************************************************************************)

Idle(p) == procs[p] = None

Leave(p) == procs' = [procs EXCEPT ![p] = None]

Enter(p, command) ==
  /\ Idle(p)
  /\ used.runs < MaxRuns
  /\ used' = [used EXCEPT !.runs = @ + 1]
  /\ procs' = [procs EXCEPT ![p] = command]

\* alf check, and the watch loop's rediscovery, have loaded the mapping.
Check(p, runtime) ==
  /\ Enter(p, [op |-> "check", runtime |-> runtime, cfg |-> rows])
  /\ UNCHANGED <<brain, slices, rows, pins, archives>>

StillEmpty(runtime) == agents_for_runtime(rows, runtime) = {}

\* selector.rs lazy_init: a command meets an empty mapping.
LazyInit(p, runtime) ==
  /\ StillEmpty(runtime)
  /\ Enter(p, [op |-> "first", runtime |-> runtime, cfg |-> rows])
  /\ UNCHANGED <<brain, slices, rows, pins, archives>>

\* discover_and_reconcile, by the mapping this process has. It also decides
\* whether the rewrite is skipped.
Discover(p) ==
  LET c == procs[p]
  IN  /\ ~Idle(p) /\ c.op \in {"check", "first"}
      /\ procs' = [procs EXCEPT ![p] =
           [op |-> IF c.op = "check" THEN "persist" ELSE "seed", runtime |-> c.runtime,
            out |-> reconcile(c.cfg, pins, c.runtime), dirty |-> Dirty(c.cfg, pins, c.runtime)]]
      /\ UNCHANGED <<brain, slices, rows, pins, archives, used>>

\* persist: under the lock the outcome is applied to the file as it is now.
Persist(p) ==
  /\ ~Idle(p) /\ procs[p].op = "persist"
  /\ rows' = IF procs[p].dirty THEN apply_reconcile(rows, procs[p].out) ELSE rows
  /\ pins' = write_missing_agent_id_files(pins, procs[p].out)
  /\ Leave(p)
  /\ UNCHANGED <<brain, slices, archives, used>>

\* persist_first_contact: only if the mapping is still empty under the lock.
Seed(p) ==
  /\ ~Idle(p) /\ procs[p].op = "seed"
  /\ IF StillEmpty(procs[p].runtime)
     THEN /\ rows' = apply_reconcile(rows, procs[p].out)
          /\ pins' = write_missing_agent_id_files(pins, procs[p].out)
     ELSE UNCHANGED <<rows, pins>>
  /\ Leave(p)
  /\ UNCHANGED <<brain, slices, archives, used>>

\* alf agents enable / disable.
Toggle(k) ==
  /\ used.gestures < MaxGestures
  /\ rows' = [rows EXCEPT ![k].enabled = ~@]
  /\ used' = [used EXCEPT !.gestures = @ + 1]
  /\ UNCHANGED <<brain, slices, pins, archives, procs>>

\* The binding a row selected for ZeroClaw stands for: the first discovered one
\* with its runtime id or its workspace, else one made up from the row.
to_selected(row) ==
  LET found == discover_agents("zeroclaw")
      hits  == {k \in DOMAIN found : \/ found[k].zcid # None /\ found[k].zcid = row.zcid
                                     \/ found[k].ws = row.ws}
  IN  IF hits # {} THEN found[Min(hits)]
      ELSE [alias |-> row.alias, zcid |-> row.zcid, ws |-> row.ws, enable |-> row.enabled]

select_current_agent(p, k) ==
  /\ k \in agents_for_runtime(rows, "zeroclaw")
  /\ Enter(p, [op |-> "export", alf |-> rows[k].alf, binding |-> to_selected(rows[k])])
  /\ UNCHANGED <<brain, slices, rows, pins, archives>>

\* read_memory_slice: by the binding's runtime id, else by its alias.
SliceId(b) ==
  IF b.zcid # None THEN b.zcid
  ELSE IF Named(b.alias) = {} THEN None ELSE brain[Min(Named(b.alias))].id

\* ensure_workspace_agent_id fails on a pin that says otherwise.
export_agent(p) ==
  /\ ~Idle(p) /\ procs[p].op = "export"
  /\ LET c == procs[p]
         b == c.binding
     IN  IF pins[b.ws] \notin {None, c.alf}
         THEN UNCHANGED <<pins, archives>>
         ELSE /\ pins' = [pins EXCEPT ![b.ws] = c.alf]
              /\ archives' = [archives EXCEPT ![c.alf] =
                   [alias |-> b.alias, zcid |-> SliceId(b),
                    rows  |-> {Archived(s) : s \in SliceOf(SliceId(b))}]]
  /\ Leave(p)
  /\ UNCHANGED <<brain, slices, rows, used>>

\* Where a restore or an import of id x may write: the mapped workspace
\* (restore), the selected binding's (import), or any one an id without a
\* row is imported into.
Targets(x) ==
  LET mine == {k \in agents_for_runtime(rows, "zeroclaw") : rows[k].alf = x}
  IN  IF mine = {} THEN Aliases
      ELSE UNION {{rows[k].ws, to_selected(rows[k]).ws} : k \in mine}

\* import.rs: the pin is written unconditionally, then the slice.  The new
\* row of the agents table stays even if the slice is refused.
import(x, ws, mode) ==
  LET a      == archives[x]
      target == resolve_target_agent(a, used.agents + 1)
  IN  /\ a # None
      /\ target \in 1..MaxAgents
      /\ used.runs < MaxRuns
      /\ ws \in Targets(x)
      /\ pins' = [pins EXCEPT ![ws] = x]
      /\ brain' = IF Named(a.alias) # {} THEN brain
                  ELSE Append(brain, [id |-> target, alias |-> a.alias])
      /\ slices' = IF mode = "total" THEN restore_total(target, a)
                   ELSE restore_merge(target, a)
      /\ used' = [used EXCEPT !.runs = @ + 1,
                              !.agents = IF target > @ THEN target ELSE @]
      /\ UNCHANGED <<rows, archives, procs>>

-----------------------------------------------------------------------------
(***************************************************************************)
(* The runtime and its user (external)                                     *)
(***************************************************************************)

CreateAgent(alias) ==
  /\ Named(alias) = {} /\ used.agents < MaxAgents
  /\ brain' = Append(brain, [id |-> used.agents + 1, alias |-> alias])
  /\ used' = [used EXCEPT !.agents = @ + 1]
  /\ UNCHANGED <<slices, rows, pins, archives, procs>>

RenameAgent(k, alias) ==
  /\ Named(alias) = {} /\ used.gestures < MaxGestures
  /\ brain' = [brain EXCEPT ![k].alias = alias]
  /\ used' = [used EXCEPT !.gestures = @ + 1]
  /\ UNCHANGED <<slices, rows, pins, archives, procs>>

DeleteAgent(k) ==
  /\ used.gestures < MaxGestures
  /\ brain' = RemoveAt(brain, k)
  /\ slices' = slices \ SliceOf(brain[k].id)
  /\ used' = [used EXCEPT !.gestures = @ + 1]
  /\ UNCHANGED <<rows, pins, archives, procs>>

Remember(k, key) ==
  LET id == used.rows + 1
  IN  /\ used.rows < MaxRows
      /\ slices' = {s \in SliceOf(brain[k].id) : s.key # key}
                     \cup {[id |-> id, key |-> key, text |-> id, owner |-> brain[k].id]}
                     \cup {s \in slices : s.owner # brain[k].id}
      /\ used' = [used EXCEPT !.rows = @ + 1]
      /\ UNCHANGED <<brain, rows, pins, archives, procs>>

\* A row its user has written by hand, for the agent of an old state file: the
\* first gesture.
HandWritten(alias, alf) ==
  [runtime |-> None, alias |-> alias, zcid |-> None, ws |-> alias, alf |-> alf, enabled |-> TRUE]

Init ==
  /\ brain = <<>>
  /\ slices = {}
  /\ rows \in {<<>>} \cup {<<HandWritten(a, x)>> : a \in HandNamed, x \in StateIds}
  /\ pins = [w \in Aliases |-> None]
  /\ archives = [x \in AlfIds |-> None]
  /\ procs = [p \in Procs |-> None]
  /\ used = [agents |-> 0, rows |-> 0, gestures |-> Len(rows), runs |-> 0]

User ==
  \/ \E a \in Aliases : CreateAgent(a)
  \/ \E k \in DOMAIN brain, a \in Aliases : RenameAgent(k, a)
  \/ \E k \in DOMAIN brain : DeleteAgent(k)
  \/ \E k \in DOMAIN brain, key \in Keys : Remember(k, key)

Next ==
  \/ User
  \/ \E p \in Procs :
       \/ \E r \in Runtimes : Check(p, r) \/ LazyInit(p, r)
       \/ Discover(p)
       \/ Persist(p)
       \/ Seed(p)
       \/ \E k \in DOMAIN rows : select_current_agent(p, k)
       \/ export_agent(p)
  \/ \E k \in DOMAIN rows : Toggle(k)
  \/ \E x \in AlfIds, ws \in Aliases, mode \in Modes : import(x, ws, mode)

Spec == Init /\ [][Next]_vars

-----------------------------------------------------------------------------
(***************************************************************************)
(* Properties                                                              *)
(***************************************************************************)

ArchiveType == [alias : Aliases, zcid : 1..MaxAgents \cup {None},
                rows : SUBSET [id : 1..MaxRows, key : Keys, text : 1..MaxRows]]

\* What the stores' own constraints and upsert_agent keep unique, too.
MappingTypeOK ==
  /\ \A k \in DOMAIN brain : brain[k] \in [id : 1..MaxAgents, alias : Aliases]
  /\ \A j, k \in DOMAIN brain :
       j # k => brain[j].id # brain[k].id /\ brain[j].alias # brain[k].alias
  /\ \A s \in slices :
       s \in [id : 1..MaxRows, key : Keys, text : 1..MaxRows, owner : 1..MaxAgents]
  /\ \A s, t \in slices :
       s # t => s.id # t.id /\ <<s.owner, s.key>> # <<t.owner, t.key>>
  /\ \A k \in DOMAIN rows :
       rows[k] \in [runtime : Runtimes \cup {None}, alias : Aliases,
                    zcid : 1..MaxAgents \cup {None}, ws : Aliases, alf : AlfIds,
                    enabled : BOOLEAN]
  /\ \A j, k \in DOMAIN rows : j # k => rows[j].alf # rows[k].alf
  /\ pins \in [Aliases -> AlfIds \cup {None}]
  /\ \A x \in AlfIds : archives[x] # None => archives[x] \in ArchiveType

\* brain_db.rs restore_agent_slice: every agent but the archive's keeps its
\* memories, whatever was renamed, deleted or re-created since the export.
RestoreTouchesOneSlice ==
  [][\A x \in AlfIds, ws \in Aliases, mode \in Modes :
       import(x, ws, mode) =>
         \A k \in DOMAIN brain :
           brain[k].alias # archives[x].alias =>
             {s \in slices' : s.owner = brain[k].id} = SliceOf(brain[k].id)]_vars

\* A workspace without a row whose pin is the identity of some row.
Doubled(r) ==
  LET found == discover_agents(r)
  IN  \E k \in DOMAIN found :
        /\ RowsOf(rows, agents_for_runtime(rows, r), found)[k] = 0
        /\ pins[found[k].ws] \in IdsOf(rows)

\* The mapping and the pins an undisturbed discovery leaves.
Discovered(cfg, pn, r) ==
  LET out == reconcile(cfg, pn, r)
  IN  <<apply_reconcile(cfg, out), write_missing_agent_id_files(pn, out)>>

\* Discovery is idempotent: two undisturbed runs leave nothing to write,
\* however stale the outcomes persisted before them were.  (Two: a sole row
\* adopted by a recreated agent hides that agent from the first.)  A pin that
\* is doubled, as after a rename that leaves the old workspace behind, is
\* outside: upsert_agent then moves the one row to and fro between its claimants.
DiscoverySettles ==
  (\A p \in Procs : Idle(p)) => \A r \in Runtimes :
    LET once  == Discovered(rows, pins, r)
        twice == Discovered(once[1], once[2], r)
    IN  Doubled(r) \/ ~Dirty(twice[1], twice[2], r)

\* The two ways of matching agree: once a discovery has nothing to write, a
\* command that selects a row works on the agent discovery matched to it.
SelectionFollowsDiscovery ==
  LET mine  == agents_for_runtime(rows, "zeroclaw")
      found == discover_agents("zeroclaw")
      match == RowsOf(rows, mine, found)
  IN  (\A p \in Procs : Idle(p)) /\ ~Dirty(rows, pins, "zeroclaw")
        => \A k \in DOMAIN found :
             match[k] # 0 /\ ~Drifts(rows[match[k]], found[k], pins)
               => to_selected(rows[match[k]]) = found[k]

\* discovery.rs:39-42: no discovery replaces the row of another runtime.
ForeignRowsSurvive ==
  [][\A k \in DOMAIN rows :
       rows[k].runtime # None => \E j \in DOMAIN rows' :
         rows'[j].alf = rows[k].alf /\ rows'[j].runtime = rows[k].runtime]_vars

=============================================================================
