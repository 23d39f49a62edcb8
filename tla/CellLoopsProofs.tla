-------------------------- MODULE CellLoopsProofs ---------------------------
(***************************************************************************)
(* The invariants of CellLoops, one loop after the other, for any graphs,  *)
(* frontiers, calls, commands and answers of the model server within the   *)
(* assumptions of the module.  A loop does not change its graph, so each   *)
(* has an invariant of its own: what holds of its local variables at every *)
(* turn.                                                                   *)
(***************************************************************************)
EXTENDS CellLoops, CellGraphProofs

-----------------------------------------------------------------------------
(***************************************************************************)
(* walk_cells.                                                             *)
(***************************************************************************)

\* The acceptable cells are the least set that holds each cell that passes and
\* whose prerequisites it holds.
LEMMA AcceptableHolds ==
  ASSUME cells \in Seq(ToSet(cells)), pass \in SUBSET DOMAIN cells
  PROVE  LeastSettled(cells, pass, Acceptable)
<1> DEFINE h == CHOOSE g : Climbs(cells, pass, g)
<1>1. Len(cells) \in Nat
  OBVIOUS
<1>2. \E g : Climbs(cells, pass, g)
  BY <1>1, ClimbExists
<1>3. Climbs(cells, pass, h)
  BY <1>2, Zenon
<1>4. Acceptable = h[Len(cells)]
  BY Zenon DEF Acceptable, Climbs, Settling, IdsOf
<1> HIDE DEF h
<1>. QED BY <1>3, <1>4, ClimbEnds DEF LeastSettled

-----------------------------------------------------------------------------
\* A walk on its way: it is well typed, and every settled cell has its outcome.
WalkInv ==
  loop = "walk" =>
    /\ cells \in Seq(ToSet(cells))
    /\ pass \in SUBSET DOMAIN cells
    /\ WalkTyped(cells, local)
    /\ DistinctIds => WalkExact(cells, pass, Acceptable, local)

\* The walk's invariant, at the start.
LEMMA WalkStarts == Init => WalkInv
<1>. SUFFICES ASSUME Init, loop = "walk" PROVE WalkInv
  BY DEF WalkInv
<1>1. cells \in Graphs /\ pass \in SUBSET DOMAIN cells /\ local = WalkStart(cells)
  BY DEF Init
<1>2. cells \in Seq(ToSet(cells))
  BY <1>1, GraphsAssumption
<1>3. WalkTyped(cells, local) /\ WalkExact(cells, pass, Acceptable, local)
  BY <1>1, <1>2, WalkStartTyped, WalkStartExact
<1>. QED BY <1>1, <1>2, <1>3 DEF WalkInv

\* The walk's invariant, at every step.
LEMMA WalkKeeps == WalkInv /\ [Next]_vars => WalkInv'
<1>. SUFFICES ASSUME WalkInv, [Next]_vars, loop' = "walk" PROVE WalkInv'
  BY DEF WalkInv
<1>1. UNCHANGED <<cells, loop, pass>>
  BY DEF vars, Next, WalkTurn, TopoTurn, WorkTurn, BatchTurn, PipeTurn, CommandTurn, RecordedTurn,
         ForeignTurn, Happened
<1>2. /\ loop = "walk"
      /\ cells \in Seq(ToSet(cells)) /\ pass \in SUBSET DOMAIN cells
      /\ WalkTyped(cells, local)
      /\ DistinctIds => WalkExact(cells, pass, Acceptable, local)
  BY <1>1 DEF WalkInv
<1>3. local' = local \/ local' = WalkStep(cells, pass, local)
  BY <1>2 DEF vars, Next, WalkTurn, TopoTurn, WorkTurn, BatchTurn, PipeTurn, CommandTurn, RecordedTurn,
              ForeignTurn
<1>4. LeastSettled(cells, pass, Acceptable)
  BY <1>2, AcceptableHolds
<1>5. WalkTyped(cells, local')
  BY <1>2, <1>3, WalkStepTyped
<1>6. DistinctIds => WalkExact(cells, pass, Acceptable, local')
  BY <1>2, <1>3, <1>4, WalkStepExact DEF DistinctIds, Distinct
<1>7. DistinctIds' = DistinctIds /\ Acceptable' = Acceptable
  BY <1>1 DEF DistinctIds, Acceptable
<1>. QED BY <1>1, <1>2, <1>5, <1>6, <1>7 DEF WalkInv

\* walk_cells (execution/src/lib.rs), on every graph with distinct ids, cyclic ones
\* too, and every set of cells a gate passes: the walk ends with one result for
\* each cell, the accepted ones are those the gate can accept, and a cell is
\* skipped exactly when one it requires was not accepted.
THEOREM WalkIsExactProved == Spec => []WalkIsExact
<1>1. WalkInv => WalkIsExact
  <2>. SUFFICES ASSUME WalkInv, WalkDone, DistinctIds
                PROVE  WalkIsExact
    BY DEF WalkIsExact
  <2>1. /\ cells \in Seq(ToSet(cells)) /\ pass \in SUBSET DOMAIN cells
        /\ WalkTyped(cells, local) /\ WalkExact(cells, pass, Acceptable, local)
        /\ local.remaining = {}
    BY DEF WalkInv, WalkDone
  <2>2. LeastSettled(cells, pass, Acceptable) /\ Distinct(cells)
    BY <2>1, AcceptableHolds DEF DistinctIds, Distinct
  <2>3. Ids = IdsOf(cells, DOMAIN cells) /\ {cells[i].id : i \in Acceptable} = IdsOf(cells, Acceptable)
    BY DEF Ids, IdsOf
  <2>4. /\ Len(local.results) = Len(cells)
        /\ {local.results[k].cell : k \in DOMAIN local.results} = IdsOf(cells, DOMAIN cells)
        /\ IdsOf(cells, Acceptable)
             = {local.results[k].cell : k \in {n \in DOMAIN local.results : local.results[n].verdict = "accepted"}}
        /\ \A i \in DOMAIN cells : \A k \in DOMAIN local.results : local.results[k].cell = cells[i].id =>
             (local.results[k].verdict = "skipped" <=> ~ Prerequisites(cells[i]) \subseteq IdsOf(cells, Acceptable))
    BY <2>1, <2>2, WalkEnds
  <2>. QED BY <2>3, <2>4, Zenon DEF WalkIsExact
<1>. QED BY <1>1, WalkStarts, WalkKeeps, PTL DEF Spec

-----------------------------------------------------------------------------
(***************************************************************************)
(* topo_order.                                                             *)
(***************************************************************************)

\* The graphs of a loop are graphs in the sense of CellGraphProofs.
LEMMA GraphsAreGraphs == \A g \in Graphs \cup WorkGraphs : IsGraph(g)
BY GraphsAssumption DEF IsGraph, IdsOf, CellIds

\* Exact is the invariants' condition of distinct ids and edges.
LEMMA ExactIs == Exact(cells) <=> DistinctIds /\ NoRepeats
BY DEF Exact, Distinct, DistinctIds, NoRepeats

\* The cells that no cycle blocks are the least set that holds each cell whose
\* prerequisites it holds.
LEMMA GroundedHolds ==
  ASSUME cells \in Seq(ToSet(cells))
  PROVE  LeastSettled(cells, DOMAIN cells, Grounded)
<1> DEFINE h == CHOOSE g : Climbs(cells, DOMAIN cells, g)
<1>1. Len(cells) \in Nat
  OBVIOUS
<1>2. \E g : Climbs(cells, DOMAIN cells, g)
  BY <1>1, ClimbExists
<1>3. Climbs(cells, DOMAIN cells, h)
  BY <1>2, Zenon
<1>4. Grounded = h[Len(cells)]
  BY Zenon DEF Grounded, Climbs, Settling, IdsOf
<1> HIDE DEF h
<1>. QED BY <1>3, <1>4, ClimbEnds DEF LeastSettled

TopoInv ==
  loop = "topo" =>
    /\ IsGraph(cells)
    /\ TopoTyped(cells, local)
    /\ Exact(cells) => Sorted(cells, local.queue)

\* The sort's invariant, at the start.
LEMMA TopoStarts == Init => TopoInv
<1>. SUFFICES ASSUME Init, loop = "topo" PROVE TopoInv
  BY DEF TopoInv
<1>1. IsGraph(cells) /\ local = TopoStart(cells)
  BY GraphsAreGraphs DEF Init
<1>2. TopoTyped(cells, local)
  BY <1>1, TopoStartTyped
<1>3. Exact(cells) => Sorted(cells, local.queue)
  BY <1>1, TopoStartSorted
<1>. QED BY <1>1, <1>2, <1>3 DEF TopoInv

\* The sort's invariant, at every step.
LEMMA TopoKeeps == TopoInv /\ [Next]_vars => TopoInv'
<1>. SUFFICES ASSUME TopoInv, [Next]_vars, loop' = "topo" PROVE TopoInv'
  BY DEF TopoInv
<1>1. UNCHANGED <<cells, loop, pass>>
  BY DEF vars, Next, WalkTurn, TopoTurn, WorkTurn, BatchTurn, PipeTurn, CommandTurn, RecordedTurn,
         ForeignTurn, Happened
<1>2. IsGraph(cells) /\ TopoTyped(cells, local) /\ (Exact(cells) => Sorted(cells, local.queue))
  BY <1>1 DEF TopoInv
<1>3. local' = local \/ (local.qi < Len(local.queue) /\ local' = TopoStep(cells, local))
  BY <1>1 DEF vars, Next, WalkTurn, TopoTurn, WorkTurn, BatchTurn, PipeTurn, CommandTurn, RecordedTurn,
              ForeignTurn
<1>4. TopoTyped(cells, local')
  BY <1>2, <1>3, TopoStepTyped
<1>5. Exact(cells) => Sorted(cells, local'.queue)
  BY <1>2, <1>3, TopoStepSorted
<1>. QED BY <1>1, <1>2, <1>4, <1>5 DEF TopoInv

\* topo_order (executor/src/lib.rs): the unsigned in-degree counters never go below
\* zero, on any graph, its ids and edges repeated or not: the popped cells that
\* name a cell are never more than the edges counted for it.
THEOREM NoUnderflowProved == Spec => []NoUnderflow
<1>1. TopoInv => NoUnderflow
  <2>. SUFFICES ASSUME TopoInv, loop = "topo", NEW j \in DOMAIN cells
                PROVE  local.indeg[j] \in 0 .. Len(cells[j].requires)
    BY DEF NoUnderflow
  <2> DEFINE P == Popped(local) \cap Feeds(cells, j)
  <2>1. IsGraph(cells) /\ TopoTyped(cells, local)
    BY DEF TopoInv
  <2>2. local.indeg[j] + Cardinality(P) = Len(cells[j].requires) /\ local.indeg[j] \in Nat
    BY <2>1 DEF TopoTyped
  <2>3. Cardinality(P) \in Nat
    BY <2>1, FeedsAreFew, FS_Subset, FS_CardinalityType
  <2>4. Len(cells[j].requires) \in Nat
    BY <2>1, InDegreeIs
  <2>. QED BY <2>2, <2>3, <2>4
<1>. QED BY <1>1, TopoStarts, TopoKeeps, PTL DEF Spec

\* topo_order (executor/src/lib.rs): the order it returns has every cell once, and
\* without repeated ids or edges the part of it that came off the queue is
\* exactly the cells no cycle blocks, each after its prerequisites.
THEOREM TopoOrdersProved == Spec => []TopoOrdersCells
<1>1. TopoInv => TopoOrdersCells
  <2>. SUFFICES ASSUME TopoInv, TopoDone, NEW order, order = TopoEnd(cells, local)
                PROVE  /\ Len(order) = Len(cells) /\ ToSet(order) = DOMAIN cells
                       /\ DistinctIds /\ NoRepeats => ToSet(local.queue) = Grounded /\ InOrder(local.queue)
    BY DEF TopoOrdersCells
  <2>1. /\ IsGraph(cells) /\ TopoTyped(cells, local) /\ local.qi = Len(local.queue)
        /\ Exact(cells) => Sorted(cells, local.queue)
    BY DEF TopoInv, TopoDone
  <2>2. Len(order) = Len(cells) /\ ToSet(order) = DOMAIN cells
    BY <2>1, TopoEndIs
  <2>3. Exact(cells) => ToSet(local.queue) = Grounded
    BY <2>1, GroundedHolds, TopoEnds DEF IsGraph
  <2>4. Exact(cells) => InOrder(local.queue)
    BY <2>1 DEF InOrder, Sorted
  <2>. QED BY <2>2, <2>3, <2>4, ExactIs
<1>. QED BY <1>1, TopoStarts, TopoKeeps, PTL DEF Spec

-----------------------------------------------------------------------------
(***************************************************************************)
(* The worker loop of the production drain.                                *)
(***************************************************************************)

\* What a map's insert returns.
LEMMA PutIs ==
  ASSUME NEW key, NEW x, NEW f, NEW g, g = Insert(f, key, x)
  PROVE  /\ DOMAIN g = {key} \cup DOMAIN f
         /\ g[key] = x
         /\ \A k \in DOMAIN f : k # key => g[k] = f[k]
BY DEF Insert

IsWork(w) ==
  w = [turn |-> w.turn, prompts |-> w.prompts, content |-> w.content, tree |-> w.tree, unwritten |-> w.unwritten]

\* One turn of the worker loop at position i: a call that fails leaves content
\* and tree alone, and one that is answered puts the answer in both.
LEMMA WorkStepIs ==
  ASSUME NEW g, NEW response, NEW writes \in BOOLEAN, NEW w, IsWork(w), NEW i, i = TopoOrder(g)[w.turn + 1],
         NEW v, v = WorkStep(g, response, writes, w)
  PROVE  /\ IsWork(v) /\ v.turn = w.turn + 1
         /\ v.prompts = [w.prompts EXCEPT ![i] = Quoted(g[i], w.content)]
         /\ \/ v.content = w.content /\ v.tree = w.tree /\ v.unwritten = w.unwritten
            \/ \E a : /\ a[1] = i
                      /\ v.content = Insert(w.content, g[i].id, a)
                      /\ v.tree = IF writes THEN Insert(w.tree, OutputPath(g[i]), a) ELSE w.tree
                      /\ v.unwritten = (w.unwritten \/ ~ writes)
<1> DEFINE raw == Invoke(response)
           a == <<i, StripCodeFences(raw)>>
           q == [w EXCEPT !.turn = @ + 1, !.prompts[i] = Quoted(g[i], w.content)]
<1>1. /\ IsWork(q) /\ q.turn = w.turn + 1 /\ q.prompts = [w.prompts EXCEPT ![i] = Quoted(g[i], w.content)]
      /\ q.content = w.content /\ q.tree = w.tree /\ q.unwritten = w.unwritten
  <2> DEFINE p == [w.prompts EXCEPT ![i] = Quoted(g[i], w.content)]
             n == w.turn + 1
  <2>1. q = [w EXCEPT !.turn = n, !.prompts = p]
    BY Zenon DEF IsWork
  <2> HIDE DEF p, n, q
  <2>2. IsWork(q) /\ q.turn = n /\ q.prompts = p /\ q.content = w.content /\ q.tree = w.tree /\ q.unwritten = w.unwritten
    BY <2>1 DEF IsWork
  <2>. QED BY <2>2 DEF p, n
<1>2. v = IF raw = "error" THEN q
          ELSE [q EXCEPT
                  !.content   = Insert(@, g[i].id, a),
                  !.tree      = IF writes THEN WriteFile(@, OutputPath(g[i]), a) ELSE @,
                  !.unwritten = @ \/ ~ writes]
  BY DEF WorkStep
<1> HIDE DEF q
<1>3. CASE raw = "error"
  BY <1>1, <1>2, <1>3
<1>4. CASE raw # "error"
  <2> DEFINE c == Insert(q.content, g[i].id, a)
             t == IF writes THEN WriteFile(q.tree, OutputPath(g[i]), a) ELSE q.tree
             u == q.unwritten \/ ~ writes
  <2>1. v = [q EXCEPT !.content = c, !.tree = t, !.unwritten = u]
    BY <1>2, <1>4
  <2>2. a[1] = i
    OBVIOUS
  <2>3. t = IF writes THEN Insert(w.tree, OutputPath(g[i]), a) ELSE w.tree
    BY <1>1 DEF WriteFile
  <2> HIDE DEF c, t, u
  <2>4. IsWork(v) /\ v.turn = q.turn /\ v.prompts = q.prompts /\ v.content = c /\ v.tree = t /\ v.unwritten = u
    BY <1>1, <2>1 DEF IsWork
  <2> HIDE DEF a
  <2>. QED BY <1>1, <2>2, <2>3, <2>4, Zenon DEF c, u
<1>. QED BY <1>3, <1>4

\* An artifact a cell does not require leaves its prompt alone.
LEMMA QuotedSame ==
  ASSUME NEW c, NEW key, key \notin Prerequisites(c), NEW a, NEW f, NEW g, g = Insert(f, key, a)
  PROVE  Quoted(c, g) = Quoted(c, f)
<1>1. /\ DOMAIN g = {key} \cup DOMAIN f
      /\ \A k \in DOMAIN f : k # key => g[k] = f[k]
  BY DEF Insert
<1>2. Prerequisites(c) \cap DOMAIN g = Prerequisites(c) \cap DOMAIN f
  BY <1>1
<1>3. \A d \in Prerequisites(c) \cap DOMAIN f : g[d] = f[d]
  BY <1>1
<1>. QED BY <1>2, <1>3 DEF Quoted

-----------------------------------------------------------------------------
DistinctPaths == \A i, j \in DOMAIN cells : OutputPath(cells[i]) = OutputPath(cells[j]) => i = j

\* What is kept for an id was produced for a cell of this id.
Made(w) ==
  \A id \in DOMAIN w.content : w.content[id][1] \in DOMAIN cells /\ cells[w.content[id][1]].id = id

\* And, when every write went through to a path of its own, is in its file.
Kept(w) ==
  DistinctPaths /\ ~ w.unwritten =>
    \A id \in DOMAIN w.content :
      LET path == OutputPath(cells[w.content[id][1]])
      IN  path \in DOMAIN w.tree /\ w.tree[path] = w.content[id]

\* The prompts of the cells that no cycle blocks quote what is kept now.
Prompted(w) ==
  Exact(cells) =>
    \A k \in 1 .. w.turn : TopoOrder(cells)[k] \in Grounded =>
      w.prompts[TopoOrder(cells)[k]] = Quoted(cells[TopoOrder(cells)[k]], w.content)

WorkInv(w) ==
  /\ IsWork(w) /\ w.turn \in 0 .. Len(cells) /\ w.unwritten \in BOOLEAN
  /\ DOMAIN w.prompts = DOMAIN cells
  /\ \A path \in DOMAIN w.tree : w.tree[path][1] \in DOMAIN cells
  /\ Made(w) /\ Kept(w) /\ Prompted(w)

\* The worker loop starts with nothing produced.
LEMMA WorkStartIs ==
  ASSUME IsGraph(cells), NEW w, w = WorkStart(cells)
  PROVE  WorkInv(w)
<1>1. /\ IsWork(w) /\ w.turn = 0 /\ w.unwritten = FALSE /\ DOMAIN w.prompts = DOMAIN cells
      /\ DOMAIN w.content = {} /\ DOMAIN w.tree = {}
  BY DEF WorkStart, IsWork
<1>2. w.turn \in 0 .. Len(cells)
  BY <1>1 DEF IsGraph
<1>3. Made(w) /\ Kept(w) /\ \A path \in DOMAIN w.tree : w.tree[path][1] \in DOMAIN cells
  BY <1>1 DEF Made, Kept
<1>4. Prompted(w)
  <2>1. 1 .. w.turn = {}
    BY <1>1
  <2>. QED BY <2>1 DEF Prompted
<1>. QED BY <1>1, <1>2, <1>3, <1>4 DEF WorkInv

\* A call of the worker, however it and its write end, keeps the invariant.
LEMMA WorkStepKeeps ==
  ASSUME IsGraph(cells), NEW w, WorkInv(w), w.turn < Len(cells), NEW response, NEW writes \in BOOLEAN,
         NEW v, v = WorkStep(cells, response, writes, w)
  PROVE  WorkInv(v)
<1>. SUFFICES ASSUME NEW order, order = TopoOrder(cells), NEW i, i = order[w.turn + 1] PROVE WorkInv(v)
  OBVIOUS
<1>1. /\ order \in Seq(DOMAIN cells) /\ IsInjective(order)
      /\ ToSet(order) = DOMAIN cells /\ Len(order) = Len(cells)
  BY TopoOrderIs
<1>2. Len(cells) \in Nat /\ DOMAIN cells = 1 .. Len(cells) /\ DOMAIN order = 1 .. Len(cells)
  BY <1>1 DEF IsGraph
<1>3. w.turn \in Nat /\ w.turn + 1 \in DOMAIN order /\ i \in DOMAIN cells
  BY <1>1, <1>2 DEF WorkInv
<1> DEFINE unanswered == v.content = w.content /\ v.tree = w.tree /\ v.unwritten = w.unwritten
           answered(a) == /\ a[1] = i
                          /\ v.content = Insert(w.content, cells[i].id, a)
                          /\ v.tree = IF writes THEN Insert(w.tree, OutputPath(cells[i]), a) ELSE w.tree
                          /\ v.unwritten = (w.unwritten \/ ~ writes)
<1>4. /\ IsWork(v) /\ v.turn = w.turn + 1
      /\ v.prompts = [w.prompts EXCEPT ![i] = Quoted(cells[i], w.content)]
      /\ unanswered \/ \E a : answered(a)
  BY WorkStepIs DEF WorkInv
<1>5. v.turn \in 0 .. Len(cells) /\ DOMAIN v.prompts = DOMAIN cells /\ v.unwritten \in BOOLEAN
  <2>1. v.turn \in 0 .. Len(cells)
    BY <1>2, <1>3, <1>4
  <2>2. DOMAIN v.prompts = DOMAIN cells
    BY <1>4 DEF WorkInv
  <2>3. v.unwritten \in BOOLEAN
    <3>1. w.unwritten \in BOOLEAN
      BY DEF WorkInv
    <3>2. CASE unanswered
      BY <3>1, <3>2
    <3>3. ASSUME NEW a, answered(a) PROVE v.unwritten \in BOOLEAN
      BY <3>1, <3>3
    <3>. QED BY <1>4, <3>2, <3>3
  <2>. QED BY <2>1, <2>2, <2>3
<1>6. /\ Made(v) /\ Kept(v) /\ \A path \in DOMAIN v.tree : v.tree[path][1] \in DOMAIN cells
  <2>1. CASE unanswered
    BY <2>1 DEF WorkInv, Made, Kept
  <2>2. ASSUME NEW a, answered(a) PROVE Made(v) /\ Kept(v) /\ \A path \in DOMAIN v.tree : v.tree[path][1] \in DOMAIN cells
    <3>1. /\ DOMAIN v.content = {cells[i].id} \cup DOMAIN w.content /\ v.content[cells[i].id] = a
          /\ \A id \in DOMAIN w.content : id # cells[i].id => v.content[id] = w.content[id]
      BY <2>2 DEF Insert
    <3>2. Made(v)
      BY <1>3, <2>2, <3>1 DEF WorkInv, Made
    <3>3. writes => /\ DOMAIN v.tree = {OutputPath(cells[i])} \cup DOMAIN w.tree /\ v.tree[OutputPath(cells[i])] = a
                    /\ \A path \in DOMAIN w.tree : path # OutputPath(cells[i]) => v.tree[path] = w.tree[path]
      BY <2>2 DEF Insert
    <3>4. \A path \in DOMAIN v.tree : v.tree[path][1] \in DOMAIN cells
      BY <1>3, <2>2, <3>3 DEF WorkInv
    <3>5. ASSUME DistinctPaths, ~ v.unwritten, NEW id \in DOMAIN v.content
          PROVE  /\ OutputPath(cells[v.content[id][1]]) \in DOMAIN v.tree
                 /\ v.tree[OutputPath(cells[v.content[id][1]])] = v.content[id]
      <4>1. writes /\ ~ w.unwritten
        BY <2>2, <3>5 DEF WorkInv
      <4>2. CASE id = cells[i].id
        BY <2>2, <3>1, <3>3, <4>1, <4>2
      <4>3. CASE id # cells[i].id
        <5> DEFINE j == w.content[id][1]
        <5>1. id \in DOMAIN w.content /\ v.content[id] = w.content[id]
          BY <3>1, <4>3
        <5>2. j \in DOMAIN cells /\ j # i
          BY <4>3, <5>1 DEF WorkInv, Made
        <5>3. OutputPath(cells[j]) \in DOMAIN w.tree /\ w.tree[OutputPath(cells[j])] = w.content[id]
          BY <3>5, <4>1, <5>1 DEF WorkInv, Kept
        <5>4. OutputPath(cells[j]) # OutputPath(cells[i])
          BY <1>3, <3>5, <5>2 DEF DistinctPaths
        <5>. QED BY <3>3, <4>1, <5>1, <5>3, <5>4
      <4>. QED BY <4>2, <4>3
    <3>6. Kept(v)
      BY <3>5 DEF Kept
    <3>. QED BY <3>2, <3>4, <3>6
  <2>. QED BY <1>4, <2>1, <2>2
<1>7. Prompted(v)
  <2>. SUFFICES ASSUME Exact(cells), NEW k \in 1 .. w.turn + 1, order[k] \in Grounded
                PROVE  v.prompts[order[k]] = Quoted(cells[order[k]], v.content)
    BY <1>4 DEF Prompted
  <2>1. k \in DOMAIN order /\ order[k] \in DOMAIN cells
    BY <1>1, <1>2, <1>3
  <2>2. cells[i].id \notin Prerequisites(cells[order[k]])
    <3>. SUFFICES ASSUME cells[i].id \in Prerequisites(cells[order[k]]) PROVE FALSE
      OBVIOUS
    <3>1. LeastSettled(cells, DOMAIN cells, Grounded)
      BY GroundedHolds DEF IsGraph
    <3>2. PICK l \in 1 .. k - 1 : cells[order[l]].id = cells[i].id
      <4>1. SortedOn(cells, order, Grounded)
        BY <3>1, TopoOrderIs
      <4>. QED BY <2>1, <4>1 DEF SortedOn
    <3>3. l \in DOMAIN order /\ l # w.turn + 1 /\ order[l] \in DOMAIN cells
      BY <1>1, <1>2, <1>3
    <3>4. order[l] = i
      BY <1>3, <3>2, <3>3 DEF Exact, Distinct
    <3>. QED BY <1>1, <1>3, <3>3, <3>4 DEF IsInjective
  <2>3. Quoted(cells[order[k]], v.content) = Quoted(cells[order[k]], w.content)
    <3>1. \A a : answered(a) => Quoted(cells[order[k]], v.content) = Quoted(cells[order[k]], w.content)
      BY <2>2, QuotedSame
    <3>. QED BY <1>4, <3>1
  <2>4. CASE k = w.turn + 1
    BY <1>3, <1>4, <2>3, <2>4 DEF WorkInv
  <2>5. CASE k # w.turn + 1
    <3>1. k \in 1 .. w.turn /\ order[k] # i
      BY <1>1, <1>3, <2>1, <2>5 DEF IsInjective
    <3>2. w.prompts[order[k]] = Quoted(cells[order[k]], w.content)
      BY <3>1 DEF WorkInv, Prompted
    <3>. QED BY <1>4, <2>1, <2>3, <3>1, <3>2 DEF WorkInv
  <2>. QED BY <2>4, <2>5
<1>. QED BY <1>4, <1>5, <1>6, <1>7 DEF WorkInv

WorksHold == loop = "work" => IsGraph(cells) /\ WorkInv(local)

\* The worker loop's invariant, at the start.
LEMMA WorkStarts == Init => WorksHold
BY GraphsAreGraphs, WorkStartIs DEF Init, WorksHold

\* The worker loop's invariant, at every step.
LEMMA WorkKeeps == WorksHold /\ [Next]_vars => WorksHold'
<1>. SUFFICES ASSUME WorksHold, [Next]_vars, loop' = "work" PROVE WorksHold'
  BY DEF WorksHold
<1>1. UNCHANGED <<cells, loop, pass>>
  BY DEF vars, Next, WalkTurn, TopoTurn, WorkTurn, BatchTurn, PipeTurn, CommandTurn, RecordedTurn,
         ForeignTurn, Happened
<1>2. IsGraph(cells) /\ WorkInv(local)
  BY <1>1 DEF WorksHold
<1>3. \/ local' = local
      \/ /\ local.turn < Len(cells)
         /\ \E response \in Responses, writes \in BOOLEAN : local' = WorkStep(cells, response, writes, local)
  BY <1>1 DEF vars, Next, WalkTurn, TopoTurn, WorkTurn, BatchTurn, PipeTurn, CommandTurn, RecordedTurn,
              ForeignTurn
<1>4. WorkInv(local')
  BY <1>2, <1>3, WorkStepKeeps
<1>5. WorkInv(local)' = WorkInv(local')
  BY <1>1 DEF WorkInv, Made, Kept, Prompted, DistinctPaths, Grounded
<1>. QED BY <1>1, <1>2, <1>4, <1>5 DEF WorksHold

\* The production drain's step 4 (executor/src/lib.rs): however the calls to the
\* worker and the writes to the tree fail, a unit passes only with the answer each
\* cell got, and with that answer in the tree where paths are distinct and no
\* write failed.
THEOREM PassedIsWholeProved == Spec => []PassedIsWhole
<1>1. WorksHold => PassedIsWhole
  <2> DEFINE w == local
             Whole(i) == /\ cells[i].id \in DOMAIN w.content /\ w.content[cells[i].id][1] = i
                         /\ DistinctPaths /\ ~ w.unwritten =>
                              OutputPath(cells[i]) \in DOMAIN w.tree /\ w.tree[OutputPath(cells[i])] = w.content[cells[i].id]
  <2>. SUFFICES ASSUME WorksHold, WorkPassed, NEW i \in DOMAIN cells PROVE Whole(i)
    BY DEF PassedIsWhole, DistinctPaths
  <2>1. IsGraph(cells) /\ WorkInv(w) /\ Cardinality(DOMAIN w.content) = Len(cells)
    BY DEF WorksHold, WorkPassed, WorkDone, Passed
  <2>2. IsFiniteSet(DOMAIN cells) /\ Cardinality(DOMAIN cells) = Len(cells) /\ Len(cells) \in Nat
    BY <2>1, CellsAre DEF IsGraph
  <2> DEFINE f == [n \in DOMAIN cells |-> cells[n].id]
             C == IdsOf(cells, DOMAIN cells)
  <2>3. f \in Surjection(DOMAIN cells, C)
    BY DEF Surjection, IdsOf
  <2>4. DOMAIN w.content \in SUBSET C
    BY <2>1 DEF WorkInv, Made, IdsOf
  <2> HIDE DEF C, f
  <2>5. /\ IsFiniteSet(C) /\ Cardinality(C) \in Nat /\ Cardinality(C) <= Cardinality(DOMAIN cells)
        /\ (Cardinality(C) = Cardinality(DOMAIN cells) => f \in Injection(DOMAIN cells, C))
    BY <2>2, <2>3, FS_Surjection, FS_CardinalityType
  <2>6. /\ Cardinality(DOMAIN w.content) <= Cardinality(C)
        /\ (Cardinality(C) = Cardinality(DOMAIN w.content) => C = DOMAIN w.content)
    BY <2>4, <2>5, FS_Subset
  <2>7. Cardinality(C) = Len(cells) /\ C = DOMAIN w.content /\ f \in Injection(DOMAIN cells, C)
    BY <2>1, <2>2, <2>5, <2>6
  <2>8. cells[i].id \in DOMAIN w.content
    BY <2>7 DEF C, IdsOf
  <2>9. w.content[cells[i].id][1] = i
    <3>1. w.content[cells[i].id][1] \in DOMAIN cells /\ cells[w.content[cells[i].id][1]].id = cells[i].id
      BY <2>1, <2>8 DEF WorkInv, Made
    <3>2. \A a, b \in DOMAIN cells : cells[a].id = cells[b].id => a = b
      BY <2>7 DEF f, Injection, IsInjective
    <3>. QED BY <3>1, <3>2
  <2>. QED BY <2>1, <2>8, <2>9 DEF WorkInv, Kept
<1>. QED BY <1>1, WorkStarts, WorkKeeps, PTL DEF Spec

\* The production drain's step 3 (executor/src/lib.rs): the prompt of a cell that no
\* cycle blocks quotes the artifacts of exactly its prerequisites that were
\* answered, because the order of the loop is topo_order's.
THEOREM PromptsQuoteProved == Spec => []PromptsQuotePrerequisites
<1>1. WorksHold => PromptsQuotePrerequisites
  <2>. SUFFICES ASSUME WorksHold, WorkDone, DistinctIds, NoRepeats, NEW i \in Grounded
                PROVE  local.prompts[i] = Quoted(cells[i], local.content)
    BY DEF PromptsQuotePrerequisites, Quoted
  <2>1. IsGraph(cells) /\ WorkInv(local) /\ local.turn = Len(cells) /\ Exact(cells)
    BY ExactIs DEF WorksHold, WorkDone
  <2>2. i \in DOMAIN cells
    BY <2>1, GroundedHolds DEF IsGraph, LeastSettled
  <2> DEFINE order == TopoOrder(cells)
  <2>3. order \in Seq(DOMAIN cells) /\ ToSet(order) = DOMAIN cells /\ Len(order) = Len(cells)
    BY <2>1, TopoOrderIs
  <2>4. PICK k \in 1 .. Len(cells) : order[k] = i
    BY <2>2, <2>3 DEF ToSet
  <2>. QED BY <2>1, <2>4 DEF WorkInv, Prompted
<1>. QED BY <1>1, WorkStarts, WorkKeeps, PTL DEF Spec

-----------------------------------------------------------------------------
(***************************************************************************)
(* schedule_batches.                                                       *)
(***************************************************************************)

\* A set has one ascending sequence.
LEMMA AscentsAgree ==
  ASSUME NEW N \in Nat, NEW s \in Seq(1 .. N), NEW r \in Seq(1 .. N), ToSet(s) = ToSet(r), Len(s) = Len(r),
         \A i, j \in DOMAIN s : i < j => s[i] < s[j],
         \A i, j \in DOMAIN r : i < j => r[i] < r[j]
  PROVE  s = r
<1> DEFINE B == {k \in Nat : k \in 1 .. Len(s) /\ s[k] # r[k]}
<1>1. Len(s) \in Nat /\ DOMAIN s = 1 .. Len(s) /\ DOMAIN r = 1 .. Len(s)
  OBVIOUS
<1>0. ASSUME B = {} PROVE s = r
  <2>1. \A k \in 1 .. Len(s) : s[k] = r[k]
    BY <1>0, <1>1
  <2>2. s = [k \in 1 .. Len(s) |-> s[k]] /\ r = [k \in 1 .. Len(s) |-> r[k]]
    BY <1>1
  <2>. QED BY <2>1, <2>2
<1>. SUFFICES ASSUME B # {} PROVE FALSE
  BY <1>0
<1>2. PICK m \in B : \A k \in B : m <= k
  <2>1. B \in SUBSET Nat
    OBVIOUS
  <2> HIDE DEF B
  <2>. QED BY <2>1, LeastNumber
<1>3. m \in 1 .. Len(s) /\ s[m] # r[m] /\ s[m] \in Nat /\ r[m] \in Nat
  BY <1>1
<1>4. \A k \in 1 .. Len(s) : k < m => s[k] = r[k]
  BY <1>2, <1>3
<1>5. ASSUME NEW x \in Seq(1 .. N), NEW y \in Seq(1 .. N), ToSet(x) = ToSet(y), DOMAIN x = 1 .. Len(s), DOMAIN y = 1 .. Len(s),
             \A i, j \in DOMAIN x : i < j => x[i] < x[j],
             \A i, j \in DOMAIN y : i < j => y[i] < y[j],
             \A k \in 1 .. Len(s) : k < m => x[k] = y[k],
             x[m] < y[m]
      PROVE  FALSE
  <2>0. /\ m \in Nat /\ Len(s) \in Nat
        /\ \A k \in 1 .. Len(s) : k \in Nat /\ x[k] \in Nat /\ y[k] \in Nat
    <3>1. \A k \in 1 .. Len(s) : x[k] \in 1 .. N /\ y[k] \in 1 .. N
      <4>1. \A k \in DOMAIN x : x[k] \in 1 .. N
        OBVIOUS
      <4>2. \A k \in DOMAIN y : y[k] \in 1 .. N
        OBVIOUS
      <4>. QED BY <1>5, <4>1, <4>2
    <3>. QED BY <1>1, <1>3, <3>1
  <2>1. x[m] \in ToSet(y)
    BY <1>3, <1>5 DEF ToSet
  <2>2. PICK l \in 1 .. Len(s) : y[l] = x[m]
    BY <1>5, <2>1 DEF ToSet
  <2>3. l < m
    <3>1. x[m] \in Nat /\ y[m] \in Nat /\ y[l] = x[m] /\ x[m] < y[m]
      BY <1>3, <1>5, <2>0, <2>2
    <3>2. ~ (m < l)
      <4>. SUFFICES ASSUME m < l PROVE FALSE
        OBVIOUS
      <4>1. y[m] < x[m]
        <5>1. y[m] < y[l]
          BY <1>3, <1>5
        <5>. QED BY <3>1, <5>1, Zenon
      <4>2. \A a, b \in Nat : ~ (a < b /\ b < a)
        OBVIOUS
      <4>. QED BY <3>1, <4>1, <4>2, Zenon
    <3>3. l # m
      BY <3>1
    <3>. QED BY <2>0, <3>2, <3>3
  <2>4. x[l] < x[m] /\ x[l] = y[l] /\ x[m] \in Nat
    <3>1. x[l] < x[m]
      BY <1>3, <1>5, <2>3
    <3>2. x[l] = y[l]
      BY <1>5, <2>3
    <3>. QED BY <1>3, <2>0, <3>1, <3>2
  <2>5. x[l] = x[m] /\ x[l] < x[m] /\ x[m] \in Nat
    BY <2>2, <2>4, Zenon
  <2>. QED BY <2>5
<1>6. s[m] < r[m] \/ r[m] < s[m]
  BY <1>3
<1>. QED BY <1>1, <1>4, <1>5, <1>6

\* A sequence of numbers that ascends is the one of its elements in their order.
LEMMA AscendingOf ==
  ASSUME NEW N \in Nat, NEW s \in Seq(1 .. N), \A i, j \in DOMAIN s : i < j => s[i] < s[j]
  PROVE  s = Ascending(ToSet(s))
<1> DEFINE r == Ascending(ToSet(s))
<1>1. ToSet(s) \in SUBSET (1 .. N)
  BY DEF ToSet
<1>2. IsInjective(s)
  <2>. SUFFICES ASSUME NEW i \in DOMAIN s, NEW j \in DOMAIN s, s[i] = s[j] PROVE i = j
    BY DEF IsInjective
  <2>1. i \in Nat /\ j \in Nat /\ s[i] \in Nat /\ ~ (i < j) /\ ~ (j < i)
    OBVIOUS
  <2>. QED BY <2>1
<1>3. Cardinality(ToSet(s)) = Len(s)
  BY <1>2, InjectiveLength
<1>4. /\ r \in Seq(ToSet(s)) /\ Len(r) = Cardinality(ToSet(s)) /\ ToSet(r) = ToSet(s)
      /\ \A i, j \in DOMAIN r : i < j => r[i] < r[j]
  BY <1>1, AscendingIs
<1> HIDE DEF r
<1>5. r \in Seq(1 .. N)
  <2>1. r \in [1 .. Len(r) -> 1 .. N] /\ Len(r) \in Nat
    BY <1>1, <1>4
  <2>. QED BY <2>1
<1>6. s = r
  BY <1>3, <1>4, <1>5, AscentsAgree
<1>. QED BY <1>6 DEF r

-----------------------------------------------------------------------------
Keyed(n, key) == {i \in 1 .. n : BatchKey(cells[i]) = key}

\* One batch, and the cells a batch may hold by now.
Fits(n, key, c) ==
  /\ c = [binding |-> c.binding, cells |-> c.cells]
  /\ BindingKey(c.binding) = key
  /\ c.cells \in Seq(1 .. n)
  /\ ToSet(c.cells) = Keyed(n, key)
  /\ \A i, j \in DOMAIN c.cells : i < j => c.cells[i] < c.cells[j]

\* The next ready cell fits at the end of the batch of its key.
LEMMA FitsAppend ==
  ASSUME NEW n \in Nat, NEW key, NEW c, Fits(n, key, c), BatchKey(cells[n + 1]) = key,
         NEW v, v = [c EXCEPT !.cells = Append(@, n + 1)]
  PROVE  Fits(n + 1, key, v) /\ v.cells # <<>>
<1> DEFINE s == c.cells
           r == v.cells
<1>1. v = [binding |-> v.binding, cells |-> v.cells] /\ v.binding = c.binding /\ r = Append(s, n + 1)
  BY DEF Fits
<1>2. s \in Seq(1 .. n) /\ Len(s) \in Nat /\ DOMAIN s = 1 .. Len(s) /\ \A i \in 1 .. Len(s) : s[i] \in 1 .. n
  BY DEF Fits
<1>3. s \in Seq(1 .. n + 1) /\ n + 1 \in 1 .. n + 1
  <2>1. s \in [1 .. Len(s) -> 1 .. n + 1]
    BY <1>2
  <2>. QED BY <1>2, <2>1
<1> HIDE DEF r, s
<1>4. /\ r \in Seq(1 .. n + 1) /\ r # <<>> /\ Len(r) = Len(s) + 1
      /\ \A i \in 1 .. Len(s) : r[i] = s[i]
      /\ r[Len(s) + 1] = n + 1
  BY <1>1, <1>3, AppendProperties
<1>5. DOMAIN r = 1 .. Len(s) + 1 /\ \A i : i \in 1 .. Len(s) + 1 <=> i \in 1 .. Len(s) \/ i = Len(s) + 1
  BY <1>2, <1>4
<1>6. ToSet(r) = ToSet(s) \cup {n + 1}
  <2>1. ToSet(r) = {r[i] : i \in 1 .. Len(s) + 1} /\ ToSet(s) = {s[i] : i \in 1 .. Len(s)}
    BY <1>2, <1>5 DEF ToSet
  <2>. QED BY <1>4, <1>5, <2>1
<1>7. Keyed(n + 1, key) = Keyed(n, key) \cup {n + 1}
  <2>1. \A i : i \in 1 .. n + 1 <=> i \in 1 .. n \/ i = n + 1
    OBVIOUS
  <2>. QED BY <2>1 DEF Keyed
<1>8. ASSUME NEW i \in DOMAIN r, NEW j \in DOMAIN r, i < j PROVE r[i] < r[j]
  <2>1. i \in 1 .. Len(s)
    BY <1>2, <1>5, <1>8
  <2>2. r[i] = s[i] /\ s[i] \in 1 .. n
    BY <1>2, <1>4, <2>1
  <2>3. CASE j \in 1 .. Len(s)
    <3>1. s[i] < s[j]
      BY <1>2, <1>8, <2>1, <2>3 DEF Fits, s
    <3>. QED BY <1>4, <2>2, <2>3, <3>1
  <2>4. CASE j = Len(s) + 1
    <3>1. r[j] = n + 1 /\ s[i] < n + 1
      BY <1>4, <2>2, <2>4
    <3>. QED BY <2>2, <3>1
  <2>. QED BY <1>5, <2>3, <2>4
<1>9. BindingKey(v.binding) = key /\ ToSet(s) = Keyed(n, key)
  BY <1>1 DEF Fits, s
<1>. QED BY <1>1, <1>4, <1>6, <1>7, <1>8, <1>9 DEF Fits, r

\* A batch that gets no cell in this turn.
LEMMA FitsLonger ==
  ASSUME NEW n \in Nat, NEW key, NEW c, Fits(n, key, c), BatchKey(cells[n + 1]) # key
  PROVE  Fits(n + 1, key, c)
<1> DEFINE s == c.cells
<1>1. s \in Seq(1 .. n) /\ Len(s) \in Nat /\ DOMAIN s = 1 .. Len(s) /\ \A i \in 1 .. Len(s) : s[i] \in 1 .. n
  BY DEF Fits
<1>2. s \in Seq(1 .. n + 1)
  <2>1. s \in [1 .. Len(s) -> 1 .. n + 1]
    BY <1>1
  <2>. QED BY <1>1, <2>1
<1>3. Keyed(n + 1, key) = Keyed(n, key)
  <2>1. \A i : i \in 1 .. n + 1 <=> i \in 1 .. n \/ i = n + 1
    OBVIOUS
  <2>. QED BY <2>1 DEF Keyed
<1>. QED BY <1>2, <1>3 DEF Fits

\* Every cell grouped so far is in the batch of its key, and no batch is empty.
BatchInv(b) ==
  /\ b.next \in 0 .. Len(cells)
  /\ \A i \in 1 .. b.next : BatchKey(cells[i]) \in DOMAIN b.batches
  /\ \A key \in DOMAIN b.batches : Fits(b.next, key, b.batches[key]) /\ b.batches[key].cells # <<>>

\* A ready cell put in the batch of its key keeps the partition.
LEMMA BatchStepKeeps ==
  ASSUME cells \in Seq(ToSet(cells)), NEW b, BatchInv(b), b.next < Len(cells),
         NEW v, v = BatchStep(cells, b)
  PROVE  BatchInv(v)
<1> DEFINE n == b.next
           key == BatchKey(cells[n + 1])
           fresh == [binding |-> cells[n + 1].binding, cells |-> <<>>]
           old == IF key \in DOMAIN b.batches THEN b.batches[key] ELSE fresh
           new == [old EXCEPT !.cells = Append(@, n + 1)]
<1>1. n \in Nat /\ Len(cells) \in Nat /\ n + 1 \in 0 .. Len(cells)
  BY DEF BatchInv
<1>2. v.next = n + 1 /\ v.batches = Insert(b.batches, key, new)
  BY DEF BatchStep
<1>3. Fits(n, key, old)
  <2>1. CASE key \in DOMAIN b.batches
    BY <2>1 DEF BatchInv
  <2>2. CASE key \notin DOMAIN b.batches
    <3>1. Keyed(n, key) = {}
      BY <2>2 DEF Keyed, BatchInv
    <3>2. ToSet(<<>>) = {}
      BY DEF ToSet
    <3>3. Fits(n, key, fresh)
      BY <3>1, <3>2 DEF Fits, BatchKey
    <3>. QED BY <2>2, <3>3
  <2>. QED BY <2>1, <2>2
<1> HIDE DEF old
<1>4. Fits(n + 1, key, new) /\ new.cells # <<>>
  BY <1>1, <1>3, FitsAppend
<1> HIDE DEF new
<1>5. /\ DOMAIN v.batches = {key} \cup DOMAIN b.batches /\ v.batches[key] = new
      /\ \A k \in DOMAIN b.batches : k # key => v.batches[k] = b.batches[k]
  BY <1>2 DEF Insert
<1>6. ASSUME NEW k \in DOMAIN v.batches
      PROVE  Fits(v.next, k, v.batches[k]) /\ v.batches[k].cells # <<>>
  <2>1. CASE k = key
    BY <1>2, <1>4, <1>5, <2>1
  <2>2. CASE k # key
    <3>1. v.batches[k] = b.batches[k] /\ Fits(n, k, b.batches[k]) /\ b.batches[k].cells # <<>>
      BY <1>5, <2>2 DEF BatchInv
    <3>. QED BY <1>1, <1>2, <2>2, <3>1, FitsLonger
  <2>. QED BY <2>1, <2>2
<1>7. \A i \in 1 .. v.next : BatchKey(cells[i]) \in DOMAIN v.batches
  <2>1. \A i \in 1 .. v.next : i \in 1 .. n \/ i = n + 1
    BY <1>1, <1>2
  <2>2. \A i \in 1 .. n : BatchKey(cells[i]) \in DOMAIN b.batches
    BY DEF BatchInv
  <2>. QED BY <1>5, <2>1, <2>2
<1>. QED BY <1>1, <1>2, <1>6, <1>7 DEF BatchInv

BatchesHold == loop = "batch" => cells \in Seq(ToSet(cells)) /\ BatchInv(local)

\* The scheduler's invariant, at the start.
LEMMA BatchStarts == Init => BatchesHold
<1>. SUFFICES ASSUME Init, loop = "batch" PROVE cells \in Seq(ToSet(cells)) /\ BatchInv(local)
  BY DEF BatchesHold
<1>1. cells \in Seq(ToSet(cells)) /\ local = BatchStart
  BY FrontiersAssumption DEF Init
<1>2. local.next = 0 /\ DOMAIN local.batches = {}
  BY <1>1 DEF BatchStart
<1>3. 1 .. local.next = {} /\ local.next \in 0 .. Len(cells)
  BY <1>1, <1>2
<1>. QED BY <1>1, <1>2, <1>3 DEF BatchInv

\* The scheduler's invariant, at every step.
LEMMA BatchKeeps == BatchesHold /\ [Next]_vars => BatchesHold'
<1>. SUFFICES ASSUME BatchesHold, [Next]_vars, loop' = "batch" PROVE BatchesHold'
  BY DEF BatchesHold
<1>1. UNCHANGED <<cells, loop, pass>>
  BY DEF vars, Next, WalkTurn, TopoTurn, WorkTurn, BatchTurn, PipeTurn, CommandTurn, RecordedTurn,
         ForeignTurn, Happened
<1>2. cells \in Seq(ToSet(cells)) /\ BatchInv(local)
  BY <1>1 DEF BatchesHold
<1>3. local' = local \/ (local.next < Len(cells) /\ local' = BatchStep(cells, local))
  BY <1>1 DEF vars, Next, WalkTurn, TopoTurn, WorkTurn, BatchTurn, PipeTurn, CommandTurn, RecordedTurn,
              ForeignTurn
<1>4. BatchInv(local')
  BY <1>2, <1>3, BatchStepKeeps
<1>5. BatchInv(local)' = BatchInv(local')
  BY <1>1 DEF BatchInv, Fits, Keyed
<1>. QED BY <1>1, <1>2, <1>4, <1>5 DEF BatchesHold

\* schedule_batches (serving/src/lib.rs): the batches partition the ready cells,
\* and each holds cells of one binding in the order they became ready.
THEOREM BatchesPartitionProved == Spec => []BatchesPartition
<1>1. BatchesHold => BatchesPartition
  <2> DEFINE batch == local.batches
             N == Len(cells)
  <2>. SUFFICES ASSUME BatchesHold, BatchDone
                PROVE  /\ \A key \in DOMAIN batch :
                            /\ batch[key].cells # <<>>
                            /\ batch[key].cells = Ascending(ToSet(batch[key].cells))
                            /\ \A i \in ToSet(batch[key].cells) :
                                 BindingKey(cells[i].binding) = BindingKey(batch[key].binding)
                       /\ \A i \in DOMAIN cells :
                            \E key \in DOMAIN batch : \A other \in DOMAIN batch :
                              i \in ToSet(batch[other].cells) <=> other = key
    BY Zenon DEF BatchesPartition
  <2>1. /\ N \in Nat /\ DOMAIN cells = 1 .. N
        /\ \A i \in 1 .. N : BatchKey(cells[i]) \in DOMAIN batch
        /\ \A key \in DOMAIN batch : Fits(N, key, batch[key]) /\ batch[key].cells # <<>>
    BY DEF BatchesHold, BatchDone, BatchInv
  <2> HIDE DEF batch, N
  <2>2. ASSUME NEW key \in DOMAIN batch
        PROVE  /\ batch[key].cells # <<>>
               /\ batch[key].cells = Ascending(ToSet(batch[key].cells))
               /\ \A i \in ToSet(batch[key].cells) : BindingKey(cells[i].binding) = BindingKey(batch[key].binding)
    <3>1. /\ batch[key].cells \in Seq(1 .. N) /\ ToSet(batch[key].cells) = Keyed(N, key)
          /\ BindingKey(batch[key].binding) = key
          /\ \A i, j \in DOMAIN batch[key].cells : i < j => batch[key].cells[i] < batch[key].cells[j]
      BY <2>1 DEF Fits
    <3>2. batch[key].cells = Ascending(ToSet(batch[key].cells))
      BY <2>1, <3>1, AscendingOf
    <3>3. \A i \in Keyed(N, key) : BindingKey(cells[i].binding) = key
      BY DEF Keyed, BatchKey
    <3>. QED BY <2>1, <3>1, <3>2, <3>3
  <2>3. ASSUME NEW i \in DOMAIN cells
        PROVE  \E key \in DOMAIN batch : \A other \in DOMAIN batch : i \in ToSet(batch[other].cells) <=> other = key
    <3>1. \A other \in DOMAIN batch : i \in ToSet(batch[other].cells) <=> other = BatchKey(cells[i])
      BY <2>1 DEF Fits, Keyed
    <3>. QED BY <2>1, <3>1
  <2>. QED BY <2>2, <2>3
<1>. QED BY <1>1, BatchStarts, BatchKeeps, PTL DEF Spec

-----------------------------------------------------------------------------
(***************************************************************************)
(* A call of a worker command through its pipes.                           *)
(***************************************************************************)

CallType == [prompt : Nat, banner : Nat, echoes : BOOLEAN, reads : BOOLEAN, answer : Nat, fails : BOOLEAN]

PipeType ==
  [call : CallType, unsent : Nat, stdin : 0 .. Capacity, owed : Nat, answered : BOOLEAN,
   stdout : 0 .. Capacity, received : Nat, kiln : {"writing", "reading", "ok", "error"},
   command : {"running", "exited"}]

\* The blocks the command has read by now.
ReadBy(w) == w.call.prompt - w.unsent - w.stdin

\* No block is lost: each that the command has or had to write is written, read
\* by kiln, or still to come.  A command that reads answers at the end of the
\* prompt; it exits with nothing left to write.
PipeInv(w) ==
  /\ w \in PipeType
  /\ ReadBy(w) >= 0 /\ (~ w.call.reads => ReadBy(w) = 0)
  /\ w.received + w.stdout + w.owed
       = w.call.banner + (IF w.call.echoes THEN ReadBy(w) ELSE 0) + (IF w.answered THEN w.call.answer ELSE 0)
  /\ w.answered /\ w.call.reads => w.kiln # "writing" /\ w.stdin = 0
  /\ w.kiln = "writing" => w.received = 0
  /\ w.kiln \in {"reading", "ok"} => w.unsent = 0
  /\ w.command = "exited" => w.owed = 0 /\ w.answered
  /\ w.kiln = "ok" => w.command = "exited" /\ w.stdout = 0 /\ ~ w.call.fails
  /\ w.kiln = "error" => w.call.fails \/ ~ w.call.reads

\* A call starts with empty pipes.
LEMMA PipeStarts ==
  ASSUME NEW call \in CallType
  PROVE  PipeInv(PipeStart(call))
BY CapacityAssumption DEF PipeStart, PipeInv, PipeType, CallType, ReadBy

\* Every transfer accounts for each byte of the prompt and of the output.
LEMMA PipeKeeps ==
  ASSUME NEW w, PipeInv(w), NEW v \in PipeSteps(w)
  PROVE  PipeInv(v)
<1>. USE CapacityAssumption DEF PipeInv, PipeType, CallType, ReadBy, When
<1>1. CASE v \in KilnWrites(w)
  <2>1. /\ w.kiln = "writing" /\ w.unsent > 0 /\ w.stdin < Capacity /\ w.command = "running"
        /\ v = [w EXCEPT !.unsent = @ - 1, !.stdin = @ + 1]
    BY <1>1 DEF KilnWrites
  <2>4. w.unsent - 1 \in Nat /\ w.stdin + 1 \in 0 .. Capacity
    BY <2>1
  <2>2. v \in PipeType
    BY <2>1, <2>4
  <2>3. /\ v.unsent = w.unsent - 1 /\ v.stdin = w.stdin + 1
        /\ v.call = w.call /\ v.owed = w.owed /\ v.answered = w.answered /\ v.stdout = w.stdout /\ v.received = w.received /\ v.kiln = w.kiln /\ v.command = w.command
    BY <2>1
  <2>. QED BY <2>1, <2>2, <2>3
<1>2. CASE v \in KilnBreaks(w)
  BY <1>2 DEF KilnBreaks
<1>3. CASE v \in KilnCloses(w)
  BY <1>3 DEF KilnCloses
<1>4. CASE v \in KilnReads(w)
  <2>1. /\ w.kiln = "reading" /\ w.stdout > 0
        /\ v = [w EXCEPT !.stdout = @ - 1, !.received = @ + 1]
    BY <1>4 DEF KilnReads
  <2>4. w.stdout - 1 \in 0 .. Capacity /\ w.received + 1 \in Nat
    BY <2>1
  <2>2. v \in PipeType
    BY <2>1, <2>4
  <2>3. /\ v.stdout = w.stdout - 1 /\ v.received = w.received + 1
        /\ v.call = w.call /\ v.unsent = w.unsent /\ v.stdin = w.stdin /\ v.owed = w.owed /\ v.answered = w.answered /\ v.kiln = w.kiln /\ v.command = w.command
    BY <2>1
  <2>. QED BY <2>1, <2>2, <2>3
<1>5. CASE v \in KilnWaits(w)
  BY <1>5 DEF KilnWaits
<1>6. CASE v \in CommandReads(w)
  <2>1. /\ w.command = "running" /\ w.owed = 0 /\ w.call.reads /\ w.stdin > 0
        /\ v = [w EXCEPT !.stdin = @ - 1, !.owed = IF w.call.echoes THEN 1 ELSE 0]
    BY <1>6 DEF CommandReads
  <2>4. w.stdin - 1 \in 0 .. Capacity /\ (IF w.call.echoes THEN 1 ELSE 0) \in Nat
    BY <2>1
  <2>2. v \in PipeType
    BY <2>1, <2>4
  <2>3. /\ v.stdin = w.stdin - 1 /\ v.owed = IF w.call.echoes THEN 1 ELSE 0
        /\ v.call = w.call /\ v.unsent = w.unsent /\ v.answered = w.answered /\ v.stdout = w.stdout /\ v.received = w.received /\ v.kiln = w.kiln /\ v.command = w.command
    BY <2>1
  <2>. QED BY <2>1, <2>2, <2>3
<1>7. CASE v \in CommandAnswers(w)
  <2>1. /\ w.command = "running" /\ w.owed = 0 /\ ~ w.answered /\ (w.call.reads => w.kiln # "writing" /\ w.stdin = 0)
        /\ v = [w EXCEPT !.owed = w.call.answer, !.answered = TRUE]
    BY <1>7 DEF CommandAnswers, AtEnd
  <2>2. v \in PipeType
    BY <2>1
  <2>3. /\ v.owed = w.call.answer /\ v.answered = TRUE
        /\ v.call = w.call /\ v.unsent = w.unsent /\ v.stdin = w.stdin /\ v.stdout = w.stdout /\ v.received = w.received /\ v.kiln = w.kiln /\ v.command = w.command
    BY <2>1
  <2>. QED BY <2>1, <2>2, <2>3
<1>8. CASE v \in CommandWrites(w)
  <2>1. /\ w.command = "running" /\ w.owed > 0 /\ w.stdout < Capacity
        /\ v = [w EXCEPT !.owed = @ - 1, !.stdout = @ + 1]
    BY <1>8 DEF CommandWrites
  <2>4. w.owed - 1 \in Nat /\ w.stdout + 1 \in 0 .. Capacity
    BY <2>1
  <2>2. v \in PipeType
    BY <2>1, <2>4
  <2>3. /\ v.owed = w.owed - 1 /\ v.stdout = w.stdout + 1
        /\ v.call = w.call /\ v.unsent = w.unsent /\ v.stdin = w.stdin /\ v.answered = w.answered /\ v.received = w.received /\ v.kiln = w.kiln /\ v.command = w.command
    BY <2>1
  <2>. QED BY <2>1, <2>2, <2>3
<1>9. CASE v \in CommandExits(w)
  BY <1>9 DEF CommandExits
<1>. QED BY <1>1, <1>2, <1>3, <1>4, <1>5, <1>6, <1>7, <1>8, <1>9 DEF PipeSteps

\* A call that can do nothing more and has not returned has both pipes full.
LEMMA PipeStuck ==
  ASSUME NEW w, PipeInv(w), PipeSteps(w) = {}, w.kiln \notin {"ok", "error"}
  PROVE  w.call.prompt > Capacity /\ EarlyOutput(w.call) > Capacity
<1>. USE CapacityAssumption DEF PipeInv, PipeType, CallType, ReadBy
<1>1. /\ ~ (w.kiln = "writing" /\ w.unsent > 0 /\ w.stdin < Capacity /\ w.command = "running")
      /\ ~ (w.kiln = "writing" /\ w.unsent > 0 /\ w.command = "exited")
      /\ ~ (w.kiln = "writing" /\ w.unsent = 0)
      /\ ~ (w.kiln = "reading" /\ w.stdout > 0)
      /\ ~ (w.kiln = "reading" /\ w.stdout = 0 /\ w.command = "exited")
  BY DEF PipeSteps, When, KilnWrites, KilnBreaks, KilnCloses, KilnReads, KilnWaits
<1>2. /\ ~ (w.command = "running" /\ w.owed = 0 /\ w.call.reads /\ w.stdin > 0)
      /\ ~ (w.command = "running" /\ w.owed = 0 /\ ~ w.answered
              /\ (w.call.reads => w.kiln # "writing" /\ w.stdin = 0))
      /\ ~ (w.command = "running" /\ w.owed > 0 /\ w.stdout < Capacity)
      /\ ~ (w.command = "running" /\ w.owed = 0 /\ w.answered)
  BY DEF PipeSteps, When, CommandReads, CommandAnswers, CommandWrites, CommandExits, AtEnd
<1>3. w.kiln # "reading"
  <2>. SUFFICES ASSUME w.kiln = "reading" PROVE FALSE
    OBVIOUS
  <2>1. w.stdout = 0 /\ w.command = "running"
    BY <1>1
  <2>2. w.owed = 0
    BY <1>2, <2>1
  <2>3. w.call.reads => w.stdin = 0
    BY <1>2, <2>1, <2>2
  <2>. QED BY <1>2, <2>1, <2>2, <2>3
<1>4. w.kiln = "writing" /\ w.received = 0
  BY <1>3
<1>5. w.unsent > 0 /\ w.command = "running" /\ w.stdin = Capacity
  <2>1. w.unsent \in Nat /\ w.stdin \in 0 .. Capacity /\ w.command \in {"running", "exited"}
    OBVIOUS
  <2>. QED BY <1>1, <1>4, <2>1
<1>6. w.owed > 0
  <2>. SUFFICES ASSUME w.owed = 0 PROVE FALSE
    OBVIOUS
  <2>1. CASE w.call.reads
    BY <1>2, <1>5, <2>1
  <2>2. CASE ~ w.call.reads
    BY <1>2, <1>5, <2>2
  <2>. QED BY <2>1, <2>2
<1>7. w.stdout = Capacity
  <2>1. w.stdout \in 0 .. Capacity
    OBVIOUS
  <2>. QED BY <1>2, <1>5, <1>6, <2>1
<1>8. w.unsent + w.stdin <= w.call.prompt /\ w.call.prompt > Capacity
  BY <1>5
<1>9. Capacity < w.call.banner + (IF w.call.echoes THEN ReadBy(w) ELSE 0) + (IF w.answered THEN w.call.answer ELSE 0)
  BY <1>4, <1>6, <1>7
<1>. QED BY <1>4, <1>5, <1>8, <1>9 DEF EarlyOutput

\* What a call that has returned brought back.
LEMMA PipeReturns ==
  ASSUME NEW w, PipeInv(w)
  PROVE  /\ w.kiln = "ok" => w.received = Output(w.call) /\ ~ w.call.fails
         /\ w.kiln = "error" => w.call.fails \/ ~ w.call.reads
BY DEF PipeInv, PipeType, CallType, ReadBy, Output

PipesHold == loop = "pipe" => PipeInv(local)

\* A call's pipes keep their invariant at every step of the two processes.
LEMMA PipesStayWhole == (Init => PipesHold) /\ (PipesHold /\ [Next]_vars => PipesHold')
<1>1. Init => PipesHold
  BY PipeStarts, CallsAssumption DEF Init, PipesHold, CallType
<1>2. PipesHold /\ [Next]_vars => PipesHold'
  <2>. SUFFICES ASSUME PipesHold, [Next]_vars, loop' = "pipe" PROVE PipeInv(local)'
    BY DEF PipesHold
  <2>1. CASE PipeTurn
    BY <2>1, PipeKeeps DEF PipeTurn, PipesHold
  <2>2. CASE UNCHANGED vars
    BY <2>2 DEF vars, PipesHold, PipeInv, ReadBy
  <2>. QED BY <2>1, <2>2 DEF Next, WalkTurn, TopoTurn, WorkTurn, BatchTurn, CommandTurn, RecordedTurn, ForeignTurn, Happened
<1>. QED BY <1>1, <1>2

\* CommandWorker::invoke (serving/src/lib.rs) returns, whatever the lengths and the order of
\* the transfers, unless both directions are full: the prompt is longer than a
\* pipe holds, and so is what the command says before it has read it all.  When it
\* returns it has all of the command's output, and an error only when the command
\* failed or closed its stdin unread.
THEOREM CallReturnsProved == Spec => []CallReturns
<1>1. PipesHold => CallReturns
  BY PipeStuck, PipeReturns DEF PipesHold, CallReturns
<1>. QED BY <1>1, PipesStayWhole, PTL DEF Spec

-----------------------------------------------------------------------------
(***************************************************************************)
(* Deciders, their views, and the conformance runner that replays them.    *)
(***************************************************************************)

\* The run of a replay, one entry after the other.
Replays(which, given, s) ==
  s = [n \in 0 .. Len(given) |->
        IF n = 0 THEN Default(which) ELSE ReadOne(which, s[n - 1], given[n])]

\* The replay of a history exists: Replay chooses what there is.
LEMMA ReplaysExist ==
  ASSUME NEW which, NEW given, Len(given) \in Nat
  PROVE  \E s : Replays(which, given, s)
<1> DEFINE Turn(s, n) == IF n = 0 THEN Default(which) ELSE ReadOne(which, s[n - 1], given[n])
           Upto(N, s) == s = [n \in 0 .. N |-> s[n]] /\ \A n \in 0 .. N : s[n] = Turn(s, n)
           T == {N \in Nat : \E s : Upto(N, s)}
<1>1. 0 \in T
  <2> DEFINE s == [n \in 0 .. 0 |-> Default(which)]
  <2>1. Upto(0, s)
    OBVIOUS
  <2>. QED BY <2>1
<1>2. ASSUME NEW N \in T PROVE N + 1 \in T
  <2>1. PICK s : Upto(N, s)
    OBVIOUS
  <2> DEFINE r == [n \in 0 .. N + 1 |-> IF n = N + 1 THEN ReadOne(which, s[N], given[N + 1]) ELSE s[n]]
  <2>2. r = [n \in 0 .. N + 1 |-> r[n]]
    OBVIOUS
  <2>3. r[N + 1] = ReadOne(which, s[N], given[N + 1]) /\ \A n \in 0 .. N : r[n] = s[n]
    OBVIOUS
  <2> HIDE DEF r
  <2>4. ASSUME NEW n \in 0 .. N + 1 PROVE r[n] = Turn(r, n)
    <3>1. CASE n = N + 1
      <4>1. (N + 1) - 1 = N /\ N + 1 # 0 /\ N \in 0 .. N
        OBVIOUS
      <4>2. r[(N + 1) - 1] = s[N]
        BY <2>3, <4>1
      <4>. QED BY <2>3, <3>1, <4>1, <4>2
    <3>2. CASE n = 0
      <4>1. 0 \in 0 .. N /\ s[0] = Default(which)
        BY <2>1
      <4>. QED BY <2>3, <3>2, <4>1
    <3>3. CASE n \in 1 .. N
      <4>1. n \in 0 .. N /\ n - 1 \in 0 .. N /\ n # 0
        BY <3>3
      <4>2. r[n] = s[n] /\ r[n - 1] = s[n - 1]
        BY <2>3, <4>1
      <4>. QED BY <2>1, <4>1, <4>2
    <3>. QED BY <3>1, <3>2, <3>3
  <2>5. Upto(N + 1, r)
    BY <2>2, <2>4
  <2> HIDE DEF Upto
  <2>. QED BY <2>5
<1>3. T \in SUBSET Nat
  OBVIOUS
<1> HIDE DEF T
<1>4. Len(given) \in T
  BY <1>1, <1>2, <1>3, Induct
<1>5. PICK s : Upto(Len(given), s)
  BY <1>4 DEF T
<1> DEFINE r == [n \in 0 .. Len(given) |-> Turn(s, n)]
<1>6. r = [n \in 0 .. Len(given) |-> s[n]]
  BY <1>5
<1>7. Replays(which, given, s)
  <2>1. s = r
    BY <1>5, <1>6
  <2>. QED BY <2>1 DEF Replays
<1>. QED BY <1>7

\* The replays of a history and of a longer one agree on what they share.
LEMMA ReplaysAgree ==
  ASSUME NEW which, NEW given, Len(given) \in Nat, NEW more, Len(more) \in Nat, Len(given) <= Len(more),
         \A n \in 1 .. Len(given) : more[n] = given[n],
         NEW s, Replays(which, given, s), NEW r, Replays(which, more, r)
  PROVE  \A n \in 0 .. Len(given) : r[n] = s[n]
<1> DEFINE T == {n \in 0 .. Len(given) : r[n] = s[n]}
<1>1. \A n \in 0 .. Len(given) : s[n] = IF n = 0 THEN Default(which) ELSE ReadOne(which, s[n - 1], given[n])
  BY DEF Replays
<1>2. \A n \in 0 .. Len(more) : r[n] = IF n = 0 THEN Default(which) ELSE ReadOne(which, r[n - 1], more[n])
  BY DEF Replays
<1>3. 0 \in T
  BY <1>1, <1>2
<1>4. ASSUME NEW n \in 0 .. Len(given) - 1, n \in T PROVE n + 1 \in T
  <2>1. n + 1 \in 1 .. Len(given) /\ n + 1 \in 0 .. Len(given) /\ n + 1 \in 0 .. Len(more) /\ (n + 1) - 1 = n /\ n + 1 # 0
    OBVIOUS
  <2>2. s[n + 1] = ReadOne(which, s[n], given[n + 1])
    BY <1>1, <2>1
  <2>3. r[n + 1] = ReadOne(which, r[n], more[n + 1])
    BY <1>2, <2>1
  <2>4. r[n] = s[n] /\ more[n + 1] = given[n + 1]
    BY <1>4, <2>1
  <2>. QED BY <2>1, <2>2, <2>3, <2>4
<1> HIDE DEF T
<1>5. \A n \in 0 .. Len(given) : n \in T
  BY <1>3, <1>4, InductTo
<1>. QED BY <1>5 DEF T

\* A replay is the last state of its run.
LEMMA ReplayIsLast ==
  ASSUME NEW which, NEW given, Len(given) \in Nat
  PROVE  \E s : Replays(which, given, s) /\ Replay(which, given) = s[Len(given)]
<1>1. \E s : Replays(which, given, s)
  BY ReplaysExist
<1> DEFINE R == CHOOSE s : Replays(which, given, s)
<1>2. Replays(which, given, R)
  BY <1>1
<1>3. Replay(which, given) = R[Len(given)]
  BY Zenon DEF Replay, Replays
<1>. QED BY <1>2, <1>3

\* What appending to a history returns.
LEMMA AppendIs ==
  ASSUME NEW given, given \in Seq(ToSet(given)), NEW e
  PROVE  /\ Append(given, e) \in Seq(ToSet(Append(given, e)))
         /\ Len(Append(given, e)) = Len(given) + 1 /\ Len(given) \in Nat
         /\ \A n \in 1 .. Len(given) : Append(given, e)[n] = given[n]
         /\ Append(given, e)[Len(given) + 1] = e
<1> DEFINE S == ToSet(given) \cup {e}
<1>1. given \in Seq(S)
  OBVIOUS
<1>2. e \in S
  OBVIOUS
<1> HIDE DEF S
<1>3. /\ Append(given, e) \in Seq(S) /\ Len(Append(given, e)) = Len(given) + 1 /\ Len(given) \in Nat
      /\ \A n \in 1 .. Len(given) : Append(given, e)[n] = given[n]
      /\ Append(given, e)[Len(given) + 1] = e
  BY <1>1, <1>2
<1>4. Append(given, e) \in Seq(ToSet(Append(given, e)))
  BY <1>3 DEF ToSet
<1>. QED BY <1>3, <1>4

\* Replaying one more entry reads it in the state replayed so far.
LEMMA ReplayOneMore ==
  ASSUME NEW which, NEW given, given \in Seq(ToSet(given)), NEW e
  PROVE  Replay(which, Append(given, e)) = ReadOne(which, Replay(which, given), e)
<1> DEFINE N == Len(given)
           more == Append(given, e)
<1>1. /\ N \in Nat /\ Len(more) = N + 1 /\ more[N + 1] = e
      /\ \A n \in 1 .. N : more[n] = given[n]
  BY AppendIs
<1> HIDE DEF more
<1>2. PICK s : Replays(which, given, s) /\ Replay(which, given) = s[N]
  BY <1>1, ReplayIsLast
<1>3. PICK r : Replays(which, more, r) /\ Replay(which, more) = r[N + 1]
  BY <1>1, ReplayIsLast
<1>4. r[N] = s[N]
  BY <1>1, <1>2, <1>3, ReplaysAgree
<1>5. r[N + 1] = ReadOne(which, r[N], e)
  BY <1>1, <1>3 DEF Replays
<1>. QED BY <1>2, <1>3, <1>4, <1>5 DEF more

\* The replay of no events is the default state.
LEMMA ReplayNothing == \A which : Replay(which, <<>>) = Default(which)
<1>. SUFFICES ASSUME NEW which PROVE Replay(which, <<>>) = Default(which)
  OBVIOUS
<1>1. Len(<<>>) = 0
  OBVIOUS
<1>2. PICK s : Replays(which, <<>>, s) /\ Replay(which, <<>>) = s[0]
  BY <1>1, ReplayIsLast
<1>. QED BY <1>1, <1>2 DEF Replays

\* The events each decider emits; and those recorded for it.
Emitted(which) ==
  CASE which = "box"                 -> {"ModeChanged"}
    [] which = "work-unit"           -> {"Enqueued", "Reprioritized", "Escalated"}
    [] which = "execution-run"       -> {"UnitAdmitted", "UnitVerdictComputed", "VerdictEmitted"}
    [] which = "exploration-session" -> {"ExplorationStarted", "DiscoveryRecordProduced"}
    [] which = "resident-set"        -> {"BindingLoaded", "BindingEvicted"}
    [] which = "work-batch"          -> {"BatchFormed", "BatchDispatched"}
    [] which = "sandbox"             -> {"SandboxProvisioned", "SandboxDestroyed"}
    [] which = "credential-lease"    -> {"CredentialLeased", "CredentialRevoked"}
    [] which = "verdict-log"         -> {"VerdictAppended", "DeliverableReconciled"}
    [] which = "oracle-run"          -> {"GateConfirmed"}
    [] which = "serving-host"        -> {"HostLaunched", "HostReady", "HostRetired"}

Readable(which) == Emitted(which) \cup (IF which = "work-unit" THEN {"Rejected", "Halted"} ELSE {})

\* What some events tell of the state they were emitted in.
Told(event, s) ==
  CASE event = "BindingEvicted" -> s
    [] event = "SandboxDestroyed" -> s = "provisioned"
    [] event = "DeliverableReconciled" -> s > 0
    [] event = "HostLaunched" -> s \in {"offline", "retired"}
    [] event = "HostReady" -> s = "launching"
    [] event = "HostRetired" -> s \in {"launching", "ready"}
    [] OTHER -> TRUE

\* The switch emits its own events, from the states they may follow.
LEMMA BoxEmits ==
  ASSUME NEW s, NEW c, c.command \in CommandNames("box"), Decide("box", s, c).reject = ""
  PROVE  LET event == Decide("box", s, c).emit.event
         IN  event \in Emitted("box") /\ Told(event, s)
<1>1. c.command \in {"ThrowSwitch"}
  BY DEF CommandNames
<1>2. Decide("box", s, c) = DecideBox(s, c)
  BY DEF Decide
<1>3. DecideBox(s, c).reject = ""
  BY <1>2
<1>4. Emitted("box") = {"ModeChanged"}
  BY DEF Emitted
<1>5. ASSUME c.command = "ThrowSwitch" PROVE DecideBox(s, c).emit.event = "ModeChanged" /\ Told("ModeChanged", s)
  <2>1. DecideBox(s, c).emit.event = "ModeChanged"
    BY <1>3, <1>5 DEF DecideBox, Guarded, Emits, Rejects
  <2>. QED BY <2>1 DEF Told
<1>. QED BY <1>1, <1>2, <1>4, <1>5

\* The work unit emits its own events, from the states they may follow.
LEMMA UnitEmits ==
  ASSUME NEW s, NEW c, c.command \in CommandNames("work-unit"), Decide("work-unit", s, c).reject = ""
  PROVE  LET event == Decide("work-unit", s, c).emit.event
         IN  event \in Emitted("work-unit") /\ Told(event, s)
<1>1. c.command \in {"Admit", "Reprioritize", "Escalate"}
  BY DEF CommandNames
<1>2. Decide("work-unit", s, c) = DecideUnit(s, c)
  BY DEF Decide
<1>3. DecideUnit(s, c).reject = ""
  BY <1>2
<1>4. Emitted("work-unit") = {"Enqueued", "Reprioritized", "Escalated"}
  BY DEF Emitted
<1>5. ASSUME c.command = "Admit" PROVE DecideUnit(s, c).emit.event = "Enqueued" /\ Told("Enqueued", s)
  <2>1. DecideUnit(s, c).emit.event = "Enqueued"
    BY <1>3, <1>5 DEF DecideUnit, Guarded, Emits, Rejects
  <2>. QED BY <2>1 DEF Told
<1>6. ASSUME c.command = "Reprioritize" PROVE DecideUnit(s, c).emit.event = "Reprioritized" /\ Told("Reprioritized", s)
  <2>1. DecideUnit(s, c).emit.event = "Reprioritized"
    BY <1>3, <1>6 DEF DecideUnit, Guarded, Emits, Rejects
  <2>. QED BY <2>1 DEF Told
<1>7. ASSUME c.command = "Escalate" PROVE DecideUnit(s, c).emit.event = "Escalated" /\ Told("Escalated", s)
  <2>1. DecideUnit(s, c).emit.event = "Escalated"
    BY <1>3, <1>7 DEF DecideUnit, Guarded, Emits, Rejects
  <2>. QED BY <2>1 DEF Told
<1>. QED BY <1>1, <1>2, <1>4, <1>5, <1>6, <1>7

\* The execution run emits its own events, from the states they may follow.
LEMMA RunEmits ==
  ASSUME NEW s, NEW c, c.command \in CommandNames("execution-run"), Decide("execution-run", s, c).reject = ""
  PROVE  LET event == Decide("execution-run", s, c).emit.event
         IN  event \in Emitted("execution-run") /\ Told(event, s)
<1>1. c.command \in {"Admit", "ComputeVerdict", "Emit"}
  BY DEF CommandNames
<1>2. Decide("execution-run", s, c) = DecideRun(s, c)
  BY DEF Decide
<1>3. DecideRun(s, c).reject = ""
  BY <1>2
<1>4. Emitted("execution-run") = {"UnitAdmitted", "UnitVerdictComputed", "VerdictEmitted"}
  BY DEF Emitted
<1>5. ASSUME c.command = "Admit" PROVE DecideRun(s, c).emit.event = "UnitAdmitted" /\ Told("UnitAdmitted", s)
  <2>1. DecideRun(s, c).emit.event = "UnitAdmitted"
    BY <1>3, <1>5 DEF DecideRun, Guarded, Emits, Rejects
  <2>. QED BY <2>1 DEF Told
<1>6. ASSUME c.command = "ComputeVerdict" PROVE DecideRun(s, c).emit.event = "UnitVerdictComputed" /\ Told("UnitVerdictComputed", s)
  <2>1. DecideRun(s, c).emit.event = "UnitVerdictComputed"
    BY <1>3, <1>6 DEF DecideRun, Guarded, Emits, Rejects
  <2>. QED BY <2>1 DEF Told
<1>7. ASSUME c.command = "Emit" PROVE DecideRun(s, c).emit.event = "VerdictEmitted" /\ Told("VerdictEmitted", s)
  <2>1. DecideRun(s, c).emit.event = "VerdictEmitted"
    BY <1>3, <1>7 DEF DecideRun, Guarded, Emits, Rejects
  <2>. QED BY <2>1 DEF Told
<1>. QED BY <1>1, <1>2, <1>4, <1>5, <1>6, <1>7

\* The exploration session emits its own events, from the states they may follow.
LEMMA SessionEmits ==
  ASSUME NEW s, NEW c, c.command \in CommandNames("exploration-session"), Decide("exploration-session", s, c).reject = ""
  PROVE  LET event == Decide("exploration-session", s, c).emit.event
         IN  event \in Emitted("exploration-session") /\ Told(event, s)
<1>1. c.command \in {"Start", "ProduceDiscoveryRecord"}
  BY DEF CommandNames
<1>2. Decide("exploration-session", s, c) = DecideSession(s, c)
  BY DEF Decide
<1>3. DecideSession(s, c).reject = ""
  BY <1>2
<1>4. Emitted("exploration-session") = {"ExplorationStarted", "DiscoveryRecordProduced"}
  BY DEF Emitted
<1>5. ASSUME c.command = "Start" PROVE DecideSession(s, c).emit.event = "ExplorationStarted" /\ Told("ExplorationStarted", s)
  <2>1. DecideSession(s, c).emit.event = "ExplorationStarted"
    BY <1>3, <1>5 DEF DecideSession, Guarded, Emits, Rejects
  <2>. QED BY <2>1 DEF Told
<1>6. ASSUME c.command = "ProduceDiscoveryRecord" PROVE DecideSession(s, c).emit.event = "DiscoveryRecordProduced" /\ Told("DiscoveryRecordProduced", s)
  <2>1. DecideSession(s, c).emit.event = "DiscoveryRecordProduced"
    BY <1>3, <1>6 DEF DecideSession, Guarded, Emits, Rejects
  <2>. QED BY <2>1 DEF Told
<1>. QED BY <1>1, <1>2, <1>4, <1>5, <1>6

\* The resident set emits its own events, from the states they may follow.
LEMMA ResidentEmits ==
  ASSUME NEW s, NEW c, c.command \in CommandNames("resident-set"), Decide("resident-set", s, c).reject = ""
  PROVE  LET event == Decide("resident-set", s, c).emit.event
         IN  event \in Emitted("resident-set") /\ Told(event, s)
<1>1. c.command \in {"Load", "Evict"}
  BY DEF CommandNames
<1>2. Decide("resident-set", s, c) = DecideResident(s, c)
  BY DEF Decide
<1>3. DecideResident(s, c).reject = ""
  BY <1>2
<1>4. Emitted("resident-set") = {"BindingLoaded", "BindingEvicted"}
  BY DEF Emitted
<1>5. ASSUME c.command = "Load" PROVE DecideResident(s, c).emit.event = "BindingLoaded" /\ Told("BindingLoaded", s)
  <2>1. DecideResident(s, c).emit.event = "BindingLoaded"
    BY <1>3, <1>5 DEF DecideResident, Guarded, Emits, Rejects
  <2>. QED BY <2>1 DEF Told
<1>6. ASSUME c.command = "Evict" PROVE DecideResident(s, c).emit.event = "BindingEvicted" /\ Told("BindingEvicted", s)
  <2>1. DecideResident(s, c).emit.event = "BindingEvicted" /\ s
    BY <1>3, <1>6 DEF DecideResident, Guarded, Emits, Rejects
  <2>. QED BY <2>1 DEF Told
<1>. QED BY <1>1, <1>2, <1>4, <1>5, <1>6

\* The work batch emits its own events, from the states they may follow.
LEMMA BatchEmits ==
  ASSUME NEW s, NEW c, c.command \in CommandNames("work-batch"), Decide("work-batch", s, c).reject = ""
  PROVE  LET event == Decide("work-batch", s, c).emit.event
         IN  event \in Emitted("work-batch") /\ Told(event, s)
<1>1. c.command \in {"Form", "Dispatch"}
  BY DEF CommandNames
<1>2. Decide("work-batch", s, c) = DecideBatch(s, c)
  BY DEF Decide
<1>3. DecideBatch(s, c).reject = ""
  BY <1>2
<1>4. Emitted("work-batch") = {"BatchFormed", "BatchDispatched"}
  BY DEF Emitted
<1>5. ASSUME c.command = "Form" PROVE DecideBatch(s, c).emit.event = "BatchFormed" /\ Told("BatchFormed", s)
  <2>1. DecideBatch(s, c).emit.event = "BatchFormed"
    BY <1>3, <1>5 DEF DecideBatch, Guarded, Emits, Rejects
  <2>. QED BY <2>1 DEF Told
<1>6. ASSUME c.command = "Dispatch" PROVE DecideBatch(s, c).emit.event = "BatchDispatched" /\ Told("BatchDispatched", s)
  <2>1. DecideBatch(s, c).emit.event = "BatchDispatched"
    BY <1>3, <1>6 DEF DecideBatch, Guarded, Emits, Rejects
  <2>. QED BY <2>1 DEF Told
<1>. QED BY <1>1, <1>2, <1>4, <1>5, <1>6

\* The sandbox emits its own events, from the states they may follow.
LEMMA SandboxEmits ==
  ASSUME NEW s, NEW c, c.command \in CommandNames("sandbox"), Decide("sandbox", s, c).reject = ""
  PROVE  LET event == Decide("sandbox", s, c).emit.event
         IN  event \in Emitted("sandbox") /\ Told(event, s)
<1>1. c.command \in {"Provision", "Teardown"}
  BY DEF CommandNames
<1>2. Decide("sandbox", s, c) = DecideSandbox(s, c)
  BY DEF Decide
<1>3. DecideSandbox(s, c).reject = ""
  BY <1>2
<1>4. Emitted("sandbox") = {"SandboxProvisioned", "SandboxDestroyed"}
  BY DEF Emitted
<1>5. ASSUME c.command = "Provision" PROVE DecideSandbox(s, c).emit.event = "SandboxProvisioned" /\ Told("SandboxProvisioned", s)
  <2>1. DecideSandbox(s, c).emit.event = "SandboxProvisioned"
    BY <1>3, <1>5 DEF DecideSandbox, Guarded, Emits, Rejects
  <2>. QED BY <2>1 DEF Told
<1>6. ASSUME c.command = "Teardown" PROVE DecideSandbox(s, c).emit.event = "SandboxDestroyed" /\ Told("SandboxDestroyed", s)
  <2>1. DecideSandbox(s, c).emit.event = "SandboxDestroyed" /\ s = "provisioned"
    BY <1>3, <1>6 DEF DecideSandbox, Guarded, Emits, Rejects
  <2>. QED BY <2>1 DEF Told
<1>. QED BY <1>1, <1>2, <1>4, <1>5, <1>6

\* The credential lease emits its own events, from the states they may follow.
LEMMA LeaseEmits ==
  ASSUME NEW s, NEW c, c.command \in CommandNames("credential-lease"), Decide("credential-lease", s, c).reject = ""
  PROVE  LET event == Decide("credential-lease", s, c).emit.event
         IN  event \in Emitted("credential-lease") /\ Told(event, s)
<1>1. c.command \in {"Exchange", "Revoke"}
  BY DEF CommandNames
<1>2. Decide("credential-lease", s, c) = DecideLease(s, c)
  BY DEF Decide
<1>3. DecideLease(s, c).reject = ""
  BY <1>2
<1>4. Emitted("credential-lease") = {"CredentialLeased", "CredentialRevoked"}
  BY DEF Emitted
<1>5. ASSUME c.command = "Exchange" PROVE DecideLease(s, c).emit.event = "CredentialLeased" /\ Told("CredentialLeased", s)
  <2>1. DecideLease(s, c).emit.event = "CredentialLeased"
    BY <1>3, <1>5 DEF DecideLease, Guarded, Emits, Rejects
  <2>. QED BY <2>1 DEF Told
<1>6. ASSUME c.command = "Revoke" PROVE DecideLease(s, c).emit.event = "CredentialRevoked" /\ Told("CredentialRevoked", s)
  <2>1. DecideLease(s, c).emit.event = "CredentialRevoked"
    BY <1>3, <1>6 DEF DecideLease, Guarded, Emits, Rejects
  <2>. QED BY <2>1 DEF Told
<1>. QED BY <1>1, <1>2, <1>4, <1>5, <1>6

\* The verdict log emits its own events, from the states they may follow.
LEMMA LogEmits ==
  ASSUME NEW s, NEW c, c.command \in CommandNames("verdict-log"), Decide("verdict-log", s, c).reject = ""
  PROVE  LET event == Decide("verdict-log", s, c).emit.event
         IN  event \in Emitted("verdict-log") /\ Told(event, s)
<1>1. c.command \in {"Append", "Reconcile"}
  BY DEF CommandNames
<1>2. Decide("verdict-log", s, c) = DecideLog(s, c)
  BY DEF Decide
<1>3. DecideLog(s, c).reject = ""
  BY <1>2
<1>4. Emitted("verdict-log") = {"VerdictAppended", "DeliverableReconciled"}
  BY DEF Emitted
<1>5. ASSUME c.command = "Append" PROVE DecideLog(s, c).emit.event = "VerdictAppended" /\ Told("VerdictAppended", s)
  <2>1. DecideLog(s, c).emit.event = "VerdictAppended"
    BY <1>3, <1>5 DEF DecideLog, Guarded, Emits, Rejects
  <2>. QED BY <2>1 DEF Told
<1>6. ASSUME c.command = "Reconcile" PROVE DecideLog(s, c).emit.event = "DeliverableReconciled" /\ Told("DeliverableReconciled", s)
  <2>1. DecideLog(s, c).emit.event = "DeliverableReconciled" /\ s > 0
    BY <1>3, <1>6 DEF DecideLog, Guarded, Emits, Rejects
  <2>. QED BY <2>1 DEF Told
<1>. QED BY <1>1, <1>2, <1>4, <1>5, <1>6

\* The oracle run emits its own events, from the states they may follow.
LEMMA OracleEmits ==
  ASSUME NEW s, NEW c, c.command \in CommandNames("oracle-run"), Decide("oracle-run", s, c).reject = ""
  PROVE  LET event == Decide("oracle-run", s, c).emit.event
         IN  event \in Emitted("oracle-run") /\ Told(event, s)
<1>1. c.command \in {"RunGate"}
  BY DEF CommandNames
<1>2. Decide("oracle-run", s, c) = DecideOracle(s, c)
  BY DEF Decide
<1>3. DecideOracle(s, c).reject = ""
  BY <1>2
<1>4. Emitted("oracle-run") = {"GateConfirmed"}
  BY DEF Emitted
<1>5. ASSUME c.command = "RunGate" PROVE DecideOracle(s, c).emit.event = "GateConfirmed" /\ Told("GateConfirmed", s)
  <2>1. DecideOracle(s, c).emit.event = "GateConfirmed"
    BY <1>3, <1>5 DEF DecideOracle, Guarded, Emits, Rejects
  <2>. QED BY <2>1 DEF Told
<1>. QED BY <1>1, <1>2, <1>4, <1>5

\* The serving host emits its own events, from the states they may follow.
LEMMA HostEmits ==
  ASSUME NEW s, NEW c, c.command \in CommandNames("serving-host"), Decide("serving-host", s, c).reject = ""
  PROVE  LET event == Decide("serving-host", s, c).emit.event
         IN  event \in Emitted("serving-host") /\ Told(event, s)
<1>1. c.command \in {"Launch", "ConfirmReady", "Retire"}
  BY DEF CommandNames
<1>2. Decide("serving-host", s, c) = DecideHost(s, c)
  BY DEF Decide
<1>3. DecideHost(s, c).reject = ""
  BY <1>2
<1>4. Emitted("serving-host") = {"HostLaunched", "HostReady", "HostRetired"}
  BY DEF Emitted
<1>5. ASSUME c.command = "Launch" PROVE DecideHost(s, c).emit.event = "HostLaunched" /\ Told("HostLaunched", s)
  <2>1. DecideHost(s, c).emit.event = "HostLaunched" /\ s \in {"offline", "retired"}
    BY <1>3, <1>5 DEF DecideHost, Guarded, Emits, Rejects
  <2>. QED BY <2>1 DEF Told
<1>6. ASSUME c.command = "ConfirmReady" PROVE DecideHost(s, c).emit.event = "HostReady" /\ Told("HostReady", s)
  <2>1. DecideHost(s, c).emit.event = "HostReady" /\ s = "launching"
    BY <1>3, <1>6 DEF DecideHost, Guarded, Emits, Rejects
  <2>. QED BY <2>1 DEF Told
<1>7. ASSUME c.command = "Retire" PROVE DecideHost(s, c).emit.event = "HostRetired" /\ Told("HostRetired", s)
  <2>1. DecideHost(s, c).emit.event = "HostRetired" /\ s \in {"launching", "ready"}
    BY <1>3, <1>7 DEF DecideHost, Guarded, Emits, Rejects
  <2>. QED BY <2>1 DEF Told
<1>. QED BY <1>1, <1>2, <1>4, <1>5, <1>6, <1>7

\* A decider that answers emits one of its own events.
LEMMA DecidedEmits ==
  ASSUME NEW which \in DeciderNames, NEW s, NEW c, c.command \in CommandNames(which),
         Decide(which, s, c).reject = "",
         NEW event, event = Decide(which, s, c).emit.event
  PROVE  event \in Emitted(which) /\ Told(event, s)
<1>1. CASE which = "box"
  BY <1>1, BoxEmits
<1>2. CASE which = "work-unit"
  BY <1>2, UnitEmits
<1>3. CASE which = "execution-run"
  BY <1>3, RunEmits
<1>4. CASE which = "exploration-session"
  BY <1>4, SessionEmits
<1>5. CASE which = "resident-set"
  BY <1>5, ResidentEmits
<1>6. CASE which = "work-batch"
  BY <1>6, BatchEmits
<1>7. CASE which = "sandbox"
  BY <1>7, SandboxEmits
<1>8. CASE which = "credential-lease"
  BY <1>8, LeaseEmits
<1>9. CASE which = "verdict-log"
  BY <1>9, LogEmits
<1>10. CASE which = "oracle-run"
  BY <1>10, OracleEmits
<1>11. CASE which = "serving-host"
  BY <1>11, HostEmits
<1>. QED BY <1>1, <1>2, <1>3, <1>4, <1>5, <1>6, <1>7, <1>8, <1>9, <1>10, <1>11 DEF DeciderNames

\* The event ids, written out
LEMMA EventIds ==
  /\ EventId("ModeChanged") = "box-mode-changed"
  /\ EventId("Enqueued") = "work-unit-enqueued" /\ EventId("Reprioritized") = "work-unit-reprioritized"
  /\ EventId("Escalated") = "unit-escalated" /\ EventId("Rejected") = "work-unit-rejected"
  /\ EventId("Halted") = "unit-halted"
  /\ EventId("UnitAdmitted") = "unit-admitted" /\ EventId("UnitVerdictComputed") = "unit-verdict-computed"
  /\ EventId("VerdictEmitted") = "verdict-emitted"
  /\ EventId("ExplorationStarted") = "exploration-started"
  /\ EventId("DiscoveryRecordProduced") = "discovery-record-produced"
  /\ EventId("BindingLoaded") = "binding-loaded" /\ EventId("BindingEvicted") = "binding-evicted"
  /\ EventId("BatchFormed") = "batch-formed" /\ EventId("BatchDispatched") = "batch-dispatched"
  /\ EventId("SandboxProvisioned") = "sandbox-provisioned" /\ EventId("SandboxDestroyed") = "sandbox-destroyed"
  /\ EventId("CredentialLeased") = "credential-leased" /\ EventId("CredentialRevoked") = "credential-revoked"
  /\ EventId("VerdictAppended") = "verdict-appended"
  /\ EventId("DeliverableReconciled") = "deliverable-reconciled"
  /\ EventId("HostLaunched") = "host-launched" /\ EventId("HostReady") = "host-ready"
  /\ EventId("HostRetired") = "host-retired"
BY DEF EventId

\* The reader of each decider knows each of its events by its id, and no two by
\* the same.
LEMMA TableReads ==
  ASSUME NEW which \in DeciderNames \ {"oracle-run"}
  PROVE  /\ DOMAIN ReadTable(which) = Readable(which)
         /\ \A e \in Readable(which) : ReadTable(which)[e] = EventId(e)
         /\ \A e, f \in Readable(which) : EventId(e) = EventId(f) => e = f
         /\ \A e \in Readable(which) : EventId(e) # "another-event"
<1>1. CASE which = "box"
  <2>1. Readable("box") = {"ModeChanged"}
    BY DEF Readable, Emitted
  <2>2. ReadTable("box") =
          [ModeChanged |-> "box-mode-changed"]
    BY DEF ReadTable
  <2>. QED BY <1>1, <2>1, <2>2, EventIds
<1>2. CASE which = "work-unit"
  <2>1. Readable("work-unit") = {"Enqueued", "Reprioritized", "Escalated", "Rejected", "Halted"}
    BY DEF Readable, Emitted
  <2>2. ReadTable("work-unit") =
          [Enqueued |-> "work-unit-enqueued", Reprioritized |-> "work-unit-reprioritized", Escalated |-> "unit-escalated", Rejected |-> "work-unit-rejected", Halted |-> "unit-halted"]
    BY DEF ReadTable
  <2>. QED BY <1>2, <2>1, <2>2, EventIds
<1>3. CASE which = "execution-run"
  <2>1. Readable("execution-run") = {"UnitAdmitted", "UnitVerdictComputed", "VerdictEmitted"}
    BY DEF Readable, Emitted
  <2>2. ReadTable("execution-run") =
          [UnitAdmitted |-> "unit-admitted", UnitVerdictComputed |-> "unit-verdict-computed", VerdictEmitted |-> "verdict-emitted"]
    BY DEF ReadTable
  <2>. QED BY <1>3, <2>1, <2>2, EventIds
<1>4. CASE which = "exploration-session"
  <2>1. Readable("exploration-session") = {"ExplorationStarted", "DiscoveryRecordProduced"}
    BY DEF Readable, Emitted
  <2>2. ReadTable("exploration-session") =
          [ExplorationStarted |-> "exploration-started", DiscoveryRecordProduced |-> "discovery-record-produced"]
    BY DEF ReadTable
  <2>. QED BY <1>4, <2>1, <2>2, EventIds
<1>5. CASE which = "resident-set"
  <2>1. Readable("resident-set") = {"BindingLoaded", "BindingEvicted"}
    BY DEF Readable, Emitted
  <2>2. ReadTable("resident-set") =
          [BindingLoaded |-> "binding-loaded", BindingEvicted |-> "binding-evicted"]
    BY DEF ReadTable
  <2>. QED BY <1>5, <2>1, <2>2, EventIds
<1>6. CASE which = "work-batch"
  <2>1. Readable("work-batch") = {"BatchFormed", "BatchDispatched"}
    BY DEF Readable, Emitted
  <2>2. ReadTable("work-batch") =
          [BatchFormed |-> "batch-formed", BatchDispatched |-> "batch-dispatched"]
    BY DEF ReadTable
  <2>. QED BY <1>6, <2>1, <2>2, EventIds
<1>7. CASE which = "sandbox"
  <2>1. Readable("sandbox") = {"SandboxProvisioned", "SandboxDestroyed"}
    BY DEF Readable, Emitted
  <2>2. ReadTable("sandbox") =
          [SandboxProvisioned |-> "sandbox-provisioned", SandboxDestroyed |-> "sandbox-destroyed"]
    BY DEF ReadTable
  <2>. QED BY <1>7, <2>1, <2>2, EventIds
<1>8. CASE which = "credential-lease"
  <2>1. Readable("credential-lease") = {"CredentialLeased", "CredentialRevoked"}
    BY DEF Readable, Emitted
  <2>2. ReadTable("credential-lease") =
          [CredentialLeased |-> "credential-leased", CredentialRevoked |-> "credential-revoked"]
    BY DEF ReadTable
  <2>. QED BY <1>8, <2>1, <2>2, EventIds
<1>9. CASE which = "verdict-log"
  <2>1. Readable("verdict-log") = {"VerdictAppended", "DeliverableReconciled"}
    BY DEF Readable, Emitted
  <2>2. ReadTable("verdict-log") =
          [VerdictAppended |-> "verdict-appended", DeliverableReconciled |-> "deliverable-reconciled"]
    BY DEF ReadTable
  <2>. QED BY <1>9, <2>1, <2>2, EventIds
<1>10. CASE which = "serving-host"
  <2>1. Readable("serving-host") = {"HostLaunched", "HostReady", "HostRetired"}
    BY DEF Readable, Emitted
  <2>2. ReadTable("serving-host") =
          [HostLaunched |-> "host-launched", HostReady |-> "host-ready", HostRetired |-> "host-retired"]
    BY DEF ReadTable
  <2>. QED BY <1>10, <2>1, <2>2, EventIds
<1>. QED BY <1>1, <1>2, <1>3, <1>4, <1>5, <1>6, <1>7, <1>8, <1>9, <1>10 DEF DeciderNames

\* An entry of the history is read as the event it was written for.
LEMMA ReadsBack ==
  ASSUME NEW which \in DeciderNames \ {"oracle-run"}, NEW s, NEW e, e.event \in Readable(which)
  PROVE  ReadOne(which, s, [id |-> EventId(e.event), with |-> e.with]) = Evolve(which, s, e)
<1> DEFINE entry == [id |-> EventId(e.event), with |-> e.with]
           table == ReadTable(which)
           known == {f \in DOMAIN table : table[f] = entry.id}
           read  == [event |-> e.event, with |-> e.with]
<1>1. known = {e.event}
  BY TableReads
<1>2. (CHOOSE f \in known : TRUE) = e.event
  BY <1>1
<1>3. known # {}
  BY <1>1
<1>4. ReadOne(which, s, entry) = Evolve(which, s, read)
  BY <1>2, <1>3 DEF ReadOne
<1>5. Evolve(which, s, read) = Evolve(which, s, e)
  BY Zenon DEF Evolve
<1>. QED BY <1>4, <1>5

\* An event of another decider is passed over.
LEMMA ReadsPast ==
  ASSUME NEW which \in DeciderNames \ {"oracle-run"}, NEW s
  PROVE  ReadOne(which, s, [id |-> "another-event", with |-> "nothing"]) = s
BY TableReads DEF ReadOne

\* The decider of the oracle runs does not look at its state.
LEMMA OracleIsBlind ==
  ASSUME NEW s, NEW t, NEW c
  PROVE  Decide("oracle-run", s, c) = Decide("oracle-run", t, c)
BY DEF Decide, DecideOracle

-----------------------------------------------------------------------------
\* What a decider and its view hold: ViewsFollow, with the range of both.
HostFollows(state, view) ==
  /\ state \in {"offline", "launching", "ready", "retired"}
  /\ view = (IF state \in {"launching", "ready"} THEN 1 ELSE 0)

ResidentFollows(state, view) ==
  state \in BOOLEAN /\ view \in Int /\ view >= (IF state THEN 1 ELSE 0)

SandboxFollows(state, view) ==
  /\ state \in {"none", "provisioned", "destroyed"}
  /\ view \in Int /\ view >= (IF state = "provisioned" THEN 1 ELSE 0)

LogFollows(state, view) == state \in Nat /\ view \in Int /\ view >= state

Follows(which, state, view) ==
  /\ which = "serving-host" => HostFollows(state, view)
  /\ which = "resident-set" => ResidentFollows(state, view)
  /\ which = "sandbox" => SandboxFollows(state, view)
  /\ which = "verdict-log" => LogFollows(state, view)

Viewed == {"serving-host", "resident-set", "sandbox", "verdict-log"}

\* A view that counts nothing follows a decider that has not started.
LEMMA FollowsStart ==
  ASSUME NEW which \in DeciderNames
  PROVE  Follows(which, Default(which), 0)
<1>1. CASE which = "serving-host"
  <2>1. Default("serving-host") = "offline"
    BY DEF Default
  <2>2. HostFollows("offline", 0)
    BY DEF HostFollows
  <2>. QED BY <1>1, <2>1, <2>2 DEF Follows
<1>2. CASE which = "resident-set"
  <2>1. Default("resident-set") = FALSE
    BY DEF Default
  <2>2. ResidentFollows(FALSE, 0)
    BY DEF ResidentFollows
  <2>. QED BY <1>2, <2>1, <2>2 DEF Follows
<1>3. CASE which = "sandbox"
  <2>1. Default("sandbox") = "none"
    BY DEF Default
  <2>2. SandboxFollows("none", 0)
    BY DEF SandboxFollows
  <2>. QED BY <1>3, <2>1, <2>2 DEF Follows
<1>4. CASE which = "verdict-log"
  <2>1. Default("verdict-log") = 0
    BY DEF Default
  <2>2. LogFollows(0, 0)
    BY DEF LogFollows
  <2>. QED BY <1>4, <2>1, <2>2 DEF Follows
<1>5. CASE which \notin Viewed
  BY <1>5 DEF Follows, Viewed
<1>. QED BY <1>1, <1>2, <1>3, <1>4, <1>5 DEF Viewed

\* The view of live hosts follows every event of the serving host.
LEMMA HostKeeps ==
  ASSUME NEW s, NEW view, HostFollows(s, view), NEW event \in Emitted("serving-host"), Told(event, s)
  PROVE  HostFollows(PhaseAfter(event), Project(view, event))
<1>1. event \in {"HostLaunched", "HostReady", "HostRetired"}
  BY DEF Emitted
<1>2. CASE event = "HostLaunched"
  <2>1. PhaseAfter("HostLaunched") = "launching" /\ Project(view, "HostLaunched") = view + 1
    BY DEF PhaseAfter, Project, Opening, Closing
  <2>2. s \in {"offline", "retired"}
    BY <1>2 DEF Told
  <2>3. HostFollows("launching", view + 1)
    BY <2>2 DEF HostFollows
  <2>. QED BY <1>2, <2>1, <2>3
<1>3. CASE event = "HostReady"
  <2>1. PhaseAfter("HostReady") = "ready" /\ Project(view, "HostReady") = view
    BY DEF PhaseAfter, Project, Opening, Closing
  <2>2. s = "launching"
    BY <1>3 DEF Told
  <2>3. HostFollows("ready", view)
    BY <2>2 DEF HostFollows
  <2>. QED BY <1>3, <2>1, <2>3
<1>4. CASE event = "HostRetired"
  <2>1. PhaseAfter("HostRetired") = "retired" /\ Project(view, "HostRetired") = view - 1
    BY DEF PhaseAfter, Project, Opening, Closing
  <2>2. s \in {"launching", "ready"}
    BY <1>4 DEF Told
  <2>3. HostFollows("retired", view - 1)
    BY <2>2 DEF HostFollows
  <2>. QED BY <1>4, <2>1, <2>3
<1>. QED BY <1>1, <1>2, <1>3, <1>4

\* The view of resident models follows every event of the resident set.
LEMMA ResidentKeeps ==
  ASSUME NEW s, NEW view, ResidentFollows(s, view), NEW event \in Emitted("resident-set"), Told(event, s)
  PROVE  ResidentFollows(PhaseAfter(event), Project(view, event))
<1>1. event \in {"BindingLoaded", "BindingEvicted"}
  BY DEF Emitted
<1>2. CASE event = "BindingLoaded"
  <2>1. PhaseAfter("BindingLoaded") = TRUE /\ Project(view, "BindingLoaded") = view + 1
    BY DEF PhaseAfter, Project, Opening, Closing
  <2>3. ResidentFollows(TRUE, view + 1)
    BY DEF ResidentFollows
  <2>. QED BY <1>2, <2>1, <2>3
<1>3. CASE event = "BindingEvicted"
  <2>1. PhaseAfter("BindingEvicted") = FALSE /\ Project(view, "BindingEvicted") = view - 1
    BY DEF PhaseAfter, Project, Opening, Closing
  <2>2. s
    BY <1>3 DEF Told
  <2>3. ResidentFollows(FALSE, view - 1)
    BY <2>2 DEF ResidentFollows
  <2>. QED BY <1>3, <2>1, <2>3
<1>. QED BY <1>1, <1>2, <1>3

\* The view of live sandboxes follows every event of the sandbox.
LEMMA SandboxKeeps ==
  ASSUME NEW s, NEW view, SandboxFollows(s, view), NEW event \in Emitted("sandbox"), Told(event, s)
  PROVE  SandboxFollows(PhaseAfter(event), Project(view, event))
<1>1. event \in {"SandboxProvisioned", "SandboxDestroyed"}
  BY DEF Emitted
<1>2. CASE event = "SandboxProvisioned"
  <2>1. PhaseAfter("SandboxProvisioned") = "provisioned" /\ Project(view, "SandboxProvisioned") = view + 1
    BY DEF PhaseAfter, Project, Opening, Closing
  <2>3. SandboxFollows("provisioned", view + 1)
    BY DEF SandboxFollows
  <2>. QED BY <1>2, <2>1, <2>3
<1>3. CASE event = "SandboxDestroyed"
  <2>1. PhaseAfter("SandboxDestroyed") = "destroyed" /\ Project(view, "SandboxDestroyed") = view - 1
    BY DEF PhaseAfter, Project, Opening, Closing
  <2>2. s = "provisioned"
    BY <1>3 DEF Told
  <2>3. SandboxFollows("destroyed", view - 1)
    BY <2>2 DEF SandboxFollows
  <2>. QED BY <1>3, <2>1, <2>3
<1>. QED BY <1>1, <1>2, <1>3

\* The view of pending verdicts follows every event of the verdict log.
LEMMA LogKeeps ==
  ASSUME NEW s, NEW view, LogFollows(s, view), NEW event \in Emitted("verdict-log"), Told(event, s)
  PROVE  LogFollows(EvolveLog(s, event), Project(view, event))
<1>1. event \in {"VerdictAppended", "DeliverableReconciled"}
  BY DEF Emitted
<1>2. CASE event = "VerdictAppended"
  <2>1. EvolveLog(s, "VerdictAppended") = s + 1 /\ Project(view, "VerdictAppended") = view + 1
    BY DEF EvolveLog, Project, Opening, Closing
  <2>3. LogFollows(s + 1, view + 1)
    BY DEF LogFollows
  <2>. QED BY <1>2, <2>1, <2>3
<1>3. CASE event = "DeliverableReconciled"
  <2>1. EvolveLog(s, "DeliverableReconciled") = 0 /\ Project(view, "DeliverableReconciled") = view - 1
    BY DEF EvolveLog, Project, Opening, Closing
  <2>2. s > 0
    BY <1>3 DEF Told
  <2>3. LogFollows(0, view - 1)
    BY <2>2 DEF LogFollows
  <2>. QED BY <1>3, <2>1, <2>3
<1>. QED BY <1>1, <1>2, <1>3

\* The view of a decider takes in what the decider has decided.
LEMMA FollowsDecided ==
  ASSUME NEW which \in DeciderNames, NEW s, NEW view, Follows(which, s, view),
         NEW c, c.command \in CommandNames(which), Decide(which, s, c).reject = "",
         NEW e, e = Decide(which, s, c).emit
  PROVE  Follows(which, Evolve(which, s, e), Project(view, e.event))
<1>1. CASE which = "serving-host"
  <2>1. Evolve("serving-host", s, e) = PhaseAfter(e.event)
    BY DEF Evolve
  <2>2. HostFollows(PhaseAfter(e.event), Project(view, e.event))
    BY <1>1, HostKeeps, DecidedEmits DEF Follows
  <2>. QED BY <1>1, <2>1, <2>2 DEF Follows
<1>2. CASE which = "resident-set"
  <2>1. Evolve("resident-set", s, e) = PhaseAfter(e.event)
    BY DEF Evolve
  <2>2. ResidentFollows(PhaseAfter(e.event), Project(view, e.event))
    BY <1>2, ResidentKeeps, DecidedEmits DEF Follows
  <2>. QED BY <1>2, <2>1, <2>2 DEF Follows
<1>3. CASE which = "sandbox"
  <2>1. Evolve("sandbox", s, e) = PhaseAfter(e.event)
    BY DEF Evolve
  <2>2. SandboxFollows(PhaseAfter(e.event), Project(view, e.event))
    BY <1>3, SandboxKeeps, DecidedEmits DEF Follows
  <2>. QED BY <1>3, <2>1, <2>2 DEF Follows
<1>4. CASE which = "verdict-log"
  <2>1. Evolve("verdict-log", s, e) = EvolveLog(s, e.event)
    BY DEF Evolve
  <2>2. LogFollows(EvolveLog(s, e.event), Project(view, e.event))
    BY <1>4, LogKeeps, DecidedEmits DEF Follows
  <2>. QED BY <1>4, <2>1, <2>2 DEF Follows
<1>5. CASE which \notin Viewed
  BY <1>5 DEF Follows, Viewed
<1>. QED BY <1>1, <1>2, <1>3, <1>4, <1>5 DEF Viewed

HistoryInv(l) ==
  /\ l = [which |-> l.which, state |-> l.state, view |-> l.view, given |-> l.given]
  /\ l.which \in DeciderNames
  /\ l.given \in Seq(ToSet(l.given)) /\ Len(l.given) <= MaxEvents
  /\ Follows(l.which, l.state, l.view)
  /\ l.which # "oracle-run" => l.state = Replay(l.which, l.given)

\* An empty history keeps the invariant.
LEMMA HistoryStarts ==
  ASSUME NEW which \in DeciderNames
  PROVE  HistoryInv([which |-> which, state |-> Default(which), view |-> 0, given |-> <<>>])
<1> DEFINE l == [which |-> which, state |-> Default(which), view |-> 0, given |-> <<>>]
<1>1. l.which = which /\ l.state = Default(which) /\ l.view = 0 /\ l.given = <<>>
  OBVIOUS
<1>2. l = [which |-> l.which, state |-> l.state, view |-> l.view, given |-> l.given]
  OBVIOUS
<1> HIDE DEF l
<1>3. <<>> \in Seq(ToSet(<<>>)) /\ Len(<<>>) <= MaxEvents
  BY MaxEventsAssumption
<1>4. Follows(l.which, l.state, l.view)
  BY <1>1, FollowsStart
<1>5. l.state = Replay(l.which, l.given)
  BY <1>1, ReplayNothing
<1>6. HistoryInv(l)
  BY <1>1, <1>2, <1>3, <1>4, <1>5 DEF HistoryInv
<1>. QED BY <1>6 DEF l

\* One more entry.
LEMMA HistoryGrows ==
  ASSUME NEW l, HistoryInv(l), Len(l.given) < MaxEvents, NEW state, NEW view, NEW entry,
         Follows(l.which, state, view),
         l.which # "oracle-run" => state = ReadOne(l.which, l.state, entry),
         NEW v, v = [l EXCEPT !.state = state, !.view = view, !.given = Append(@, entry)]
  PROVE  HistoryInv(v)
<1>1. /\ v.which = l.which /\ v.state = state /\ v.view = view
      /\ v.given = Append(l.given, entry)
  BY DEF HistoryInv
<1>2. v = [which |-> v.which, state |-> v.state, view |-> v.view, given |-> v.given]
  BY DEF HistoryInv
<1>3. /\ Append(l.given, entry) \in Seq(ToSet(Append(l.given, entry)))
      /\ Len(Append(l.given, entry)) = Len(l.given) + 1 /\ Len(l.given) \in Nat
  BY AppendIs DEF HistoryInv
<1>4. Len(Append(l.given, entry)) <= MaxEvents
  BY <1>3, MaxEventsAssumption
<1>5. l.which # "oracle-run" => state = Replay(l.which, Append(l.given, entry))
  BY ReplayOneMore DEF HistoryInv
<1>6. l.which \in DeciderNames
  BY DEF HistoryInv
<1>. QED BY <1>1, <1>2, <1>3, <1>4, <1>5, <1>6 DEF HistoryInv

HistoriesHold == loop = "history" => HistoryInv(local)

\* A history grown by an event that can be read back keeps the invariant.
LEMMA HappenedKeeps ==
  ASSUME HistoryInv(local), NEW e, e.event \in Readable(local.which),
         Follows(local.which, Evolve(local.which, local.state, e), Project(local.view, e.event)),
         Happened(e, EventId(e.event))
  PROVE  HistoryInv(local')
<1> DEFINE state == Evolve(local.which, local.state, e)
           view  == Project(local.view, e.event)
           entry == [id |-> EventId(e.event), with |-> e.with]
<1>1. /\ Len(local.given) < MaxEvents
      /\ local' = [local EXCEPT !.state = state, !.view = view, !.given = Append(@, entry)]
  BY DEF Happened
<1>2. local.which # "oracle-run" => state = ReadOne(local.which, local.state, entry)
  BY ReadsBack DEF HistoryInv
<1>3. Follows(local.which, state, view)
  OBVIOUS
<1> HIDE DEF state, view, entry
<1>. QED BY <1>1, <1>2, <1>3, HistoryGrows

\* A history and the state it leads to keep the invariant above.
LEMMA HistoriesHoldAlways == Spec => []HistoriesHold
<1>1. Init => HistoriesHold
  BY HistoryStarts DEF Init, HistoriesHold
<1>2. HistoriesHold /\ [Next]_vars => HistoriesHold'
  <2>. SUFFICES ASSUME HistoriesHold, [Next]_vars, loop' = "history" PROVE HistoryInv(local')
    BY DEF HistoriesHold
  <2>1. CASE CommandTurn
    <3>1. HistoryInv(local)
      BY <2>1 DEF CommandTurn, HistoriesHold
    <3>2. PICK c \in Commands(local.which) :
            LET answer == Decide(local.which, local.state, c)
            IN  answer.reject = "" /\ Happened(answer.emit, EventId(answer.emit.event))
      BY <2>1 DEF CommandTurn
    <3> DEFINE e == Decide(local.which, local.state, c).emit
    <3>3. local.which \in DeciderNames /\ Follows(local.which, local.state, local.view)
      BY <3>1 DEF HistoryInv
    <3>4. c.command \in CommandNames(local.which) /\ Decide(local.which, local.state, c).reject = ""
      BY <3>2, <3>3, CommandsAssumption
    <3>5. Happened(e, EventId(e.event))
      BY <3>2
    <3>6. Follows(local.which, Evolve(local.which, local.state, e), Project(local.view, e.event))
      BY <3>3, <3>4, FollowsDecided
    <3>7. e.event \in Readable(local.which)
      BY <3>3, <3>4, DecidedEmits DEF Readable
    <3> HIDE DEF e
    <3>. QED BY <3>1, <3>5, <3>6, <3>7, HappenedKeeps
  <2>2. CASE RecordedTurn
    <3>1. HistoryInv(local)
      BY <2>2 DEF RecordedTurn, HistoriesHold
    <3>2. PICK event \in Recorded(local.which) : Happened([event |-> event, with |-> "nothing"], EventId(event))
      BY <2>2 DEF RecordedTurn
    <3>3. local.which \in DeciderNames
      BY <3>1 DEF HistoryInv
    <3>4. local.which = "work-unit" /\ event \in {"Rejected", "Halted"}
      BY <3>2, <3>3, RecordedAssumption
    <3>5. event \in Readable(local.which)
      BY <3>4 DEF Readable
    <3>6. \A state, view : Follows("work-unit", state, view)
      BY DEF Follows
    <3> DEFINE e == [event |-> event, with |-> "nothing"]
    <3>7. e.event = event
      OBVIOUS
    <3>8. Happened(e, EventId(e.event))
      BY <3>2
    <3> HIDE DEF e
    <3>. QED BY <3>1, <3>4, <3>5, <3>6, <3>7, <3>8, HappenedKeeps
  <2>3. CASE ForeignTurn
    <3> DEFINE entry == [id |-> "another-event", with |-> "nothing"]
    <3>1. HistoryInv(local) /\ Len(local.given) < MaxEvents
      BY <2>3 DEF ForeignTurn, HistoriesHold
    <3>2. local' = [local EXCEPT !.given = Append(@, entry)]
      BY <2>3 DEF ForeignTurn
    <3>3. local' = [local EXCEPT !.state = local.state, !.view = local.view, !.given = Append(@, entry)]
      BY <3>1, <3>2 DEF HistoryInv
    <3>4. local.which # "oracle-run" => local.state = ReadOne(local.which, local.state, entry)
      BY <3>1, ReadsPast DEF HistoryInv
    <3>5. Follows(local.which, local.state, local.view)
      BY <3>1 DEF HistoryInv
    <3> HIDE DEF entry
    <3>. QED BY <3>1, <3>3, <3>4, <3>5, HistoryGrows
  <2>4. CASE UNCHANGED vars
    BY <2>4 DEF vars, HistoriesHold
  <2>. QED BY <2>1, <2>2, <2>3, <2>4 DEF Next, WalkTurn, TopoTurn, WorkTurn, BatchTurn, PipeTurn
<1>. QED BY <1>1, <1>2, PTL DEF Spec

\* The views of host, serving, sandbox and stream beside their deciders: the count of live
\* hosts is exact in every history the decider admits, and the other counts are
\* never below the decider's state.
THEOREM ViewsFollowProved == Spec => []ViewsFollow
<1>1. HistoriesHold => ViewsFollow
  <2>. SUFFICES ASSUME HistoriesHold, loop = "history" PROVE ViewsFollow
    BY DEF ViewsFollow
  <2>1. local.which \in DeciderNames /\ Follows(local.which, local.state, local.view)
    BY DEF HistoriesHold, HistoryInv
  <2>2. CASE local.which = "serving-host"
    BY <2>1, <2>2 DEF ViewsFollow, Follows, HostFollows
  <2>3. CASE local.which = "resident-set"
    BY <2>1, <2>3 DEF ViewsFollow, Follows, ResidentFollows
  <2>4. CASE local.which = "sandbox"
    BY <2>1, <2>4 DEF ViewsFollow, Follows, SandboxFollows
  <2>5. CASE local.which = "verdict-log"
    BY <2>1, <2>5 DEF ViewsFollow, Follows, LogFollows
  <2>6. CASE local.which \notin Viewed
    BY <2>6 DEF ViewsFollow, Viewed
  <2>. QED BY <2>2, <2>3, <2>4, <2>5, <2>6 DEF Viewed
<1>. QED BY <1>1, HistoriesHoldAlways, PTL

\* The runner of cli/src/conform.rs: from its own reading of a history it answers
\* every command as the decider that lived it does, with any number of events and
\* whatever events other deciders recorded between them.
THEOREM ConformAnswersProved == Spec => []ConformAnswers
<1>1. HistoriesHold => ConformAnswers
  <2>. SUFFICES ASSUME HistoriesHold, loop = "history", NEW c \in Commands(local.which)
                PROVE  Conform(local.which, local.given, c) = Written(Decide(local.which, local.state, c))
    BY DEF ConformAnswers
  <2>1. CASE local.which = "oracle-run"
    <3>1. Decide("oracle-run", Replay(local.which, local.given), c) = Decide("oracle-run", local.state, c)
      BY OracleIsBlind
    <3>. QED BY <2>1, <3>1 DEF Conform
  <2>2. CASE local.which # "oracle-run"
    BY <2>2 DEF Conform, HistoriesHold, HistoryInv
  <2>. QED BY <2>1, <2>2
<1>. QED BY <1>1, HistoriesHoldAlways, PTL

-----------------------------------------------------------------------------
(***************************************************************************)
(* All loops.                                                              *)
(***************************************************************************)

\* The gate passes cells of the graph.
PassHolds == pass \subseteq DOMAIN cells

\* No loop changes its graph or its gate.
LEMMA PassKeeps == (Init => PassHolds) /\ (PassHolds /\ [Next]_vars => PassHolds')
<1>1. Init => PassHolds
  BY DEF Init, PassHolds
<1>2. [Next]_vars => UNCHANGED <<cells, pass>>
  BY DEF vars, Next, WalkTurn, TopoTurn, WorkTurn, BatchTurn, PipeTurn, CommandTurn, RecordedTurn,
         ForeignTurn, Happened
<1>. QED BY <1>1, <1>2 DEF PassHolds

\* Type correctness of every loop: the local variables of each stay within their
\* types and bounds, at every turn.
THEOREM LoopsTyped == Spec => []TypeOK
<1>1. /\ PassHolds /\ WalkInv /\ TopoInv /\ WorksHold /\ BatchesHold /\ PipesHold /\ HistoriesHold
      => TypeOK
  <2>. SUFFICES ASSUME PassHolds, WalkInv, TopoInv, WorksHold, BatchesHold, PipesHold, HistoriesHold
                PROVE  TypeOK
    OBVIOUS
  <2>1. ASSUME loop = "walk"
        PROVE  /\ local.remaining \subseteq DOMAIN cells
               /\ local.ok \subseteq local.known /\ local.known \subseteq Ids
               /\ Len(local.results) + Cardinality(local.remaining) = Len(cells)
               /\ \A k \in DOMAIN local.results : local.results[k].verdict \in {"accepted", "rejected", "skipped"}
    <3>1. WalkTyped(cells, local)
      BY <2>1 DEF WalkInv
    <3>2. local.known \subseteq Ids
      BY <3>1 DEF WalkTyped, IdsOf, Ids
    <3>3. \A k \in DOMAIN local.results : local.results[k] \in Outcomes(cells)
      BY <3>1 DEF WalkTyped
    <3>4. \A k \in DOMAIN local.results : local.results[k].verdict \in {"accepted", "rejected", "skipped"}
      BY <3>3 DEF Outcomes, Verdicts
    <3>. QED BY <3>1, <3>2, <3>4 DEF WalkTyped
  <2>2. loop = "topo" => local.qi \in 0 .. Len(local.queue)
    BY DEF TopoInv, TopoTyped
  <2>3. loop = "work" =>
          /\ local.turn \in 0 .. Len(cells) /\ DOMAIN local.content \subseteq Ids
          /\ \A path \in DOMAIN local.tree : local.tree[path][1] \in DOMAIN cells
    BY DEF WorksHold, WorkInv, Made, Ids
  <2>4. loop = "batch" => local.next \in 0 .. Len(cells)
    BY DEF BatchesHold, BatchInv
  <2>5. ASSUME loop = "pipe"
        PROVE  /\ {local.stdin, local.stdout} \subseteq 0 .. Capacity
               /\ local.kiln \in {"writing", "reading", "ok", "error"} /\ local.unsent \in 0 .. local.call.prompt
    <3>1. PipeInv(local)
      BY <2>5 DEF PipesHold
    <3>2. /\ local.stdin \in 0 .. Capacity /\ local.stdout \in 0 .. Capacity /\ local.unsent \in Nat
          /\ local.kiln \in {"writing", "reading", "ok", "error"} /\ local.call.prompt \in Nat
      BY <3>1 DEF PipeInv, PipeType, CallType
    <3>3. local.call.prompt - local.unsent - local.stdin >= 0
      BY <3>1 DEF PipeInv, ReadBy
    <3>4. local.unsent <= local.call.prompt
      BY <3>2, <3>3, CapacityAssumption
    <3>. QED BY <3>2, <3>4
  <2>6. loop = "history" => local.which \in DeciderNames /\ Len(local.given) \in 0 .. MaxEvents
    BY DEF HistoriesHold, HistoryInv
  <2>. QED BY <2>1, <2>2, <2>3, <2>4, <2>5, <2>6, Zenon DEF TypeOK, PassHolds
<1>2. Spec => []HistoriesHold
  BY HistoriesHoldAlways
<1>3. Init => PassHolds /\ WalkInv /\ TopoInv /\ WorksHold /\ BatchesHold /\ PipesHold
  BY PassKeeps, WalkStarts, TopoStarts, WorkStarts, BatchStarts, PipesStayWhole
<1>4. PassHolds /\ WalkInv /\ TopoInv /\ WorksHold /\ BatchesHold /\ PipesHold /\ [Next]_vars
      => (PassHolds /\ WalkInv /\ TopoInv /\ WorksHold /\ BatchesHold /\ PipesHold)'
  BY PassKeeps, WalkKeeps, TopoKeeps, WorkKeeps, BatchKeeps, PipesStayWhole
<1>. QED BY <1>1, <1>2, <1>3, <1>4, PTL DEF Spec
=============================================================================
