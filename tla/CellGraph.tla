----------------------------- MODULE CellGraph ------------------------------
(***************************************************************************)
(* The two loops that order a sealed cell graph: walk_cells, the in-memory *)
(* walk that gates each cell once its prerequisites are settled, and       *)
(* topo_order, the order in which the production drain calls the worker;   *)
(* and the reduction of cell verdicts to a unit verdict.                   *)
(*                                                                         *)
(* Each loop is a start state and a step, so that a recursive function     *)
(* runs it to the end and a specification can run it one step at a time.   *)
(* A graph is a sequence of cells with an id and a sequence of requires.   *)
(***************************************************************************)
EXTENDS Naturals, Sequences, FiniteSets, SequencesExt, FiniteSetsExt

Prerequisites(c) == ToSet(c.requires)

\* The elements of a set of numbers, in their order.
Ascending(S) ==
  CHOOSE s \in [1 .. Cardinality(S) -> S] :
    ToSet(s) = S /\ \A i, j \in DOMAIN s : i < j => s[i] < s[j]

(***************************************************************************)
(* walk_cells.  remaining: the positions not settled yet; known: the keys  *)
(* of the code's passed map; ok: the keys mapped to true; results: the     *)
(* cell results so far, in the order they were pushed.                     *)
(***************************************************************************)
WalkStart(cells) ==
  [remaining |-> DOMAIN cells, known |-> {}, ok |-> {}, results |-> <<>>]

\* The cells whose prerequisites all have an entry in the passed map.
ReadyCells(cells, w) == {i \in w.remaining : Prerequisites(cells[i]) \subseteq w.known}

\* Seeded bug: a settled cell counts as passed whatever the gate answered.
SettleAsPassed(cells, w, i, v) ==
  LET id == cells[i].id
  IN [remaining |-> w.remaining \ {i},
      known     |-> w.known \cup {id},
      ok        |-> w.ok \cup {id},
      results   |-> Append(w.results, [cell |-> id, verdict |-> v])]

\* Record one cell's outcome: a repeated id overwrites the earlier entry.
Settle(cells, w, i, v) ==
  LET id == cells[i].id
  IN [remaining |-> w.remaining \ {i},
      known     |-> w.known \cup {id},
      ok        |-> IF v = "accepted" THEN w.ok \cup {id} ELSE w.ok \ {id},
      results   |-> Append(w.results, [cell |-> id, verdict |-> v])]

\* Seeded bug: the cells on a cycle get no result at all.
SkipRestSilently(cells, w) ==
  [remaining |-> {},
   known     |-> w.known \cup {cells[i].id : i \in w.remaining},
   ok        |-> w.ok \ {cells[i].id : i \in w.remaining},
   results   |-> w.results]

\* No cell is ready: a cycle, so every cell left is skipped in graph order.
SkipRest(cells, w) ==
  LET rest == Ascending(w.remaining)
  IN [remaining |-> {},
      known     |-> w.known \cup {cells[i].id : i \in w.remaining},
      ok        |-> w.ok \ {cells[i].id : i \in w.remaining},
      results   |-> w.results \o [k \in DOMAIN rest |-> [cell |-> cells[rest[k]].id, verdict |-> "skipped"]]]

\* One turn of the loop; pass holds the positions the oracle's gate passes.
WalkStep(cells, pass, w) ==
  LET ready == ReadyCells(cells, w)
      i     == Min(ready)
      open  == Prerequisites(cells[i]) \subseteq w.ok
      v     == IF open /\ i \in pass THEN "accepted"
               ELSE IF open THEN "rejected" ELSE "skipped"
  IN  IF ready = {} THEN SkipRest(cells, w) ELSE Settle(cells, w, i, v)

\* The loop run to its end: every turn settles a cell, so Len(cells) turns do.
WalkCells(cells, pass) ==
  LET w[n \in 0 .. Len(cells)] ==
        IF n = 0 THEN WalkStart(cells)
        ELSE IF w[n - 1].remaining = {} THEN w[n - 1]
        ELSE WalkStep(cells, pass, w[n - 1])
  IN  w[Len(cells)].results

(***************************************************************************)
(* topo_order (Kahn's algorithm).  indeg: the code's in-degree counters;   *)
(* queue: the positions whose counter reached zero; qi: how many of them   *)
(* were popped.  A repeated id resolves to its last position.              *)
(***************************************************************************)
PositionOf(cells, id) == Max({i \in DOMAIN cells : cells[i].id = id})

\* Seeded bug: the counter only tells whether there is a prerequisite.
InDegreeFlag(cells, i) ==
  IF \E j \in DOMAIN cells : cells[j].id \in Prerequisites(cells[i]) THEN 1 ELSE 0

\* The counter counts edges: a prerequisite named twice counts twice.
InDegree(cells, i) ==
  LET ids == {cells[j].id : j \in DOMAIN cells}
  IN  Cardinality({k \in DOMAIN cells[i].requires : cells[i].requires[k] \in ids})

\* Seeded bug: the edge is matched by id, so every cell of a repeated id counts.
DependentsById(cells, i) ==
  {j \in DOMAIN cells : cells[i].id \in Prerequisites(cells[j])}

\* The cells with an edge to position i: decremented once each, however many.
Dependents(cells, i) ==
  {j \in DOMAIN cells : \E id \in Prerequisites(cells[j]) :
      /\ \E k \in DOMAIN cells : cells[k].id = id
      /\ PositionOf(cells, id) = i}

TopoStart(cells) ==
  LET indeg == [i \in DOMAIN cells |-> InDegree(cells, i)]
  IN  [indeg |-> indeg, queue |-> Ascending({i \in DOMAIN cells : indeg[i] = 0}), qi |-> 0]

TopoStep(cells, t) ==
  LET deps  == Dependents(cells, t.queue[t.qi + 1])
      freed == Ascending({j \in deps : t.indeg[j] = 1})
  IN  [indeg |-> [j \in DOMAIN cells |-> IF j \in deps THEN t.indeg[j] - 1 ELSE t.indeg[j]],
       queue |-> t.queue \o freed,
       qi    |-> t.qi + 1]

\* The popped cells, then whatever was never freed, in graph order.
TopoEnd(cells, t) == t.queue \o Ascending(DOMAIN cells \ ToSet(t.queue))

TopoOrder(cells) ==
  LET t[n \in 0 .. Len(cells)] ==
        IF n = 0 THEN TopoStart(cells)
        ELSE IF t[n - 1].qi = Len(t[n - 1].queue) THEN t[n - 1]
        ELSE TopoStep(cells, t[n - 1])
  IN  TopoEnd(cells, t[Len(cells)])

(***************************************************************************)
(* reduce_verdict and consequence_of.  The reduction of no results is      *)
(* accepted, and nothing here ever reduces to rejected.                    *)
(***************************************************************************)
ReduceVerdict(results) ==
  IF \A i \in DOMAIN results : results[i].verdict = "accepted" THEN "accepted" ELSE "escalate"

\* Seeded bug: a unit the box cannot cover is bound to a retry.
RetryNotAdmitted(verdict) ==
  CASE verdict = "accepted"     -> "advance"
    [] verdict = "rejected"     -> "halt"
    [] verdict = "escalate"     -> "escalate"
    [] verdict = "not-admitted" -> "retry"

ConsequenceOf(verdict) ==
  CASE verdict = "accepted"     -> "advance"
    [] verdict = "rejected"     -> "halt"
    [] verdict = "escalate"     -> "escalate"
    [] verdict = "not-admitted" -> "halt"
=============================================================================
