------------------------------ MODULE CellLoops ------------------------------
(***************************************************************************)
(* The program's sequential loops, one turn at a time: walk_cells with any *)
(* answer of the oracle's gate, topo_order, the worker loop of the         *)
(* production drain with any response of the model server, and             *)
(* schedule_batches, each on any graph of a given set; a call of a worker  *)
(* command through its pipes; and any sequence of commands to a decider,   *)
(* replayed by the conformance runner.  Each is compared with what its     *)
(* result should be.                                                       *)
(***************************************************************************)
EXTENDS Production, Deciders, WorkerPipes

CONSTANTS
  Graphs,      \* cell graphs for walk and topo: sequences of [id, requires]
  WorkGraphs,  \* for the worker loop: cells also have a path
  Frontiers,   \* for the scheduler: sequences of cells with a binding
  Responses,   \* what may come back from the model server
  Calls,       \* the calls of a worker command
  Commands(_), \* the commands a decider may be sent
  Recorded(_), \* the events recorded for a decider that it does not emit
  MaxEvents    \* events in a history

ASSUME MaxEventsAssumption == MaxEvents \in Nat

\* A graph is a sequence of cells, and requires names cells of the graph: the
\* drain and the walk run on units that validate has let in.
ASSUME GraphsAssumption ==
  \A g \in Graphs \cup WorkGraphs :
    g \in Seq(ToSet(g)) /\ \A i \in DOMAIN g : g[i].requires \in Seq(CellIds(g))

ASSUME FrontiersAssumption == \A f \in Frontiers : f \in Seq(ToSet(f))

ASSUME CallsAssumption ==
  Calls \subseteq [prompt : Nat, banner : Nat, echoes : BOOLEAN, reads : BOOLEAN,
                  answer : Nat, fails : BOOLEAN]

\* A decider is sent its own commands, and an event it does not emit is recorded
\* for a work unit only, by the queue.
ASSUME CommandsAssumption ==
  \A which \in DeciderNames : \A c \in Commands(which) : c.command \in CommandNames(which)

ASSUME RecordedAssumption ==
  \A which \in DeciderNames :
    Recorded(which) \subseteq (IF which = "work-unit" THEN {"Rejected", "Halted"} ELSE {})

VARIABLES
  cells,   \* the graph
  loop,    \* which of the loops runs
  pass,    \* the positions the oracle's gate passes
  local    \* the loop's local variables

vars == <<cells, loop, pass, local>>

Init ==
  \/ /\ cells \in Graphs
     /\ loop = "walk" /\ pass \in SUBSET DOMAIN cells /\ local = WalkStart(cells)
  \/ /\ cells \in Graphs
     /\ loop = "topo" /\ pass = {} /\ local = TopoStart(cells)
  \/ /\ cells \in WorkGraphs
     /\ loop = "work" /\ pass = {} /\ local = WorkStart(cells)
  \/ /\ cells \in Frontiers
     /\ loop = "batch" /\ pass = {} /\ local = BatchStart
  \/ /\ cells = <<>> /\ loop = "pipe" /\ pass = {}
     /\ \E call \in Calls : local = PipeStart(call)
  \/ /\ cells = <<>> /\ loop = "history" /\ pass = {}
     /\ \E which \in DeciderNames :
          local = [which |-> which, state |-> Default(which), view |-> 0, given |-> <<>>]

WalkTurn ==
  /\ loop = "walk"
  /\ local.remaining # {}
  /\ local' = WalkStep(cells, pass, local)
  /\ UNCHANGED <<cells, loop, pass>>

TopoTurn ==
  /\ loop = "topo"
  /\ local.qi < Len(local.queue)
  /\ local' = TopoStep(cells, local)
  /\ UNCHANGED <<cells, loop, pass>>

\* One cell: the model server answers, or does not, and the file is written,
\* or is not.
WorkTurn ==
  /\ loop = "work"
  /\ local.turn < Len(cells)
  /\ \E response \in Responses, writes \in BOOLEAN :
        local' = WorkStep(cells, response, writes, local)
  /\ UNCHANGED <<cells, loop, pass>>

BatchTurn ==
  /\ loop = "batch"
  /\ local.next < Len(cells)
  /\ local' = BatchStep(cells, local)
  /\ UNCHANGED <<cells, loop, pass>>

PipeTurn ==
  /\ loop = "pipe"
  /\ local' \in PipeSteps(local)
  /\ UNCHANGED <<cells, loop, pass>>

\* An event is folded into the state and the view, and written to the history.
Happened(event, id) ==
  /\ Len(local.given) < MaxEvents
  /\ local' = [local EXCEPT !.state = Evolve(local.which, @, event),
                            !.view  = Project(@, event.event),
                            !.given = Append(@, [id |-> id, with |-> event.with])]
  /\ UNCHANGED <<cells, loop, pass>>

CommandTurn ==
  /\ loop = "history"
  /\ \E c \in Commands(local.which) :
       LET answer == Decide(local.which, local.state, c)
       IN  answer.reject = "" /\ Happened(answer.emit, EventId(answer.emit.event))

\* The queue itself rejects or halts a unit.
RecordedTurn ==
  /\ loop = "history"
  /\ \E e \in Recorded(local.which) : Happened([event |-> e, with |-> "nothing"], EventId(e))

\* The history may hold events of the other deciders.
ForeignTurn ==
  /\ loop = "history"
  /\ Len(local.given) < MaxEvents
  /\ local' = [local EXCEPT !.given = Append(@, [id |-> "another-event", with |-> "nothing"])]
  /\ UNCHANGED <<cells, loop, pass>>

Next ==
  \/ WalkTurn \/ TopoTurn \/ WorkTurn \/ BatchTurn \/ PipeTurn
  \/ CommandTurn \/ RecordedTurn \/ ForeignTurn

Spec == Init /\ [][Next]_vars

-----------------------------------------------------------------------------
Ids == {cells[i].id : i \in DOMAIN cells}

WalkDone == loop = "walk" /\ local.remaining = {}
TopoDone == loop = "topo" /\ local.qi = Len(local.queue)
WorkDone == loop = "work" /\ local.turn = Len(cells)
BatchDone == loop = "batch" /\ local.next = Len(cells)

DistinctIds == \A i, j \in DOMAIN cells : cells[i].id = cells[j].id => i = j

NoRepeats == \A i \in DOMAIN cells : Cardinality(Prerequisites(cells[i])) = Len(cells[i].requires)

\* The positions that become settled when prerequisites settle first, starting
\* from nothing: all of them if and only if the graph has no cycle.
Grounded ==
  LET g[n \in 0 .. Len(cells)] ==
        IF n = 0 THEN {}
        ELSE {i \in DOMAIN cells :
                Prerequisites(cells[i]) \subseteq {cells[j].id : j \in g[n - 1]}}
  IN  g[Len(cells)]

\* The positions a gate can accept: it passes them, and accepts what they require.
Acceptable ==
  LET g[n \in 0 .. Len(cells)] ==
        IF n = 0 THEN {}
        ELSE {i \in pass : Prerequisites(cells[i]) \subseteq {cells[j].id : j \in g[n - 1]}}
  IN  g[Len(cells)]

\* The type invariant, and every settled cell has one result.
TypeOK ==
  /\ pass \subseteq DOMAIN cells
  /\ loop = "walk" =>
       /\ local.remaining \subseteq DOMAIN cells
       /\ local.ok \subseteq local.known /\ local.known \subseteq Ids
       /\ Len(local.results) + Cardinality(local.remaining) = Len(cells)
       /\ \A k \in DOMAIN local.results : local.results[k].verdict \in {"accepted", "rejected", "skipped"}
  /\ loop = "topo" => local.qi \in 0 .. Len(local.queue)
  /\ loop = "work" =>
       /\ local.turn \in 0 .. Len(cells) /\ DOMAIN local.content \subseteq Ids
       /\ \A path \in DOMAIN local.tree : local.tree[path][1] \in DOMAIN cells
  /\ loop = "batch" => local.next \in 0 .. Len(cells)
  /\ loop = "pipe" =>
       /\ {local.stdin, local.stdout} \subseteq 0 .. Capacity
       /\ local.kiln \in {"writing", "reading", "ok", "error"} /\ local.unsent \in 0 .. local.call.prompt
  /\ loop = "history" => local.which \in DeciderNames /\ Len(local.given) \in 0 .. MaxEvents

\* The walk settles every cell once, and accepts exactly the cells that a gate
\* can accept, whatever order the graph lists them in: a failed cell, or a
\* cycle, blocks everything that depends on it and nothing else.  A cell is
\* skipped exactly when something it depends on was not accepted: the oracle
\* never runs on a cell whose prerequisites failed.
WalkIsExact ==
  WalkDone /\ DistinctIds =>
    /\ Len(local.results) = Len(cells)
    /\ {local.results[k].cell : k \in DOMAIN local.results} = Ids
    /\ {cells[i].id : i \in Acceptable}
         = {local.results[k].cell : k \in {n \in DOMAIN local.results : local.results[n].verdict = "accepted"}}
    /\ \A i \in DOMAIN cells : \A k \in DOMAIN local.results : local.results[k].cell = cells[i].id =>
         (local.results[k].verdict = "skipped"
            <=> ~ Prerequisites(cells[i]) \subseteq {cells[j].id : j \in Acceptable})

\* The in-degree counters, unsigned in the code, are never decremented below
\* zero, whatever the graph repeats: a decrement for each popped cell that some
\* counted edge names.
NoUnderflow ==
  loop = "topo" => \A j \in DOMAIN cells : local.indeg[j] \in 0 .. Len(cells[j].requires)

InOrder(order) ==
  \A k \in DOMAIN order : \A d \in Prerequisites(cells[order[k]]) :
    \E l \in 1 .. k - 1 : cells[order[l]].id = d

\* executor/src/lib.rs, topo_order: every cell is processed exactly once, in
\* any graph the admission lets in, and in a dependency order: the cells that no
\* cycle blocks come in that order and before the others, so the worker sees
\* every artifact it builds on, unless some cell lists a prerequisite twice: its
\* counter counts edges, and it is never freed.
TopoOrdersCells ==
  TopoDone =>
    LET order == TopoEnd(cells, local)
    IN  /\ Len(order) = Len(cells) /\ ToSet(order) = DOMAIN cells
        /\ DistinctIds /\ NoRepeats => ToSet(local.queue) = Grounded /\ InOrder(local.queue)

\* What the drain accepts when the oracle's command passes.
WorkPassed == WorkDone /\ Passed(cells, DOMAIN local.content, TRUE)

\* executor/src/lib.rs, step 4: a unit passes only if every cell produced
\* content, and the check runs against the artifacts the verdict reports.
\* Whichever calls fail and however ids and edges repeat, each result of a unit
\* that passes carries the answer its own cell got: nothing is missing, and
\* nothing was overwritten by a cell of the same id.  The file at the cell's
\* path is that answer too, unless two cells write to one path or a write
\* failed, neither of which the code notices.
PassedIsWhole ==
  LET distinctPaths == \A i, j \in DOMAIN cells : OutputPath(cells[i]) = OutputPath(cells[j]) => i = j
  IN  WorkPassed => \A i \in DOMAIN cells :
        LET c == cells[i]
        IN  /\ c.id \in DOMAIN local.content /\ local.content[c.id][1] = i
            /\ distinctPaths /\ ~ local.unwritten =>
                 OutputPath(c) \in DOMAIN local.tree /\ local.tree[OutputPath(c)] = local.content[c.id]

\* executor/src/lib.rs, step 3: a cell is fed its prerequisites' artifacts, so
\* an impl sees the test it must satisfy.  The prompt of a cell that no cycle
\* blocks quotes the artifact of every prerequisite that was answered, and no
\* other, unless some cell lists a prerequisite twice.
PromptsQuotePrerequisites ==
  WorkDone /\ DistinctIds /\ NoRepeats =>
    \A i \in Grounded :
      local.prompts[i] = {local.content[d] : d \in Prerequisites(cells[i]) \cap DOMAIN local.content}

\* serving/src/lib.rs, schedule_batches: the batches are homogeneous and not
\* empty, and every ready cell is in exactly one, in the order it became ready.
\* Cells that differ only in the revision share a batch, and its binding is
\* the first one's.
BatchesPartition ==
  BatchDone =>
    LET batch == local.batches
    IN  /\ \A key \in DOMAIN batch :
             /\ batch[key].cells # <<>>
             /\ batch[key].cells = Ascending(ToSet(batch[key].cells))
             /\ \A i \in ToSet(batch[key].cells) :
                  BindingKey(cells[i].binding) = BindingKey(batch[key].binding)
        /\ \A i \in DOMAIN cells :
             \E key \in DOMAIN batch : \A other \in DOMAIN batch :
               i \in ToSet(batch[other].cells) <=> other = key

\* serving/src/lib.rs, CommandWorker: kiln reads nothing until the whole prompt
\* is written.  The call returns, whatever the command is like, unless before
\* it has read a prompt that does not fit in a pipe the command writes more than
\* fits in one: then kiln and the command wait for each other for ever.  An Ok
\* is all the command wrote, and the command says it succeeded; an error is a
\* command that failed or did not read its prompt.
CallReturns ==
  loop = "pipe" =>
    /\ PipeSteps(local) = {} =>
         \/ local.kiln \in {"ok", "error"}
         \/ local.call.prompt > Capacity /\ EarlyOutput(local.call) > Capacity
    /\ local.kiln = "ok" => local.received = Output(local.call) /\ ~ local.call.fails
    /\ local.kiln = "error" => local.call.fails \/ ~ local.call.reads

\* cli/src/conform.rs: the runner replays the realised deciders.  Whatever
\* history it is given, its own readings of the event ids lead it to the answer
\* the decider that lived that history gives, to every command.
ConformAnswers ==
  loop = "history" =>
    \A c \in Commands(local.which) :
      Conform(local.which, local.given, c) = Written(Decide(local.which, local.state, c))

\* The views run beside the deciders, each with its own count.  A live host is
\* counted exactly, "0 or 1 by inv-single-serving-host" (host/src/lib.rs); the
\* others are never below the truth, and only drift above it: a residency or a
\* sandbox opened twice is counted twice and closed once, and one reconcile
\* settles all that is pending but takes one off the backlog.
ViewsFollow ==
  loop = "history" =>
    CASE local.which = "serving-host" ->
           local.view = (IF local.state \in {"launching", "ready"} THEN 1 ELSE 0)
      [] local.which = "resident-set" -> local.view >= (IF local.state THEN 1 ELSE 0)
      [] local.which = "sandbox"      -> local.view >= (IF local.state = "provisioned" THEN 1 ELSE 0)
      [] local.which = "verdict-log"  -> local.view >= local.state
      [] OTHER                        -> TRUE
=============================================================================
