----------------------------- MODULE MCCellLoops -----------------------------
(***************************************************************************)
(* Small sets of cell graphs.  Requires names cells of the graph, as       *)
(* validate demands; ids and edges may repeat, as validate allows.         *)
(***************************************************************************)
EXTENDS CellLoops

GraphsOver(ids, requires) ==
  {[i \in DOMAIN ids |-> [id |-> ids[i], requires |-> r[i]]] : r \in [DOMAIN ids -> requires]}

\* No edge, one edge, two edges, and the same edge twice.
Triples == GraphsOver(<<"a", "b", "c">>,
             {<<>>, <<"a">>, <<"b">>, <<"c">>, <<"a", "b">>, <<"b", "c">>, <<"b", "b">>})

Repeated == UNION {GraphsOver(ids, {<<>>, <<"a">>, <<"b">>, <<"b", "a">>, <<"a", "a">>}) :
                     ids \in {<<"a", "a", "b">>, <<"a", "b", "a">>}}

MCGraphs == {<<>>} \cup Triples \cup Repeated

\* A chain listed backwards, a fork, a cycle with a dependent, a repeated edge
\* and a repeated id, each with every choice of paths: its own, or one of two.
Shapes ==
  {<<[id |-> "a", requires |-> <<"b">>], [id |-> "b", requires |-> <<"c">>], [id |-> "c", requires |-> <<>>]>>,
   <<[id |-> "a", requires |-> <<"b", "c">>], [id |-> "b", requires |-> <<>>], [id |-> "c", requires |-> <<>>]>>,
   <<[id |-> "a", requires |-> <<"b">>], [id |-> "b", requires |-> <<"a">>], [id |-> "c", requires |-> <<"a">>]>>,
   <<[id |-> "a", requires |-> <<"c">>], [id |-> "c", requires |-> <<"b", "b">>], [id |-> "b", requires |-> <<>>]>>,
   <<[id |-> "a", requires |-> <<>>], [id |-> "a", requires |-> <<>>], [id |-> "b", requires |-> <<"a">>]>>}

MCWorkGraphs ==
  {<<>>} \cup
  {[i \in 1 .. 3 |-> [id |-> s[i].id, requires |-> s[i].requires, path |-> p[i]]] :
     s \in Shapes, p \in [1 .. 3 -> {"", "x"}]}

Binding(model, revision, params) ==
  [provider |-> "local", model |-> model, revision |-> revision, quantization |-> "q4", params |-> params]

\* Every frontier of up to four cells over four bindings that differ in the
\* model, the revision or the parameters.
Bindings == {Binding("coder", "", ""), Binding("coder", "r2", ""), Binding("coder", "", "hot"), Binding("big", "", "")}

MCFrontiers == {[i \in DOMAIN f |-> [binding |-> f[i]]] : f \in UNION {[1 .. n -> Bindings] : n \in 0 .. 4}}

Answer(status, content, reasoning) == [status |-> status, content |-> content, reasoning |-> reasoning]

\* A dead server, an answer with nothing in it, an answer in a fence, an empty
\* fence, and a reasoning model that ran out of tokens.
MCResponses ==
  {Answer("none", "", ""), Answer("200", "", ""), Answer("200", "fenced-code", ""),
   Answer("200", "fenced-blank", ""), Answer("200", "", "thoughts")}

C(command, with) == [command |-> command, with |-> with]

Guards(command) == {C(command, TRUE), C(command, FALSE)}

\* Every command of every decider, with every payload its guard tells apart.
MCCommands(which) ==
  LET modes == {"off", "queue", "explorer"}
  IN  CASE which = "box" -> {C("ThrowSwitch", m) : m \in modes}
        [] which = "work-unit" ->
             {C("Admit", "homogeneous"), C("Admit", "mixed"), C("Reprioritize", 0)} \cup {C("Escalate", n) : n \in 0 .. 2}
        [] which = "execution-run" ->
             {C("Admit", m) : m \in modes} \cup {C("ComputeVerdict", 0), C("Emit", 0)}
        [] which = "exploration-session" ->
             {C("Start", m) : m \in modes} \cup {C("ProduceDiscoveryRecord", 0)}
        [] which = "resident-set" -> Guards("Load") \cup {C("Evict", 0)}
        [] which = "work-batch" ->
             {C("Form", f) : f \in {"homogeneous", "mixed", "empty"}} \cup {C("Dispatch", 0)}
        [] which = "sandbox" -> Guards("Provision") \cup {C("Teardown", 0)}
        [] which = "credential-lease" -> Guards("Exchange") \cup {C("Revoke", 0)}
        [] which = "verdict-log" -> Guards("Append") \cup {C("Reconcile", 0)}
        [] which = "oracle-run" -> Guards("RunGate")
        [] which = "serving-host" -> Guards("Launch") \cup {C("ConfirmReady", 0), C("Retire", 0)}

MCRecorded(which) == IF which = "work-unit" THEN {"Rejected", "Halted"} ELSE {}

\* Commands that read it all first, filters, and commands that do not read,
\* with prompts and outputs up to three times what a pipe holds.
MCCalls ==
  [prompt : {1, 2, 3, 6}, banner : {0, 2, 3}, echoes : BOOLEAN, reads : BOOLEAN,
   answer : {0, 1, 3, 5}, fails : BOOLEAN]
=============================================================================
