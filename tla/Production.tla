----------------------------- MODULE Production -----------------------------
(***************************************************************************)
(* Step 3 of the production drain, and the seam below it: the loop that    *)
(* calls the worker on one cell after the other, what a served model's     *)
(* answer becomes, which results the cells get, and the scheduler that     *)
(* groups cells by binding.  As in CellGraph, a loop is a start and a step.*)
(* An artifact is the position of the cell it was produced for and what    *)
(* its text amounts to: code, thoughts or blank.                           *)
(***************************************************************************)
EXTENDS CellGraph, WorkUnit

(***************************************************************************)
(* A response is what came back over the connection: status is 200, other, *)
(* none (no connection, or it broke) or garbled (not JSON); content and    *)
(* reasoning are the message's two fields, "" when null or missing.        *)
(***************************************************************************)

\* http_post_json: the body, if the server's answer to the end says 200.
PostJson(response) ==
  IF response.status \in {"none", "other"} THEN "error" ELSE "body"

\* OpenAiWorker::invoke: the content, else the reasoning, else an error.
Invoke(response) ==
  IF PostJson(response) = "error" \/ response.status = "garbled" THEN "error"
  ELSE IF response.content # "" THEN response.content
  ELSE IF response.reasoning # "" THEN response.reasoning
  ELSE "error"

\* strip_code_fences: the body of the first fence, which may hold nothing.
StripCodeFences(text) ==
  CASE text = "fenced-code"  -> "code"
    [] text = "fenced-blank" -> "blank"
    [] OTHER                 -> text

\* artifact_id_and_path: a cell without a path writes a file named for its id
\* (here the id itself).
OutputPath(c) == IF c.path = "" THEN c.id ELSE c.path

\* A map's insert: the entry of the key is replaced, or added.
Insert(map, key, x) == [k \in {key} \cup DOMAIN map |-> IF k = key THEN x ELSE map[k]]

(***************************************************************************)
(* The worker loop.  turn: cells invoked so far; prompts: the artifacts    *)
(* each prompt quoted; content: the code's produced_content, by cell id;   *)
(* tree: the files of the workspace, by path; unwritten: whether a write   *)
(* failed, which the code does not look at (history).                      *)
(***************************************************************************)
WorkStart(cells) ==
  [turn |-> 0, prompts |-> [i \in DOMAIN cells |-> {}], content |-> <<>>, tree |-> <<>>,
   unwritten |-> FALSE]

\* Seeded bug: the prompt quotes whatever the last cell before it produced.
QuotedLast(c, content) ==
  {content[id] : id \in {d \in DOMAIN content : \A e \in DOMAIN content : content[e][1] <= content[d][1]}}

\* build_prompt: the artifacts of the prerequisites that have one by now.
Quoted(c, content) == {content[d] : d \in Prerequisites(c) \cap DOMAIN content}

\* The write replaces the file; that it may fail is not noticed.
WriteFile(tree, path, artifact) == Insert(tree, path, artifact)

\* One turn: a failed call leaves no trace, and the loop goes on.
WorkStep(cells, response, writes, w) ==
  LET i        == TopoOrder(cells)[w.turn + 1]
      c        == cells[i]
      raw      == Invoke(response)
      artifact == <<i, StripCodeFences(raw)>>
      quoting  == [w EXCEPT !.turn = @ + 1, !.prompts[i] = Quoted(c, w.content)]
  IN  IF raw = "error" THEN quoting
      ELSE [quoting EXCEPT
              !.content   = Insert(@, c.id, artifact),
              !.tree      = IF writes THEN WriteFile(@, OutputPath(c), artifact) ELSE @,
              !.unwritten = @ \/ ~ writes]

\* Seeded bug: a cell counts as produced if its id has content.
PassedByKey(cells, produced, oracle) ==
  oracle /\ \A i \in DOMAIN cells : cells[i].id \in produced

\* passed: the oracle, and as many ids with content as there are cells, so a
\* unit in which two cells share an id never passes.
Passed(cells, produced, oracle) == oracle /\ Cardinality(produced) = Len(cells)

\* Seeded bug: one answered cell passes them all.
ResultsByAny(cells, produced, oracle) ==
  [i \in DOMAIN cells |->
    [cell |-> cells[i].id,
     verdict |-> IF oracle /\ produced # {} THEN "accepted" ELSE "rejected"]]

Results(cells, produced, oracle) ==
  [i \in DOMAIN cells |->
    [cell |-> cells[i].id,
     verdict |-> IF Passed(cells, produced, oracle) /\ cells[i].id \in produced
                 THEN "accepted" ELSE "rejected"]]

(***************************************************************************)
(* schedule_batches.  next: cells grouped so far; batches: by binding key, *)
(* the binding of the first cell and the positions in the batch.           *)
(***************************************************************************)
BatchStart == [next |-> 0, batches |-> <<>>]

\* Seeded bug: cells are grouped by the capability a manifest is matched on.
BatchKeyByCapability(c) == BindingCapability(c.binding)

BatchKey(c) == BindingKey(c.binding)

BatchStep(cells, b) ==
  LET i   == b.next + 1
      key == BatchKey(cells[i])
      old == IF key \in DOMAIN b.batches THEN b.batches[key]
             ELSE [binding |-> cells[i].binding, cells |-> <<>>]
  IN  [next    |-> i,
       batches |-> Insert(b.batches, key, [old EXCEPT !.cells = Append(@, i)])]
=============================================================================
