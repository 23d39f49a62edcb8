------------------------------ MODULE WorkUnit ------------------------------
(***************************************************************************)
(* The frozen WorkUnit and the CapabilityManifest of kiln's interface      *)
(* crate: structural validation at admission, and the distance between     *)
(* what a unit requires and what a box declares.                           *)
(*                                                                         *)
(* A unit is a record with the fields of the code's WorkUnit that change   *)
(* what the executor does:                                                 *)
(*   ref, hash      unit_ref and bundle_hash                               *)
(*   binding        the pinned model binding                               *)
(*   cells          the cell graph, a sequence of cells                    *)
(*   pool           the ids of the context fragments                       *)
(*   delivery       inline, or a repository with scheme, method and host   *)
(*   ladder, tier   the starting ladder position and tier, off the wire    *)
(*   grant          whether the unit names a credential grant              *)
(* A cell has id, binding, requires (a sequence of cell ids), refs (the    *)
(* context fragments it selects), executable (a non-blank prompt and a     *)
(* non-null schema), shape and gate ("" when it declares none).            *)
(***************************************************************************)
EXTENDS Naturals, Sequences, SequencesExt, FiniteSetsExt

\* ModelBinding::key: what homogeneity compares.  The revision is not in it.
BindingKey(b) == <<b.provider, b.model, b.quantization, b.params>>

\* ModelBinding::capability_id: what a manifest is matched on.  Neither the
\* revision nor the invocation parameters are in it.
BindingCapability(b) == <<"binding", b.provider, b.model, b.quantization>>

CellIds(cells) == {cells[i].id : i \in DOMAIN cells}

Homogeneous(u) ==
  \A i \in DOMAIN u.cells : BindingKey(u.cells[i].binding) = BindingKey(u.binding)

\* The first thing wrong with one cell, in the order validate looks.
CellDefect(u, c) ==
  IF ~ ToSet(c.requires) \subseteq CellIds(u.cells) THEN "inv-cross-unit-edge"
  ELSE IF ~ c.refs \subseteq u.pool THEN "inv-unresolved-context-ref"
  ELSE IF ~ c.executable THEN "inv-cell-unexecutable"
  ELSE "ok"

\* WorkUnit::validate: "ok", or the invariant of the first violation.  An
\* empty cell graph, a dependency cycle, a repeated cell id and a repeated
\* requires edge all pass.
Validate(u) ==
  LET bad == {i \in DOMAIN u.cells : CellDefect(u, u.cells[i]) # "ok"}
  IN  IF ~ Homogeneous(u) THEN "inv-binding-homogeneity"
      ELSE IF bad = {} THEN "ok"
      ELSE CellDefect(u, u.cells[Min(bad)])

\* What the declared transport asks of a box; a file:// repository has no host.
DeliveryRequirements(d) ==
  IF d.mode = "inline" THEN {<<"delivery", "inline">>}
  ELSE {<<"delivery", "repository">>, <<"url-scheme", d.scheme>>, <<"integration", d.method>>}
       \cup (IF d.host = "" THEN {} ELSE {<<"forge", d.host>>})

Requirements(u) ==
  {BindingCapability(u.binding)}
  \cup DeliveryRequirements(u.delivery)
  \cup {<<"shape-language", l>> : l \in {u.cells[i].shape : i \in DOMAIN u.cells} \ {""}}
  \cup {<<"gate", k>> : k \in {u.cells[i].gate : i \in DOMAIN u.cells} \ {""}}

\* CapabilityManifest::capability_ids over the normative capabilities.
CapabilityIds(m) ==
  {BindingCapability(b) : b \in m.bindings}
  \cup {<<"delivery", x>> : x \in m.modes}
  \cup {<<"url-scheme", x>> : x \in m.schemes}
  \cup {<<"integration", x>> : x \in m.methods}
  \cup {<<"forge", x>> : x \in m.forges}
  \cup {<<"shape-language", x>> : x \in m.shapes}
  \cup {<<"gate", x>> : x \in m.gates}

\* The distance: requirements(unit) - capabilities(box).
MissingFor(m, u) == Requirements(u) \ CapabilityIds(m)
=============================================================================
