------------------------------ MODULE MCServe ------------------------------
(***************************************************************************)
(* Small instances of Serve.                                               *)
(***************************************************************************)
EXTENDS Serve

Coder == [provider |-> "local", model |-> "coder", revision |-> "", quantization |-> "q4", params |-> ""]
Big   == [Coder EXCEPT !.model = "big"]

Cell(id, binding) ==
  [id |-> id, binding |-> binding, requires |-> <<>>, refs |-> {}, executable |-> TRUE,
   shape |-> "", gate |-> ""]

InlineDelivery == [mode |-> "inline"]

Repository(method, branch) ==
  [mode |-> "repository", scheme |-> "https", method |-> method, host |-> "github.com",
   base |-> "main", branch |-> branch]

Unit(ref, cells, binding, delivery) ==
  [ref |-> ref, hash |-> ref, binding |-> binding, cells |-> cells, pool |-> {},
   delivery |-> delivery, ladder |-> 0, tier |-> "light", grant |-> TRUE]

One == <<Cell("a", Coder)>>

Edit      == Unit("edit/1", One, Coder, InlineDelivery)
Fix       == Unit("edit.1", One, Coder, InlineDelivery)
Land      == Unit("land.1", One, Coder, Repository("pull-request", ""))
Push      == Unit("edit 1", One, Coder, Repository("push-branch", "main"))
Uncovered == Unit("uncovered", <<Cell("a", Big)>>, Big, InlineDelivery)
Twin      == Unit("land_1", One, Coder, Repository("pull-request", ""))
Wide      == Unit("wide", <<Cell("a", Coder), Cell("b", Coder)>>, Coder, Repository("pull-request", ""))
Double    == Unit("double", <<Cell("a", Coder), Cell("a", Coder)>>, Coder, InlineDelivery)
Empty     == Unit("empty", <<>>, Coder, InlineDelivery)

\* Edit, Fix and Push have one sanitized name; Push lands on Land's base.
MCUnits == {Edit, Fix, Land, Push, Uncovered}

\* Land and Twin have one branch, and Wide its own.  Wide has two cells, Double
\* two with one id, and Empty none.
MoreUnits == {Land, Twin, Wide, Double, Empty}
OnlyEdit == {Edit}

MCSafeName ==
  [r \in {u.ref : u \in Units} |->
     IF r \in {"edit/1", "edit.1", "edit 1"} THEN "edit_1" ELSE IF r = "land.1" THEN "land_1" ELSE r]

\* A / is kept: edit/1 has a directory in common with edit.1, but no branch.
MCSafeBranch ==
  [r \in {u.ref : u \in Units} |->
     CASE r = "edit/1"                 -> "kiln/edit/1"
       [] r \in {"edit.1", "edit 1"}   -> "kiln/edit_1"
       [] r \in {"land.1", "land_1"}   -> "kiln/land_1"
       [] OTHER                        -> "kiln/" \o r]

MCManifest ==
  [bindings |-> {Coder}, modes |-> {"inline", "repository"}, schemes |-> {"https"},
   methods |-> {"pull-request", "push-branch"}, forges |-> {"github.com"}, shapes |-> {}, gates |-> {}]
=============================================================================
