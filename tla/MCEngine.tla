------------------------------ MODULE MCEngine ------------------------------
(***************************************************************************)
(* Small instances of Engine: units that between them take every branch of *)
(* admission, the walk and the ladder.                                     *)
(***************************************************************************)
EXTENDS Engine

Coder == [provider |-> "local", model |-> "coder", revision |-> "", quantization |-> "q4", params |-> ""]
Hot   == [Coder EXCEPT !.params = "temperature=1"]
Big   == [Coder EXCEPT !.model = "big"]

Cell(id, requires) ==
  [id |-> id, binding |-> Coder, requires |-> requires, refs |-> {}, executable |-> TRUE,
   shape |-> "", gate |-> ""]

Unit(ref, cells) ==
  [ref |-> ref, hash |-> ref, binding |-> Coder, cells |-> cells, pool |-> {},
   delivery |-> [mode |-> "inline"], ladder |-> 0, tier |-> "light", grant |-> FALSE]

Cyclic  == Unit("cyclic", <<Cell("a", <<"a">>)>>)
Empty   == [Unit("empty", <<>>) EXCEPT !.ladder = 1, !.tier = "heavy"]
Single  == Unit("single", <<Cell("c", <<>>)>>)
Uncovered == [Unit("uncovered", <<[Cell("c", <<>>) EXCEPT !.binding = Big]>>) EXCEPT !.binding = Big]
Mixed   == Unit("mixed", <<[Cell("c", <<>>) EXCEPT !.binding = Hot]>>)
Dangling == Unit("dangling", <<Cell("c", <<"elsewhere">>)>>)
Unresolved == Unit("unresolved", <<[Cell("c", <<>>) EXCEPT !.refs = {"fragment"}]>>)
Blank   == Unit("blank", <<[Cell("c", <<>>) EXCEPT !.executable = FALSE]>>)

MCUnits == {Single, Cyclic, Empty, Uncovered, Mixed, Dangling, Unresolved, Blank}

MCManifests ==
  {[bindings |-> {Coder}, modes |-> {"inline"}, schemes |-> {}, methods |-> {}, forges |-> {},
    shapes |-> {}, gates |-> {}]}
=============================================================================
