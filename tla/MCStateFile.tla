---------------------------- MODULE MCStateFile ----------------------------
(***************************************************************************)
(* A small instance of StateFile: a unit that passes, one whose cells wait *)
(* on each other, one that only the newer build covers, and one that does  *)
(* not validate.                                                           *)
(***************************************************************************)
EXTENDS StateFile

Coder == [provider |-> "local", model |-> "coder", revision |-> "", quantization |-> "q4", params |-> ""]
Big   == [Coder EXCEPT !.model = "big"]

Cell(id, binding, requires) ==
  [id |-> id, binding |-> binding, requires |-> requires, refs |-> {}, executable |-> TRUE,
   shape |-> "", gate |-> "", path |-> ""]

Unit(ref, binding, cells) ==
  [ref |-> ref, hash |-> ref, binding |-> binding, cells |-> cells, pool |-> {},
   delivery |-> [mode |-> "inline"], ladder |-> 0, tier |-> "light", grant |-> FALSE]

Cyclic == Unit("cyclic", Coder, <<Cell("a", Coder, <<"b">>), Cell("b", Coder, <<"a">>)>>)
Large  == Unit("large", Big, <<Cell("a", Big, <<>>)>>)
Mixed  == Unit("mixed", Coder, <<Cell("a", Big, <<>>)>>)

MCUnits == {Cyclic, Large, Mixed}

Older ==
  [bindings |-> {Coder}, modes |-> {"inline"}, schemes |-> {}, methods |-> {}, forges |-> {},
   shapes |-> {}, gates |-> {}]
Newer == [Older EXCEPT !.bindings = {Coder, Big}]

MCManifests == {Older, Newer}
=============================================================================
