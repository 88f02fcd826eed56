------------------------------ MODULE MCJourney ------------------------------
(***************************************************************************)
(* Two phases.  A monoclinic one, whose a and c GSAS-II cannot hold apart, *)
(* and whose b the recipe holds; a hexagonal one with a cell h = i and an  *)
(* atom whose y is tied to x and stated two cells up, where easydiffraction *)
(* frees y.  The coefficient -2 stands for the -1 of (x, -x, 0), which     *)
(* turns the bounds round, and for the 2 of (x, 2x, 0), which loses a step *)
(* of rounding.  A size s that the recipe may leave out.                   *)
(***************************************************************************)
EXTENDS Journey

MCParam == {"a", "b", "c", "h", "i", "x", "y", "z", "s"}
MCFixed == {"z"}
MCRep == [p \in MCParam |-> CASE p = "y" -> "x" [] p = "i" -> "h" [] OTHER -> p]
MCK == [p \in MCParam |-> IF p = "y" THEN -2 ELSE 1]
MCC == [p \in MCParam |-> IF p = "y" THEN 20 ELSE 0]
MCExact == [p \in MCParam |-> 0]
MCSpecial == [p \in MCParam |-> IF p = "x" THEN {0} ELSE {}]
MCCellGroup == [p \in MCParam |-> CASE p \in {"a", "c"} -> "ac"
                                    [] OTHER -> MCRep[p]]
MCCells == {{"a", "b", "c"}, {"h", "i"}}
MCOff == {{}, UNION MCCells, {"a"}, {"b"}, {"i"}}
MCDefault == [p \in MCParam |-> 3]
MCUnconstrained == [p \in MCParam |-> IF p = "x" THEN {"y"} ELSE {p}]
MCShift == [p \in MCParam |-> IF p = "y" THEN 10 ELSE 0]
MCValues == [p \in MCParam |-> CASE p = "y" -> {12, 14, 15, 18}
                                 [] p = "x" -> {1, 3, 4}
                                 [] OTHER -> {4}]

Unstated == [p \in MCParam |-> NoBound]
With(f, x, y) == [f EXCEPT !["x"] = x, !["y"] = y]
MCBounds ==
    { <<Unstated, Unstated>>,
      <<With(Unstated, 1, 13), With(Unstated, 3, 18)>>,      \* within the tolerance
      <<With(Unstated, NoBound, 14), With(Unstated, 3, NoBound)>>,
      <<Unstated, With(Unstated, 3, 18)>> }                  \* not turned round: refused
MCRawRecipes ==
    { [value |-> [p \in MCParam |-> CASE p = "x" -> 2 [] p = "y" -> v[1] [] p = "z" -> v[2] [] OTHER -> 3],
       flag |-> [p \in MCParam |-> CASE p = "a" -> a [] p = "c" -> c [] p = "x" -> x
                                     [] p = "y" -> t [] p = "z" -> f
                                     [] p \in {"h", "i"} -> h [] OTHER -> FALSE],
       min |-> b[1], max |-> b[2]] :
      v \in {<<16, 0>>, <<15, 1>>, <<18, 0>>, <<16, 2>>},
      a, c, h, x, t, f \in BOOLEAN, b \in MCBounds }
==============================================================================
