-------------------------- MODULE MCProjectSetup ---------------------------
(* ProjectSetup with two AOIs and two bodies: one that fits both AOIs and  *)
(* comes from the grid, one that fits the second only and was imported.    *)
EXTENDS ProjectSetup, TLC

CONSTANTS a1, a2, b1, b2, s1, s2

MCFits == {<<b1, a1>>, <<b1, a2>>, <<b2, a2>>}

MCSourceOf == (b1 :> "grid") @@ (b2 :> "import")

Symmetry == Permutations(Slots)
=============================================================================
