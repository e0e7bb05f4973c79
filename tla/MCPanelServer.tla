----------------------------- MODULE MCPanelServer -----------------------------
(* Model checking of PanelServer: two parts, two renders, small files.     *)
EXTENDS PanelServer, TLC

CONSTANTS k1, k2

RequestSymmetry == Permutations(Requests)
TwoParts == <<"part0", "part1">>
SomeSizes == [k \in Renders |-> IF k = k1 THEN 2 ELSE 3]
=============================================================================
