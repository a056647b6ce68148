------------------------------ MODULE MCMeshNet ------------------------------
EXTENDS MeshNet, TLC
CONSTANTS a, b, a1, a2
Swaps == Permutations({a1, a2})
ElementsOf == [n \in Nodes |-> IF n = a THEN {a1, a2} ELSE {}]
===============================================================================
