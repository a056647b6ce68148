------------------------------ MODULE MCConnTx ------------------------------
EXTENDS ConnTx
CONSTANTS c1, c2, h1, h2, h3, p1, p2, p3
ThreeOwner == (h1 :> c1) @@ (h2 :> c1) @@ (h3 :> c2)
ThreeRoute == (p1 :> h1) @@ (p2 :> h2) @@ (p3 :> h3)
OneRoute == [p \in {p1, p2, p3} |-> h2]
SegShape == (p1 :> <<1, 1>>) @@ (p2 :> <<2>>) @@ (p3 :> <<1>>)
=============================================================================
