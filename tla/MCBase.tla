-------------------------------- MODULE MCBase --------------------------------
(* An instance of Base.                                                     *)
EXTENDS Base, TLC

CONSTANTS t1, t2, p1, p2, s1, s2, q1

(* Two pollers share a signal; one of them has a queue and another signal.  *)
SharedEvents == (p1 :> <<s1, q1, s2>>) @@ (p2 :> <<s2, s1>>)

Symmetry == Permutations({t1, t2})
=============================================================================
