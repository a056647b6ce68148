-------------------------------- MODULE MCBtBuf --------------------------------
(* Instances of BtBuf: the threads are alike.                              *)
EXTENDS BtBuf, TLC

Symmetry == Permutations(Threads)
=============================================================================
