------------------------------ MODULE MCMemPool ------------------------------
(* Instances of MemPool.                                                    *)
EXTENDS MemPool, TLC

ThreadSymmetry == Permutations(Threads) \cup Permutations(Pools)
=============================================================================
