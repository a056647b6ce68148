------------------------------- MODULE MCHciCmd -------------------------------
(* Instances of HciCmd.                                                    *)
EXTENDS HciCmd, TLC

Symmetry == Permutations(Callers) \cup Permutations(Bufs) \cup Permutations(Opcodes)
=============================================================================
