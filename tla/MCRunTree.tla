------------------------------ MODULE MCRunTree ------------------------------
(* Instance of RunTree for TLC: every acyclic choice of parents over Runs.   *)
EXTENDS RunTree, TLC

Symmetry == Permutations(Runs)
=============================================================================
