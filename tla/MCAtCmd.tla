------------------------------ MODULE MCAtCmd ------------------------------
(* Instances of AtCmd for TLC. *)
EXTENDS AtCmd, TLC

Callers == Permutations(Tasks)
=============================================================================
