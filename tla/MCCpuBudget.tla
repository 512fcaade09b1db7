------------------------------ MODULE MCCpuBudget ------------------------------
(* Model-checking instance of CpuBudget. *)
EXTENDS CpuBudget, TLC

Symmetry == Permutations(Permits) \cup Permutations(Groups)
===============================================================================
