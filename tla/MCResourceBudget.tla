--------------------------- MODULE MCResourceBudget ---------------------------
(* Model-checking instance of ResourceBudget. *)
EXTENDS ResourceBudget, TLC

Symmetry == Permutations(Callers) \cup Permutations(Reservations)
              \cup Permutations(Tickets) \cup Permutations(Classes)
===============================================================================
