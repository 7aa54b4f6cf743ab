------------------------------ MODULE MCBudget ------------------------------
(* Small instances of the request budget for TLC.                          *)
EXTENDS RequestBudget, TLC

\* Clients differ only by name.
Symmetry == Permutations(Clients)

=============================================================================
