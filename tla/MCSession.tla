------------------------------ MODULE MCSession ------------------------------
(* Small instances of the session for TLC.                                 *)
EXTENDS WorkflowSession, TLC

\* Clients differ only by name.
Symmetry == Permutations(Clients)

=============================================================================
