----------------------------- MODULE MCTerminal -----------------------------
(* A small instance of the client for TLC.                                 *)
EXTENDS TerminalClient, TLC

\* Todos differ only by name.
Symmetry == Permutations(Todos) \cup Permutations(Sessions)

=============================================================================
