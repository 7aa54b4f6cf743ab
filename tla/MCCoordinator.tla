---------------------------- MODULE MCCoordinator ----------------------------
(* Small instances of the coordinator for TLC.                             *)
EXTENDS CoordinatorInvariant, TLC

\* Drivers differ only by name.
Symmetry == Permutations(Drivers)

=============================================================================
