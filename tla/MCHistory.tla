------------------------------ MODULE MCHistory ------------------------------
(* Small instance of the history file for TLC.                             *)
EXTENDS HistoryStore, TLC

MCSymmetry == Permutations(Processes) \cup Permutations(Ids) \cup Permutations(Contents)
                \cup Permutations(Notes)

=============================================================================
