------------------------------- MODULE MCReAct -------------------------------
(* Small instances of a run of the code agent for TLC.                     *)
EXTENDS ReActLoop

=============================================================================
