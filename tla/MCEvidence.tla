----------------------------- MODULE MCEvidence -----------------------------
(* A small instance of the chain of evidence for TLC.                      *)
EXTENDS EvidenceChain

CONSTANTS c, u, v, s1, e1, p

=============================================================================
