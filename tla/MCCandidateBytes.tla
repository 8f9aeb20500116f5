-------------------------- MODULE MCCandidateBytes --------------------------
(* Byte strings of length up to MaxLen over two byte values. *)
EXTENDS CandidateBytes
CONSTANTS zero, one
=============================================================================
