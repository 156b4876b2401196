--------------------------- MODULE MCCallSession ---------------------------
(* Instances of CallSession for TLC. *)
EXTENDS CallSession, TLC

Symmetry == Permutations(Calls)
=============================================================================
