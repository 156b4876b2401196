----------------------------- MODULE MCTempLobs -----------------------------
(***************************************************************************)
(* Instance of TempLobs for TLC.  The values are interchangeable, and so   *)
(* is their data.  Batches of one locator, and more than two of them.      *)
(***************************************************************************)
EXTENDS TempLobs, TLC

CONSTANTS b1, b2, d1, d2

MCLobs == {b1, b2}
MCData == {d1, d2}

Symmetry == Permutations(MCLobs) \cup Permutations(MCData)
=============================================================================
