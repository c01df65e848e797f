------------------------------ MODULE MCHints ------------------------------
(***************************************************************************)
(* Hints for TLC.                                                          *)
(***************************************************************************)
EXTENDS Hints

CONSTANTS k1, k2
TwoKeys == {k1, k2}
Symmetry == Permutations(TwoKeys)
=============================================================================
