-------------------------------- MODULE MCGC --------------------------------
(***************************************************************************)
(* GC for TLC.                                                             *)
(***************************************************************************)
EXTENDS GC

TwoKeys == {1, 2}
=============================================================================
