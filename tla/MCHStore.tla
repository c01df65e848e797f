------------------------------ MODULE MCHStore ------------------------------
(***************************************************************************)
(* The constants of HStore for TLC.                                        *)
(***************************************************************************)
EXTENDS HStore

\* The process starts with bucket 1 or without a bucket.
Either == {{1}, {}}
=============================================================================
