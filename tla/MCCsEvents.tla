---------------------------- MODULE MCCsEvents -----------------------------
(***************************************************************************)
(* Values of CsEvents' constants for TLC.  No handle differs from another. *)
(***************************************************************************)
EXTENDS CsEvents, TLC

Alike == Permutations(Conns)
=============================================================================
