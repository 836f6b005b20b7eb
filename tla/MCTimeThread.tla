---------------------------- MODULE MCTimeThread ----------------------------
(***************************************************************************)
(* TimeThread for TLC.                                                     *)
(***************************************************************************)
EXTENDS TimeThread, TLC

Symmetry == Permutations(Threads)
=============================================================================
