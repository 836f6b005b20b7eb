---------------------------- MODULE MCMPSCQueue ----------------------------
(* MPSCQueue for TLC. *)
EXTENDS MPSCQueue
=============================================================================
