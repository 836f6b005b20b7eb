--------------------------- MODULE MCSocketManager ---------------------------
(* SocketManager for TLC. *)
EXTENDS SocketManager
=============================================================================
