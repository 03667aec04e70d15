--------------------------- MODULE MCSessionHolder ---------------------------
(* A small instance of SessionHolder for TLC. *)
EXTENDS SessionHolder
=============================================================================
