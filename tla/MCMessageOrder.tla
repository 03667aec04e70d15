--------------------------- MODULE MCMessageOrder ---------------------------
(* A small instance of MessageOrder for TLC: three milliseconds of two ids. *)
EXTENDS MessageOrder
=============================================================================
