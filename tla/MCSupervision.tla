--------------------------- MODULE MCSupervision ---------------------------
(* The watch of one mailbox with small numbers for TLC.                     *)
EXTENDS Supervision
=============================================================================
