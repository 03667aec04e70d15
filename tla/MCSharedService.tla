---------------------------- MODULE MCSharedService ----------------------------
(* A small instance of SharedService for TLC. *)
EXTENDS SharedService
=============================================================================
