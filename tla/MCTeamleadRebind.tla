-------------------------- MODULE MCTeamleadRebind --------------------------
(* Small instances of TeamleadRebind for TLC. *)
EXTENDS TeamleadRebind, TLC
=============================================================================
