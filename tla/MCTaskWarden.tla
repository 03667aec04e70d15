---------------------------- MODULE MCTaskWarden ----------------------------
(* Small instances of TaskWarden for TLC. *)
EXTENDS TaskWarden
=============================================================================
