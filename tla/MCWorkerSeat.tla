---------------------------- MODULE MCWorkerSeat ----------------------------
(* Small instances of WorkerSeat for TLC. *)
EXTENDS WorkerSeat, TLC
=============================================================================
