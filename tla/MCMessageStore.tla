--------------------------- MODULE MCMessageStore ---------------------------
(* Small instances of MessageStore for TLC. *)
EXTENDS MessageStore, TLC

Symmetry == Permutations(Procs) \cup Permutations(Recipients)
=============================================================================
