----------------------------- MODULE MCTaskTree -----------------------------
(* Small instances of TaskTree for TLC. *)
EXTENDS TaskTree, TLC

Symmetry == Permutations(Procs) \cup Permutations(Children)
=============================================================================
