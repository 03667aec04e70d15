----------------------------- MODULE MCDirLock -----------------------------
(* Small instances of DirLock for TLC. *)
EXTENDS DirLock, TLC

Symmetry == Permutations(Procs) \cup Permutations(Inodes)
=============================================================================
