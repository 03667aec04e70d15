----------------------------- MODULE MCKeyedLease -----------------------------
(* Small instances of KeyedLease for TLC. *)
EXTENDS KeyedLease, TLC

Symmetry == Permutations(Wrappers)
=============================================================================
