-------------------------- MODULE MCLocklessQueue --------------------------
(* Small instances of LocklessQueue. *)
EXTENDS LocklessQueue, TLC

\* Producers differ in their names only.
Symmetry == Permutations(Producers)
=============================================================================
