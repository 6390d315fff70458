----------------------------- MODULE MCTaskQueue -----------------------------
(* Instance of TaskQueue for TLC: the suspenders are interchangeable.      *)
EXTENDS TaskQueue, TLC

Symmetry == Permutations(Suspenders)
=============================================================================
