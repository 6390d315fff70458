----------------------------- MODULE MCXodusIPC -----------------------------
(* Instance of XodusIPC for TLC: the calls are interchangeable.            *)
EXTENDS XodusIPC, TLC

Symmetry == Permutations(Calls)
=============================================================================
