------------------------------ MODULE MCXAsync ------------------------------
(* Instances of XAsync for TLC.                                            *)
EXTENDS XAsync, TLC

Symmetry == Permutations(Workers) \cup Permutations(Cancelers)
=============================================================================
