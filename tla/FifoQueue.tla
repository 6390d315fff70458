----------------------------- MODULE FifoQueue -----------------------------
(***************************************************************************)
(* What LocklessQueue promises its users: values leave in the order they   *)
(* came, one at a time.  While remove_if has the lock (moving) the first   *)
(* value may go without being handed out.  A push that went astray (stray) *)
(* ends the promise of order.                                              *)
(***************************************************************************)
EXTENDS Integers, Sequences

VARIABLES q, taken, moving, stray

Init == q = <<>> /\ taken = <<>>

\* push_back: one more value at the end
Put == q' # <<>> /\ q = SubSeq(q', 1, Len(q') - 1) /\ UNCHANGED taken

\* pop_front: the first value is handed out
Take == q # <<>> /\ taken' = Append(taken, Head(q)) /\ q' = Tail(q)

\* remove_if, which puts back what it keeps with Put
Shift == moving /\ q # <<>> /\ q' = Tail(q) /\ UNCHANGED taken

Next == stray' \/ Put \/ Take \/ Shift

Spec == Init /\ [][Next]_<<q, taken>>
=============================================================================
