-------------------------- MODULE MCTaskQueuePort --------------------------
(* Instances of TaskQueuePort for TLC; symmetric threads for safety runs.  *)
EXTENDS TaskQueuePort, TLC

Symmetry == Permutations(Apps) \cup Permutations(Pool) \cup Permutations(Timers)
=============================================================================
