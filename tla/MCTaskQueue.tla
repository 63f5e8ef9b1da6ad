---------------------------- MODULE MCTaskQueue ----------------------------
(* Instances of TaskQueue for TLC.                                         *)
EXTENDS TaskQueue, TLC

Symmetry == Permutations(Workers) \cup Permutations(Queues)
=============================================================================
