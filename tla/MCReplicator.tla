---------------------------- MODULE MCReplicator ----------------------------
(* Instances of Replicator for TLC.  Versions 1 and 2 have the same update *)
(* column: two changes in one tick of its clock.                           *)
EXTENDS Replicator

MCStamp == [v \in Versions |-> IF v <= 2 THEN 1 ELSE v]

(* The rows of the master have version 1 until they are written.  All the  *)
(* slaves begin with the same rows, whichever they are, of versions 2 and  *)
(* 3: one that looks the same as the row of the master, and one that does  *)
(* not.  A row that is the same is what a replication leaves.              *)
MCInit ==
  /\ Init
  /\ \A k \in Keys : master[k] <= 1
  /\ \A s, t \in Slaves : table[s] = table[t]
  /\ \A s \in Slaves, k \in Keys : table[s][k] # 1

MCSpec == MCInit /\ [][Next]_vars
=============================================================================
