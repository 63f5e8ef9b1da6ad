--------------------------- MODULE MCDaemonGroup ---------------------------
(* Instances of DaemonGroup for TLC.                                       *)
EXTENDS DaemonGroup, TLC

Symmetry == Permutations(Callers) \cup Permutations(Daemons)
=============================================================================
