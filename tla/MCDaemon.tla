------------------------------ MODULE MCDaemon ------------------------------
(* Instances of Daemon for TLC: two clients, and two names for the workers *)
(* in the safety run.                                                      *)
EXTENDS Daemon, TLC

Symmetry == Permutations(Clients) \cup Permutations(Workers)
=============================================================================
