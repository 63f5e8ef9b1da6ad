-------------------------- MODULE MCDaemonManager --------------------------
(* An instance of DaemonManager for TLC, from two kinds of initial states: *)
(* both groups run, and there are two calls; or one of them, and there are *)
(* three.  Every daemon is there that a running group can have.            *)
EXTENDS DaemonManager

AllRun == running = Groups /\ registered = Groups /\ calls = 2

OneRuns ==
  /\ running = {CHOOSE g \in Groups : TRUE}
  /\ registered = running /\ calls = 3

MCInit ==
  /\ Init
  /\ AllRun \/ OneRuns
  /\ \A g \in running : Listed(g)

MCFairSpec == MCInit /\ [][Next]_vars /\ Fairness
=============================================================================
