--------------------------- MODULE DaemonLifecycle ---------------------------
(***************************************************************************)
(* What org.karatachi.daemon.Daemon promises to the groups that manage     *)
(* daemons.  Daemon implements this specification (see Daemon and          *)
(* DaemonProofs); DaemonGroup is written against it.                       *)
(***************************************************************************)

VARIABLES
  life,      \* "off": no executor; "on"; "stopping": shutdown requested;
             \* "dead": the worker has ended and nobody has joined it
  working,   \* work() is running
  grace      \* stopping, but one more run of work() may begin

lifeVars == <<life, working, grace>>

LifeTypeOK ==
  /\ life \in {"off", "on", "stopping", "dead"}
  /\ working \in BOOLEAN
  /\ grace \in BOOLEAN

LifeInit == life = "off" /\ working = FALSE /\ grace = FALSE

(* startup()                                                               *)
LifeStart == life = "off" /\ life' = "on" /\ UNCHANGED <<working, grace>>

(* shutdown(), which may come after the test that precedes a run.          *)
LifeRequest ==
  /\ life = "on"
  /\ life' = "stopping"
  /\ grace' \in {FALSE, ~working}
  /\ UNCHANGED working

(* A run begins: while the daemon is on, and at most once afterwards.      *)
LifeBegin ==
  /\ life = "on" \/ (life = "stopping" /\ grace)
  /\ ~working
  /\ working' = TRUE
  /\ grace' = FALSE
  /\ UNCHANGED life

(* The last run does not take place after all.                             *)
LifeSkip == grace /\ grace' = FALSE /\ UNCHANGED <<life, working>>

LifeEnd ==
  /\ life \in {"on", "stopping"}
  /\ working
  /\ working' = FALSE
  /\ UNCHANGED <<life, grace>>

(* The thread ends: on request, or by an Error out of work().              *)
LifeDie ==
  /\ life \in {"on", "stopping"}
  /\ ~working /\ ~grace
  /\ life' = "dead"
  /\ UNCHANGED <<working, grace>>

(* join() returns.                                                         *)
LifeJoin == life = "dead" /\ life' = "off" /\ UNCHANGED <<working, grace>>

LifeNext ==
  \/ LifeStart \/ LifeRequest \/ LifeJoin
  \/ LifeBegin \/ LifeSkip \/ LifeEnd \/ LifeDie

LifeSpec == LifeInit /\ [][LifeNext]_lifeVars
=============================================================================
