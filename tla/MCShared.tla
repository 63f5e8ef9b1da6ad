------------------------------ MODULE MCShared ------------------------------
(* Four small components whose objects are shared by threads that know     *)
(* nothing of each other, in one run: a behaviour is about one of them,    *)
(* the subject, and leaves the others as they begin.                       *)
EXTENDS PageStore, CachedObject, RepeatQueue, Connections

VARIABLE subject

MCInit ==
  /\ subject \in {"pages", "value", "repeat", "connections"}
  /\ PageInit /\ CachedInit /\ RepeatInit /\ ConnectionInit

MCNext ==
  /\ \/ /\ subject = "pages" /\ PageNext
        /\ UNCHANGED <<cachedVars, repeatVars, connectionVars>>
     \/ /\ subject = "value" /\ CachedNext
        /\ UNCHANGED <<pageVars, repeatVars, connectionVars>>
     \/ /\ subject = "repeat" /\ RepeatNext
        /\ UNCHANGED <<pageVars, cachedVars, connectionVars>>
     \/ /\ subject = "connections" /\ ConnectionNext
        /\ UNCHANGED <<pageVars, cachedVars, repeatVars>>
  /\ UNCHANGED subject

MCSpec ==
  MCInit /\ [][MCNext]_<<subject, pageVars, cachedVars, repeatVars,
                         connectionVars>>

Symmetry == Permutations(Getters) \cup Permutations(RepeatWorkers)
=============================================================================
