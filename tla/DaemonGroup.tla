----------------------------- MODULE DaemonGroup -----------------------------
(***************************************************************************)
(* org.karatachi.daemon.DaemonGroup and its two families of subclasses:    *)
(*   - DaemonManager.UniqueDaemonGroup starts every registered daemon;     *)
(*   - ProducerWorkerDaemonGroup starts one producer and as many workers   *)
(*     as setCount asks for.                                               *)
(*                                                                         *)
(* All the methods are synchronized on the group.  Everything but          *)
(* shutdown() runs without blocking and is one action: a daemon that dies  *)
(* while setCount runs might as well die before or after it.  shutdown()   *)
(* blocks in the join of each daemon, keeping the group's monitor.         *)
(*                                                                         *)
(* A daemon is abstracted to its life (DaemonLifecycle) and to the call of *)
(* a synchronized method its thread may be in.  The lists daemons and      *)
(* removedDaemons are sets: which daemon the group removes     *)
(* first makes no difference here.                                         *)
(***************************************************************************)
EXTENDS Naturals, FiniteSets

CONSTANTS
  Callers,     \* threads that call the group
  Daemons,     \* daemon objects; bounds the daemons alive at a time
  Producer,    \* the producer of a ProducerWorkerDaemonGroup
  NoDaemon,
  Free         \* nobody owns the group's monitor

ASSUME CallerAssumption == Free \notin Callers
ASSUME ProducerAssumption == Producer \notin Daemons /\ NoDaemon \notin Daemons

VARIABLES
  unique,       \* TRUE: UniqueDaemonGroup, FALSE: ProducerWorkerDaemonGroup
  running,      \* DaemonGroup.running
  daemons,      \* DaemonGroup.daemons
  removed,      \* DaemonGroup.removedDaemons
  registered,   \* DaemonManager.uniqueDaemons
  life,         \* life of each daemon, the producer included
  asking,       \* whose synchronized method the thread of a daemon is in:
                \* "this" group's, "another" one's or "no" group's
  owner,        \* owner of the group's monitor between two steps
  call,         \* where each caller is in shutdown()
  joining,      \* the daemon the owner is joining
  leaked,       \* history: daemons whose join() was interrupted
  aborted       \* history: cleanup() was interrupted

calls == <<owner, call, joining>>
history == <<leaked, aborted>>
vars ==
  <<unique, running, daemons, removed, registered, life, asking, calls,
    history>>

All == Daemons \cup {Producer}

TypeOK ==
  /\ unique \in BOOLEAN
  /\ running \in BOOLEAN
  /\ daemons \subseteq Daemons
  /\ removed \subseteq Daemons
  /\ registered \subseteq Daemons
  /\ life \in [All -> {"off", "on", "stopping", "dead"}]
  /\ asking \in [All -> {"no", "this", "another"}]
  /\ owner \in Callers \cup {Free}
  /\ call \in [Callers -> {"none", "shutdown", "joining", "cleanup"}]
  /\ \A c \in Callers : call[c] # "none" <=> owner = c
  /\ joining \in Daemons \cup {NoDaemon}
  /\ leaked \subseteq Daemons
  /\ aborted \in BOOLEAN

Init ==
  /\ unique \in BOOLEAN
  /\ running = FALSE
  /\ daemons = {} /\ removed = {} /\ registered = {}
  /\ life = [d \in All |-> "off"]
  /\ asking = [d \in All |-> "no"]
  /\ owner = Free
  /\ call = [c \in Callers |-> "none"]
  /\ joining = NoDaemon
  /\ leaked = {} /\ aborted = FALSE

-----------------------------------------------------------------------------
(* Effects of Daemon.startup() and Daemon.shutdown() on a daemon's life.   *)
Started(l) == IF l = "off" THEN "on" ELSE l
NotRequested(l) == l    \* faulty: the shutdown() is forgotten
Requested(l) == IF l = "on" THEN "stopping" ELSE l

Synchronized(c) == owner = Free /\ call[c] = "none"

AddUniqueDaemon(d) ==
  /\ unique
  /\ d \notin registered
  /\ registered' = registered \cup {d}
  /\ UNCHANGED <<unique, running, daemons, removed, life, asking, calls,
                 history>>

(* startup(): initialize(), then running = true.  Daemon.startup() does    *)
(* nothing to a daemon whose worker was never joined, but the daemon is    *)
(* listed all the same.                                                    *)
Startup(c) ==
  /\ Synchronized(c)
  /\ ~running
  /\ running' = TRUE
  /\ IF unique
     THEN /\ daemons' = daemons \cup registered
          /\ life' = [d \in All |->
                        IF d \in registered THEN Started(life[d]) ELSE life[d]]
     ELSE /\ life' = [life EXCEPT ![Producer] = Started(@)]
          /\ UNCHANGED daemons
  /\ UNCHANGED <<unique, removed, registered, asking, calls, history>>

(* Daemons that newInstance can stand for: not referenced by the group.    *)
Fresh == {d \in Daemons \ (daemons \cup removed) : life[d] = "off"}

(* Faulty: a removed daemon is not put on removedDaemons.                  *)
ResizeForgetting(new) ==
  /\ daemons' = new
  /\ life' = [d \in All |->
                IF d \in daemons \ new THEN Requested(life[d])
                ELSE IF d \in new \ daemons THEN "on"
                ELSE life[d]]
  /\ UNCHANGED <<removed, leaked>>

(* Faulty: every removed daemon is taken off, terminated or not.           *)
ResizeReapingAll(new) ==
  /\ daemons' = new
  /\ removed' = daemons \ new
  /\ leaked' = leaked
  /\ life' = [d \in All |->
                IF d \in removed THEN "off"
                ELSE IF d \in daemons \ new THEN Requested(life[d])
                ELSE IF d \in new \ daemons THEN "on"
                ELSE life[d]]

(* The body of setCount: start new daemons, or shut down some and put them *)
(* on removedDaemons; then join every removed daemon that has terminated.  *)
Resize(new) ==
  LET gone == removed \cup (daemons \ new)
      reaped == {d \in gone : life[d] = "dead"}
  IN /\ daemons' = new
     /\ removed' = gone \ reaped
     /\ leaked' = leaked \ reaped
     /\ life' = [d \in All |->
                   IF d \in reaped THEN "off"
                   ELSE IF d \in daemons \ new THEN Requested(life[d])
                   ELSE IF d \in new \ daemons THEN "on"
                   ELSE life[d]]

(* setCount, upCount and downCount; newInstance of a UniqueDaemonGroup     *)
(* throws before anything has changed.                                     *)
SetCount(c, new) ==
  /\ Synchronized(c)
  /\ running
  /\ \/ new \subseteq daemons
     \/ ~unique /\ daemons \subseteq new /\ new \ daemons \subseteq Fresh
  /\ Resize(new)
  /\ UNCHANGED <<unique, running, registered, asking, calls, aborted>>

(* shutdown(): setCount(0) ...                                             *)
Shutdown(c) ==
  /\ Synchronized(c)
  /\ running
  /\ Resize({})
  /\ owner' = c
  /\ call' = [call EXCEPT ![c] = "shutdown"]
  /\ UNCHANGED <<unique, running, registered, asking, joining, aborted>>

(* ... then removedDaemons.removeFirst().join() for each ...               *)
ShutdownNext(c, d) ==
  /\ call[c] = "shutdown"
  /\ d \in removed
  /\ removed' = removed \ {d}
  /\ joining' = d
  /\ call' = [call EXCEPT ![c] = "joining"]
  /\ UNCHANGED <<unique, running, daemons, registered, life, asking, owner,
                 history>>

ShutdownJoined(c) ==
  /\ call[c] = "joining"
  /\ life[joining] = "dead"
  /\ life' = [life EXCEPT ![joining] = "off"]
  /\ leaked' = leaked \ {joining}
  /\ joining' = NoDaemon
  /\ call' = [call EXCEPT ![c] = "shutdown"]
  /\ UNCHANGED <<unique, running, daemons, removed, registered, asking,
                 owner, aborted>>

(* Faulty: an interrupted join leaves the loop and the group is stopped.   *)
ShutdownInterruptedStops(c) ==
  /\ call[c] = "joining"
  /\ leaked' = leaked \cup {joining}
  /\ joining' = NoDaemon
  /\ owner' = Free
  /\ call' = [call EXCEPT ![c] = "none"]
  /\ running' = FALSE
  /\ UNCHANGED <<unique, daemons, removed, registered, life, asking, aborted>>

(* ... which an interrupt of the caller ends: the exception leaves         *)
(* shutdown(), the group stays running, and nothing refers to the daemon   *)
(* just taken off removedDaemons (UniqueDaemonGroup: but uniqueDaemons).   *)
ShutdownInterrupted(c) ==
  /\ call[c] = "joining"
  /\ leaked' = leaked \cup {joining}
  /\ joining' = NoDaemon
  /\ owner' = Free
  /\ call' = [call EXCEPT ![c] = "none"]
  /\ UNCHANGED <<unique, running, daemons, removed, registered, life,
                 asking, aborted>>

(* Faulty: cleanup() before the workers have been joined.                  *)
CleanupEarly(c) ==
  /\ call[c] = "shutdown"
  /\ IF unique
     THEN /\ running' = FALSE
          /\ owner' = Free
          /\ call' = [call EXCEPT ![c] = "none"]
          /\ UNCHANGED life
     ELSE /\ life' = [life EXCEPT ![Producer] = Requested(@)]
          /\ call' = [call EXCEPT ![c] = "cleanup"]
          /\ UNCHANGED <<running, owner>>
  /\ UNCHANGED <<unique, daemons, removed, registered, asking, joining,
                 history>>

(* cleanup(): the producer is shut down and joined.                        *)
Cleanup(c) ==
  /\ call[c] = "shutdown"
  /\ removed = {}
  /\ IF unique
     THEN /\ running' = FALSE
          /\ owner' = Free
          /\ call' = [call EXCEPT ![c] = "none"]
          /\ UNCHANGED life
     ELSE /\ life' = [life EXCEPT ![Producer] = Requested(@)]
          /\ call' = [call EXCEPT ![c] = "cleanup"]
          /\ UNCHANGED <<running, owner>>
  /\ UNCHANGED <<unique, daemons, removed, registered, asking, joining,
                 history>>

CleanupJoined(c) ==
  /\ call[c] = "cleanup"
  /\ life[Producer] \in {"dead", "off"}
  /\ life' = [life EXCEPT ![Producer] = "off"]
  /\ running' = FALSE
  /\ owner' = Free
  /\ call' = [call EXCEPT ![c] = "none"]
  /\ aborted' = FALSE
  /\ UNCHANGED <<unique, daemons, removed, registered, asking, joining,
                 leaked>>

CleanupInterrupted(c) ==
  /\ call[c] = "cleanup"
  /\ owner' = Free
  /\ call' = [call EXCEPT ![c] = "none"]
  /\ aborted' = TRUE
  /\ UNCHANGED <<unique, running, daemons, removed, registered, life,
                 asking, joining, leaked>>

(* A worker thread ends: on request, or because work() threw an Error.  It *)
(* does neither while it waits for a monitor.                              *)
Stop(d) ==
  /\ life[d] = "stopping" /\ asking[d] = "no"
  /\ life' = [life EXCEPT ![d] = "dead"]
  /\ UNCHANGED <<unique, running, daemons, removed, registered, asking, calls,
                 history>>

Crash(d) ==
  /\ life[d] = "on" /\ asking[d] = "no"
  /\ life' = [life EXCEPT ![d] = "dead"]
  /\ UNCHANGED <<unique, running, daemons, removed, registered, asking, calls,
                 history>>

(* work() calls a synchronized method: getCount() or wakeup() in the       *)
(* producer, what it likes in a task, of its own group or of another one   *)
(* that getDaemonGroup() gives.  (A task that shuts down or resizes its    *)
(* own group is not in this module but in DaemonManager.)                  *)
Ask(d) ==
  /\ life[d] \in {"on", "stopping"} /\ asking[d] = "no"
  /\ \E m \in {"this", "another"} : asking' = [asking EXCEPT ![d] = m]
  /\ UNCHANGED <<unique, running, daemons, removed, registered, life, calls,
                 history>>

(* The call returns: of this group, once nobody owns the monitor.          *)
Answer(d) ==
  /\ asking[d] = "another" \/ (asking[d] = "this" /\ owner = Free)
  /\ asking' = [asking EXCEPT ![d] = "no"]
  /\ UNCHANGED <<unique, running, daemons, removed, registered, life, calls,
                 history>>

-----------------------------------------------------------------------------
ShutdownStep(c) ==
  \/ \E d \in Daemons : ShutdownNext(c, d)
  \/ ShutdownJoined(c) \/ Cleanup(c) \/ CleanupJoined(c)

Next ==
  \/ \E d \in Daemons : AddUniqueDaemon(d)
  \/ \E c \in Callers :
       \/ Startup(c) \/ Shutdown(c) \/ ShutdownStep(c)
       \/ \E new \in SUBSET Daemons : SetCount(c, new)
       \/ ShutdownInterrupted(c) \/ CleanupInterrupted(c)
  \/ \E d \in All : Stop(d) \/ Crash(d) \/ Ask(d) \/ Answer(d)

Spec == Init /\ [][Next]_vars

(* A daemon asked to stop stops (Daemon, ShutdownTerminates), if its       *)
(* thread does not enter a synchronized method: nothing says that such a   *)
(* call is answered.  The thread inside shutdown() is scheduled.           *)
FairSpec ==
  /\ Spec
  /\ \A d \in All : WF_vars(Stop(d))
  /\ \A c \in Callers : WF_vars(ShutdownStep(c))

-----------------------------------------------------------------------------
(* Every worker thread that was started and not joined can still be        *)
(* reached by the group: it is listed, or removed and to be joined, or     *)
(* being joined; or an interrupt of the join has leaked it.                *)
NoOrphan ==
  \A d \in Daemons :
    life[d] # "off" => d \in daemons \cup removed \cup {joining} \cup leaked

(* A group that is not running has no thread left, but those whose join    *)
(* was interrupted: shutdown() returns only when all have ended, so that   *)
(* the next startup() does start each of them.                             *)
StoppedMeansOff ==
  ~running => \A d \in All : life[d] = "off" \/ d \in leaked

(* getCount() counts daemons that nobody has asked to stop: a listed       *)
(* daemon is on, or an Error killed it, or it is a unique daemon listed    *)
(* again after its join was interrupted.                                   *)
ListedNotStopped ==
  \A d \in daemons : life[d] \in {"on", "dead"} \/ d \in leaked

(* Workers never run without a producer: while a group has workers or      *)
(* waits for them, its producer has not been asked to stop, unless a       *)
(* cleanup() was interrupted.                                              *)
ProducerOutlivesWorkers ==
  ~unique /\ (daemons \cup removed # {} \/ joining # NoDaemon)
    => life[Producer] \in {"on", "dead"} \/ aborted

(* The daemons as DaemonLifecycle sees them.                               *)
Life(d) == INSTANCE DaemonLifecycle
             WITH life <- life[d], working <- FALSE, grace <- FALSE

LifeStep == \A d \in All : Life(d)!LifeNext \/ life'[d] = life[d]

(* The group uses each daemon as DaemonLifecycle allows: never joined      *)
(* before it is dead, never started twice.                                 *)
UsesLifecycle == [][LifeStep]_life

(* The owner waits for a daemon that is in a synchronized method: of this  *)
(* group, and then neither goes on before the owner is interrupted, or of  *)
(* another group, whose monitor may be held as well.                       *)
JoinsCaller(c) ==
  \/ call[c] = "joining" /\ asking[joining] # "no"
  \/ call[c] = "cleanup" /\ asking[Producer] # "no"

(* shutdown() returns, stopped or interrupted, or it comes to the join of  *)
(* a daemon that is in a call of its own.                                  *)
ShutdownEnds == \A c \in Callers : owner = c ~> owner # c \/ JoinsCaller(c)
=============================================================================
