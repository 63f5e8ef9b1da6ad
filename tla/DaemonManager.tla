--------------------------- MODULE DaemonManager ---------------------------
(***************************************************************************)
(* The locks of the daemon package: DaemonManager keeps the groups in a    *)
(* synchronized map, every method of a group is synchronized, and a thread *)
(* that shuts groups down waits for their threads while it holds them.     *)
(*                                                                         *)
(* Clients call what they like, and so does the application's code in the  *)
(* daemons: a task, and replaceTask().  Each group has a producer and at   *)
(* most one worker at a time; DaemonGroup has the details of their         *)
(* bookkeeping, TaskQueue those of the tasks.  Here a daemon is the locks  *)
(* it asks for.                                                            *)
(***************************************************************************)
EXTENDS Naturals

CONSTANTS
  Clients,     \* threads of the application that are no daemons
  Groups,      \* producer/worker groups
  Nobody,
  MaxCalls     \* bound: calls, and interrupts of clients

Producer(g) == <<g, "producer">>
WorkerOf(g) == <<g, "worker">>
Daemons == Groups \X {"producer", "worker"}
Producers == {Producer(g) : g \in Groups}
Threads == Clients \cup Daemons

ASSUME CallsAssumption == MaxCalls \in Nat
ASSUME NobodyAssumption == Nobody \notin Threads
ASSUME ThreadsAssumption == Clients \cap Daemons = {}

VARIABLES
  mapLock,     \* owner of the monitor of daemonGroups
  monitor,     \* owner of the monitor of each group
  registered,  \* keys of daemonGroups
  running,     \* groups whose running is TRUE
  removed,     \* groups with their worker in removedDaemons
  life,        \* of each daemon: "off", "on", "stopping", "dead"
  dpc,         \* where the thread of each daemon is
  late,        \* history: producers that were asking for the monitor when
               \* they were asked to stop, or have taken the interrupt
  call,        \* the call each thread is in: where, which group, which next
  interrupted, \* threads whose interrupt flag is set
  restarted,   \* history: groups started or added since shutdownAll began
  calls        \* calls left

locks == <<mapLock, monitor>>
groups == <<registered, running, removed>>
daemons == <<life, dpc, late>>
vars == <<locks, groups, daemons, call, interrupted, restarted, calls>>

NoCall == [at |-> "none", group |-> Nobody, all |-> FALSE, todo |-> {}]

(* Any groups run, with a worker or without.                               *)
Init ==
  /\ mapLock = Nobody /\ monitor = [g \in Groups |-> Nobody]
  /\ registered \in SUBSET Groups
  /\ running \in SUBSET Groups /\ removed = {}
  /\ \E listed \in SUBSET running :
       life = [d \in Daemons |->
                 IF d[1] \in IF d = Producer(d[1]) THEN running ELSE listed
                 THEN "on" ELSE "off"]
  /\ dpc = [d \in Daemons |-> "loop"]
  /\ late = {}
  /\ call = [t \in Threads |-> NoCall]
  /\ interrupted = {} /\ restarted = {}
  /\ calls \in 0 .. MaxCalls

-----------------------------------------------------------------------------
(* Calls of the application.                                               *)

InApplication(t) == t \in Daemons => dpc[t] \in {"task", "replace"}

Call(t, r) ==
  /\ call[t].at = "none" /\ InApplication(t)
  /\ calls > 0 /\ calls' = calls - 1
  /\ call' = [call EXCEPT ![t] = r]
  /\ UNCHANGED <<locks, groups, daemons, interrupted, restarted>>

(* A method of the manager that takes the monitor of the map, and one of a *)
(* group.  Which it is shows when the thread has the monitor.              *)
CallManager(t) ==
  Call(t, [at |-> "map", group |-> Nobody, all |-> FALSE, todo |-> {}])

CallGroup(t, g) ==
  Call(t, [at |-> "enter", group |-> g, all |-> FALSE, todo |-> {}])

Interrupt(c) ==
  /\ calls > 0 /\ calls' = calls - 1
  /\ interrupted' = interrupted \cup {c}
  /\ UNCHANGED <<locks, groups, daemons, call, restarted>>

(* The application in a daemon that has been asked to stop catches the     *)
(* InterruptedException, or tests the flag, and goes on.                   *)
TakeInterrupt(d) ==
  /\ d \in interrupted /\ InApplication(d) /\ call[d].at = "none"
  /\ interrupted' = interrupted \ {d}
  /\ late' = late \cup ({d} \cap Producers)
  /\ UNCHANGED <<locks, groups, life, dpc, call, restarted, calls>>

-----------------------------------------------------------------------------
(* The manager.                                                            *)

HasMap(t) == call[t].at = "map" /\ mapLock = Nobody

Ends(t) == call' = [call EXCEPT ![t] = NoCall]

(* getDaemonGroup(), getDaemonGroups(), and addDaemonGroup() that throws,  *)
(* as there is a group of that class.                                      *)
GetDaemonGroup(t) ==
  /\ HasMap(t) /\ Ends(t)
  /\ UNCHANGED <<locks, groups, daemons, interrupted, restarted, calls>>

AddDaemonGroup(t, g) ==
  /\ HasMap(t) /\ Ends(t)
  /\ g \notin registered
  /\ registered' = registered \cup {g}
  /\ restarted' = restarted \cup {g}
  /\ UNCHANGED <<locks, running, removed, daemons, interrupted, calls>>

(* shutdownAll(), which calls shutdown() of every group with the map       *)
(* locked.                                                                 *)
ShutdownAll(t) ==
  /\ HasMap(t)
  /\ mapLock' = t
  /\ call' = [call EXCEPT ![t] = [at |-> "next", group |-> Nobody, all |-> TRUE,
                                 todo |-> registered]]
  /\ restarted' = {}
  /\ UNCHANGED <<monitor, groups, daemons, interrupted, calls>>

NextGroup(t, g) ==
  /\ call[t].at = "next"
  /\ g \in call[t].todo
  /\ call' = [call EXCEPT ![t] = [at |-> "enter", group |-> g, all |-> @.all,
                                 todo |-> @.todo \ {g}]]
  /\ UNCHANGED <<locks, groups, daemons, interrupted, restarted, calls>>

ShutdownAllEnd(t) ==
  /\ call[t].at = "next"
  /\ call[t].todo = {}
  /\ mapLock' = Nobody
  /\ Ends(t)
  /\ UNCHANGED <<monitor, groups, daemons, interrupted, restarted, calls>>

-----------------------------------------------------------------------------
(* The methods of a group that take its monitor and give it back.          *)

HasMonitor(t) == call[t].at = "enter" /\ monitor[call[t].group] = Nobody

HasOwnCall(t) == HasMonitor(t) /\ ~call[t].all /\ Ends(t)

(* wakeup(), which addTask() calls, getCount(), getDaemons(), and those    *)
(* that find nothing to do.                                                *)
ShortCall(t) ==
  /\ HasOwnCall(t)
  /\ UNCHANGED <<locks, groups, daemons, interrupted, restarted, calls>>

(* startup(): initialize() starts the producer, unless its thread was      *)
(* never joined.                                                           *)
Startup(t) ==
  LET g == call[t].group IN
    /\ HasOwnCall(t)
    /\ g \notin running
    /\ running' = running \cup {g}
    /\ restarted' = restarted \cup {g}
    /\ life' = [life EXCEPT ![Producer(g)] = IF @ = "off" THEN "on" ELSE @]
    /\ UNCHANGED <<locks, registered, removed, dpc, late, interrupted, calls>>

(* Faulty: the request is lost.                                            *)
NotRequested(s) == s

(* Daemon.shutdown(): nothing without a thread; a dead thread stays dead.  *)
Requested(s) == IF s = "on" THEN "stopping" ELSE s

Alive(d) == life[d] \in {"on", "stopping"}

Listed(g) == life[WorkerOf(g)] = "on"

(* setCount(1) with no worker.                                             *)
CountUp(t) ==
  LET g == call[t].group IN
    /\ HasOwnCall(t)
    /\ g \in running
    /\ life[WorkerOf(g)] \in {"off", "dead"} /\ g \notin removed
    /\ life' = [life EXCEPT ![WorkerOf(g)] = "on"]
    /\ UNCHANGED <<locks, groups, dpc, late, interrupted, restarted, calls>>

(* setCount(0): the worker is asked to stop, and interrupted; one that has *)
(* stopped before is joined.                                               *)
ZeroCount(g) ==
  LET w == WorkerOf(g) IN
    IF g \in removed /\ life[w] = "dead"
    THEN /\ life' = [life EXCEPT ![w] = "off"]
         /\ removed' = removed \ {g}
         /\ UNCHANGED interrupted
    ELSE /\ life' = [life EXCEPT ![w] = IF Listed(g) THEN Requested(@) ELSE @]
         /\ removed' = IF Listed(g) THEN removed \cup {g} ELSE removed
         /\ interrupted' = IF Listed(g) THEN interrupted \cup {w} ELSE interrupted

CountDown(t) ==
  /\ HasOwnCall(t)
  /\ call[t].group \in running
  /\ ZeroCount(call[t].group)
  /\ UNCHANGED <<locks, registered, running, dpc, late, restarted, calls>>

-----------------------------------------------------------------------------
(* shutdown() of a group, of its own or within shutdownAll().              *)

(* What follows it in the thread.                                          *)
Returned(t) ==
  IF call[t].all
  THEN [at |-> "next", group |-> Nobody, all |-> TRUE, todo |-> call[t].todo]
  ELSE NoCall

(* A group that does not run.                                              *)
EnterStopped(t) ==
  /\ HasMonitor(t)
  /\ call[t].group \notin running
  /\ call' = [call EXCEPT ![t] = Returned(t)]
  /\ UNCHANGED <<locks, groups, daemons, interrupted, restarted, calls>>

Enter(t) ==
  /\ HasMonitor(t)
  /\ call[t].group \in running
  /\ monitor' = [monitor EXCEPT ![call[t].group] = t]
  /\ ZeroCount(call[t].group)
  /\ call' = [call EXCEPT ![t] = [at |-> "joinWorker", group |-> @.group,
                                 all |-> @.all, todo |-> @.todo]]
  /\ UNCHANGED <<mapLock, registered, running, dpc, late, restarted, calls>>

(* Thread.join() returns at once when there is no thread left, without     *)
(* looking at the interrupt flag.                                          *)
JoinWorker(t) ==
  LET g == call[t].group IN
    /\ call[t].at = "joinWorker"
    /\ g \in removed
    /\ ~Alive(WorkerOf(g))
    /\ removed' = removed \ {g}
    /\ life' = [life EXCEPT ![WorkerOf(g)] = "off"]
    /\ UNCHANGED <<locks, registered, running, dpc, late, call, interrupted,
                   restarted, calls>>

(* cleanup() once removedDaemons is empty.                                 *)
Cleanup(t) ==
  LET g == call[t].group
      p == Producer(g) IN
    /\ call[t].at = "joinWorker"
    /\ g \notin removed
    /\ life' = [life EXCEPT ![p] = Requested(@)]
    /\ late' = IF dpc[p] \in {"count", "wakeup"} THEN late \cup {p} ELSE late
    /\ interrupted' = IF Alive(p) THEN interrupted \cup {p} ELSE interrupted
    /\ call' = [call EXCEPT ![t] = [at |-> "joinProducer", group |-> g,
                                   all |-> @.all, todo |-> @.todo]]
    /\ UNCHANGED <<locks, groups, dpc, restarted, calls>>

JoinProducer(t) ==
  LET g == call[t].group IN
    /\ call[t].at = "joinProducer"
    /\ ~Alive(Producer(g))
    /\ life' = [life EXCEPT ![Producer(g)] = "off"]
    /\ running' = running \ {g}
    /\ monitor' = [monitor EXCEPT ![g] = Nobody]
    /\ call' = [call EXCEPT ![t] = Returned(t)]
    /\ UNCHANGED <<mapLock, registered, removed, dpc, late, interrupted,
                   restarted, calls>>

(* The daemon a thread waits for in join(), which may be itself.           *)
Joining(t) ==
  LET g == call[t].group IN
    {d \in {WorkerOf(g)} : call[t].at = "joinWorker" /\ g \in removed /\ Alive(d)}
    \cup {d \in {Producer(g)} : call[t].at = "joinProducer" /\ Alive(d)}

(* shutdown() throws InterruptedException, with the group still running:   *)
(* the thread no longer has its flag set.                                  *)
Throws(t) ==
  /\ t \in interrupted
  /\ Joining(t) # {}
  /\ removed' = removed \ {call[t].group}
  /\ monitor' = [monitor EXCEPT ![call[t].group] = Nobody]
  /\ call' = [call EXCEPT ![t] = Returned(t)]
  /\ UNCHANGED <<mapLock, registered, running, life, dpc, restarted, calls>>

FlagTaken(t) ==
  /\ interrupted' = interrupted \ {t}
  /\ late' = late \cup ({t} \cap Producers)

(* Faulty: shutdownAll() goes on with the flag cleared.                    *)
JoinInterruptedForgotten(t) == Throws(t) /\ FlagTaken(t)

(* Faulty: cleanup() waits for the producer whatever happens.              *)
JoinUninterruptibly(t) ==
  /\ call[t].at = "joinWorker"
  /\ Throws(t)
  /\ IF call[t].all THEN UNCHANGED <<interrupted, late>> ELSE FlagTaken(t)

(* shutdownAll() sets the flag again and goes on.                          *)
JoinInterrupted(t) ==
  /\ Throws(t)
  /\ IF call[t].all THEN UNCHANGED <<interrupted, late>> ELSE FlagTaken(t)

-----------------------------------------------------------------------------
(* The threads of the daemons.                                             *)

DaemonStep(d, from, to) ==
  /\ dpc[d] = from /\ call[d].at = "none"
  /\ dpc' = [dpc EXCEPT ![d] = to]
  /\ UNCHANGED <<locks, groups, life, late, call, restarted, calls>>

(* work() is left, with the flag taken if it was set.                      *)
Leave(d, from) == DaemonStep(d, from, "loop") /\ interrupted' = interrupted \ {d}

Goes(d, from, to) == DaemonStep(d, from, to) /\ UNCHANGED interrupted

(* The loop finds shutdownRequested.                                       *)
Stop(d) ==
  /\ life[d] = "stopping"
  /\ dpc[d] = "loop"
  /\ life' = [life EXCEPT ![d] = "dead"]
  /\ interrupted' = interrupted \ {d} /\ late' = late \ {d}
  /\ UNCHANGED <<locks, groups, dpc, call, restarted, calls>>

(* ProducerDaemon.work(): owner.getCount() ...                             *)
Produce(g) ==
  /\ life[Producer(g)] = "on"
  /\ Goes(Producer(g), "loop", "count")

GetCount(g) ==
  /\ monitor[g] = Nobody
  /\ Goes(Producer(g), "count", IF Listed(g) THEN "replace" ELSE "loop")

(* ... replaceTask(), which may return null, or throw ...                  *)
ReplaceNothing(g) == Leave(Producer(g), "replace")

(* Faulty: Thread.interrupted() is not tested.                             *)
CheckNothing(g) == Goes(Producer(g), "replace", "wakeup")

(* ... and with a list if (Thread.interrupted()) throw ...                 *)
CheckInterrupted(g) ==
  IF Producer(g) \in interrupted THEN Leave(Producer(g), "replace")
  ELSE Goes(Producer(g), "replace", "wakeup")

(* ... owner.wakeup().                                                     *)
Wakeup(g) ==
  /\ monitor[g] = Nobody
  /\ Goes(Producer(g), "wakeup", "loop")

(* WorkerDaemon.work(): one task after another, until there is none left   *)
(* or the flag is set.                                                     *)
RunTask(g) ==
  /\ life[WorkerOf(g)] = "on"
  /\ Goes(WorkerOf(g), "loop", "task")

EndTasks(g) == Leave(WorkerOf(g), "task")

-----------------------------------------------------------------------------
Begins(t) == CallManager(t) \/ \E g \in Groups : CallGroup(t, g)

CallStep(t) ==
  /\ call[t].at # "none"
  /\ \/ GetDaemonGroup(t) \/ ShutdownAll(t) \/ ShutdownAllEnd(t)
     \/ \E g \in Groups : AddDaemonGroup(t, g) \/ NextGroup(t, g)
     \/ ShortCall(t) \/ Startup(t) \/ CountUp(t) \/ CountDown(t)
     \/ EnterStopped(t) \/ Enter(t) \/ JoinWorker(t) \/ Cleanup(t)
     \/ JoinProducer(t) \/ JoinInterrupted(t)

Work(g) ==
  \/ Produce(g) \/ GetCount(g) \/ ReplaceNothing(g) \/ CheckInterrupted(g)
  \/ Wakeup(g)

(* The next step of a thread on its own, without a new call.               *)
Runs(t) ==
  \/ CallStep(t)
  \/ \E g \in Groups :
       \/ t = Producer(g) /\ Work(g)
       \/ t = WorkerOf(g) /\ (RunTask(g) \/ EndTasks(g))
  \/ t \in Daemons /\ Stop(t)

Next ==
  \/ \E t \in Threads : Begins(t) \/ Runs(t)
  \/ \E c \in Clients : Interrupt(c)
  \/ \E d \in Daemons : TakeInterrupt(d)

Spec == Init /\ [][Next]_vars

(* Threads run; tasks end, and so does the queue of tasks.                 *)
Fairness == \A t \in Threads : WF_vars(Runs(t))

-----------------------------------------------------------------------------
(* The thread that has the lock a thread asks for.                         *)
Wanted(t) ==
  CASE call[t].at = "enter" -> monitor[call[t].group]
    [] call[t].at = "map" -> mapLock
    [] t \in Daemons /\ dpc[t] \in {"count", "wakeup"} -> monitor[t[1]]
    [] OTHER -> Nobody

(* The thread a thread waits for; none, if it can go on.                   *)
WaitsFor(t) ==
  ({Wanted(t)} \ {Nobody}) \cup (IF t \in interrupted THEN {} ELSE Joining(t))

(* Threads that wait for each other in a circle.                           *)
Circle(S) ==
  /\ S # {}
  /\ UNION {WaitsFor(t) : t \in S} = S
  /\ \A R \in (SUBSET S) \ {{}, S} : UNION {WaitsFor(t) : t \in R} # R

Waiting == {t \in Threads : WaitsFor(t) # {}}

Deadlocks == {S \in SUBSET Waiting : Circle(S)}

(* A daemon that shuts nothing down and asks for no other group.           *)
Modest(d) ==
  /\ Joining(d) = {} /\ mapLock # d
  /\ call[d].at = "enter" => call[d].group = d[1]

(* What a deadlock is, whatever the application calls in its daemons.      *)
(* Somebody in the circle waits in a join, and nobody is in it but those,  *)
(* the owner of the map, and the daemons they wait for.  A producer that   *)
(* is in its own work() ("may be deadlock", says the comment on wakeup())  *)
(* was asking for the monitor when it was asked to stop, or had taken the  *)
(* interrupt: the test of the flag saves every other.  With modest daemons *)
(* the circle is a client and a daemon of the group it shuts down, or      *)
(* these two and a thread in shutdownAll(), which has the map.             *)
DeadlockShape ==
  \A S \in Deadlocks :
    /\ \E t \in S : Joining(t) # {}
    /\ \A t \in S : mapLock = t \/ Joining(t) # {} \/ \E u \in S : t \in Joining(u)
    /\ \A g \in Groups :
         Producer(g) \in S /\ dpc[Producer(g)] \in {"count", "wakeup"} =>
           Producer(g) \in late
    /\ (\A d \in S \cap Daemons : Modest(d)) =>
         \E c \in S \cap Clients, d \in S \cap Daemons :
           /\ monitor[d[1]] = c
           /\ S = {c, d} \/ \E e \in S : mapLock = e /\ S = {c, d, e}

(* When shutdownAll() returns, every group has been stopped that was not   *)
(* started again in the meantime, unless the thread was interrupted; then  *)
(* the flag is still set for the caller to see.                            *)
AllStopped ==
  [][\A t \in Threads :
       mapLock = t /\ mapLock' # t =>
         registered \cap running \subseteq restarted \/ t \in interrupted]_vars


(* A client that has been interrupted is not kept by daemons: its call     *)
(* ends, unless it has to wait for a lock that another thread has.         *)
InterruptFrees ==
  \A c \in Clients :
    []<>(c \notin interrupted \/ call[c].at = "none" \/ Wanted(c) # Nobody)
=============================================================================
