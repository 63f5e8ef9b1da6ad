------------------------------- MODULE Daemon -------------------------------
(***************************************************************************)
(* org.karatachi.daemon.Daemon: a restartable background thread.           *)
(*                                                                         *)
(* Client threads call startup, wakeup, shutdown and join, all of them     *)
(* synchronized on the Daemon.  The thread they control is an instance of  *)
(* the inner class Worker; each startup after a join creates a new one.    *)
(* The worker's loop reads nextRun and shutdownRequested with no lock held *)
(* and waits on its own Thread object, which is also the object that       *)
(* Thread.join waits on.                                                   *)
(*                                                                         *)
(* The work() of a daemon is the application's.  It may run statements     *)
(* through StatementWrapper (karatachi-database), which registers their    *)
(* cancel() as the worker's InterruptableOperation.                        *)
(***************************************************************************)
EXTENDS Naturals

CONSTANTS
  Clients,      \* threads that call the public methods of the daemon
  Workers,      \* names of Worker threads; one that has ended is used again
  NoWorker,     \* executor == null
  Free,         \* nobody owns the monitor of the Daemon
  Periodic      \* TRUE: updateNextRun() sets nextRun; FALSE: it is a no-op

ASSUME WorkerAssumption == NoWorker \notin Workers
ASSUME FreeAssumption == Free \notin Clients
ASSUME KindAssumption == Periodic \in BOOLEAN

VARIABLES
  executor,           \* the current Worker, or NoWorker
  nextRun,            \* "asap" (negative), "later" (> now) or "due" (<= now)
  monitor,            \* owner of the Daemon's monitor between two steps
  call,               \* where each client is inside a method
  pc,                 \* where each worker is in run()
  shutdownRequested,  \* Worker.shutdownRequested
  interrupted,        \* the interrupt flag of the Worker thread
  interruptable,      \* Worker.interruptable is a statement's cancel()
  wokenAt,            \* history: see Wakeup
  cancelAt,           \* history: see ShutdownCancel
  swallowed           \* history: work() cleared its flag and carried on

clientVars == <<executor, monitor, call>>
workerVars == <<pc, shutdownRequested, interrupted, interruptable>>
history == <<wokenAt, cancelAt, swallowed>>
vars == <<clientVars, nextRun, workerVars, history>>

-----------------------------------------------------------------------------
(* The points of run() a worker can be at, named for what it does next.    *)

WorkPCs == {"work", "set", "armed", "exec", "raw"}   \* inside work()
WaitPCs == {"wait", "timedwait"}                     \* in the wait set
IdlePCs == {"loop", "check"} \cup WaitPCs            \* before the next work()
PCs == IdlePCs \cup WorkPCs
         \cup {"new", "update", "fail", "die", "test", "lock",
               "sleep", "timedlock", "done"}

Live(w) == pc[w] \notin {"new", "done"}

(* Types, and the monitor: a client is inside a method iff it owns it.     *)
TypeOK ==
  /\ executor \in Workers \cup {NoWorker}
  /\ nextRun \in {"asap", "later", "due"}
  /\ monitor \in Clients \cup {Free}
  /\ call \in [Clients -> {"none", "flagged", "interrupting", "joining"}]
  /\ \A c \in Clients : call[c] # "none" <=> monitor = c
  /\ pc \in [Workers -> PCs]
  /\ shutdownRequested \in [Workers -> BOOLEAN]
  /\ interrupted \in [Workers -> BOOLEAN]
  /\ interruptable \in [Workers -> BOOLEAN]
  /\ wokenAt \in PCs \cup {"none"}
  /\ cancelAt \in [Workers -> PCs \cup {"none"}]
  /\ swallowed \in [Workers -> BOOLEAN]

Init ==
  /\ executor = NoWorker
  /\ nextRun = "asap"
  /\ monitor = Free
  /\ call = [c \in Clients |-> "none"]
  /\ pc = [w \in Workers |-> "new"]
  /\ shutdownRequested = [w \in Workers |-> FALSE]
  /\ interrupted = [w \in Workers |-> FALSE]
  /\ interruptable = [w \in Workers |-> FALSE]
  /\ wokenAt = "none"
  /\ cancelAt = [w \in Workers |-> "none"]
  /\ swallowed = [w \in Workers |-> FALSE]

-----------------------------------------------------------------------------
(* The methods of Daemon.                                                  *)

(* A synchronized method entered by a client: nobody owns the monitor.     *)
Synchronized(c) == monitor = Free /\ call[c] = "none"

(* new Worker(name).start(): a name of Workers that no live thread has,    *)
(* with fresh fields.  nextRun is the Daemon's and keeps the value the     *)
(* previous worker left.                                                   *)
Startup(c, w) ==
  /\ Synchronized(c)
  /\ executor = NoWorker
  /\ ~Live(w)
  /\ executor' = w
  /\ pc' = [pc EXCEPT ![w] = "loop"]
  /\ shutdownRequested' = [shutdownRequested EXCEPT ![w] = FALSE]
  /\ interrupted' = [interrupted EXCEPT ![w] = FALSE]
  /\ interruptable' = [interruptable EXCEPT ![w] = FALSE]
  /\ wokenAt' = "none"
  /\ cancelAt' = [cancelAt EXCEPT ![w] = "none"]
  /\ swallowed' = [swallowed EXCEPT ![w] = FALSE]
  /\ UNCHANGED <<nextRun, monitor, call>>

(* The threads in the wait set of a Worker object: the worker itself, and  *)
(* the clients blocked in Thread.join, which waits on the same object.     *)
WaitSet(w) ==
  (IF pc[w] \in WaitPCs THEN {w} ELSE {})
    \cup {c \in Clients : call[c] = "joining"}

(* Faulty: wakeup() without nextRun = -1.                                  *)
WakeupKeepingNextRun(c) ==
  /\ Synchronized(c)
  /\ executor # NoWorker
  /\ pc' = IF pc[executor] \in WaitPCs THEN [pc EXCEPT ![executor] = "loop"] ELSE pc
  /\ wokenAt' = IF wokenAt \in IdlePCs THEN wokenAt ELSE pc[executor]
  /\ UNCHANGED <<clientVars, nextRun, shutdownRequested, interrupted,
                 interruptable, cancelAt, swallowed>>

(* notify() moves one thread, any one, out of the wait set.  A joiner      *)
(* that is notified finds the worker alive and waits again.  wokenAt keeps *)
(* where the worker was at the last wakeup that no start of work() has     *)
(* followed yet, a point before work() taking precedence.                  *)
Wakeup(c) ==
  /\ Synchronized(c)
  /\ executor # NoWorker
  /\ nextRun' = "asap"
  /\ \/ WaitSet(executor) = {} /\ UNCHANGED pc
     \/ \E t \in WaitSet(executor) :
          pc' = IF t = executor THEN [pc EXCEPT ![executor] = "loop"] ELSE pc
  /\ wokenAt' = IF wokenAt \in IdlePCs THEN wokenAt ELSE pc[executor]
  /\ UNCHANGED <<clientVars, shutdownRequested, interrupted, interruptable,
                 cancelAt, swallowed>>

(* shutdown() runs Worker.shutdownRequest() in three steps, the worker     *)
(* running all the while: the flag, the interrupt, the cancel.             *)
ShutdownFlag(c) ==
  /\ Synchronized(c)
  /\ executor # NoWorker
  /\ shutdownRequested' = [shutdownRequested EXCEPT ![executor] = TRUE]
  /\ monitor' = c
  /\ call' = [call EXCEPT ![c] = "flagged"]
  /\ UNCHANGED <<executor, nextRun, pc, interrupted, interruptable, history>>

(* Interrupting a thread that has ended, or was never started, is a no-op. *)
ShutdownInterrupt(c) ==
  /\ call[c] = "flagged"
  /\ interrupted' = [interrupted EXCEPT ![executor] = @ \/ Live(executor)]
  /\ call' = [call EXCEPT ![c] = "interrupting"]
  /\ UNCHANGED <<executor, nextRun, monitor, pc, shutdownRequested,
                 interruptable, history>>

(* Faulty: shutdownRequest() without interruptable.interrupt().            *)
ShutdownWithoutCancel(c) ==
  /\ call[c] = "interrupting"
  /\ cancelAt' = [cancelAt EXCEPT ![executor] = pc[executor]]
  /\ monitor' = Free
  /\ call' = [call EXCEPT ![c] = "none"]
  /\ UNCHANGED <<executor, nextRun, workerVars, wokenAt, swallowed>>

(* interruptable.interrupt(): Statement.cancel() ends the statement if it  *)
(* is executing and does nothing to one that has not begun.  The statement *)
(* throws SQLException, which work() catches or not; the finally block of  *)
(* the wrapper clears the operation.  cancelAt keeps where the cancel      *)
(* found the worker.                                                       *)
ShutdownCancel(c) ==
  /\ call[c] = "interrupting"
  /\ IF pc[executor] = "exec" /\ interruptable[executor]
     THEN /\ \E next \in {"work", "fail"} : pc' = [pc EXCEPT ![executor] = next]
          /\ interruptable' = [interruptable EXCEPT ![executor] = FALSE]
     ELSE UNCHANGED <<pc, interruptable>>
  /\ cancelAt' = [cancelAt EXCEPT ![executor] = pc[executor]]
  /\ monitor' = Free
  /\ call' = [call EXCEPT ![c] = "none"]
  /\ UNCHANGED <<executor, nextRun, shutdownRequested, interrupted, wokenAt,
                 swallowed>>

(* join() asks for a worker and for nothing else, and keeps the Daemon's   *)
(* monitor while Thread.join waits: the join of a worker that nobody shut  *)
(* down keeps shutdown() out until the joiner is interrupted.              *)
Join(c) ==
  /\ Synchronized(c)
  /\ executor # NoWorker
  /\ monitor' = c
  /\ call' = [call EXCEPT ![c] = "joining"]
  /\ UNCHANGED <<executor, nextRun, workerVars, history>>

JoinReturn(c) ==
  /\ call[c] = "joining"
  /\ \E w \in Workers : executor = w /\ pc[w] = "done"
  /\ executor' = NoWorker
  /\ monitor' = Free
  /\ call' = [call EXCEPT ![c] = "none"]
  /\ UNCHANGED <<nextRun, workerVars, history>>

(* Faulty: executor = null in a finally block.                             *)
JoinInterruptedClears(c) ==
  /\ call[c] = "joining"
  /\ executor' = NoWorker
  /\ monitor' = Free
  /\ call' = [call EXCEPT ![c] = "none"]
  /\ UNCHANGED <<nextRun, workerVars, history>>

(* The joining thread is itself interrupted: executor stays.               *)
JoinInterrupted(c) ==
  /\ call[c] = "joining"
  /\ monitor' = Free
  /\ call' = [call EXCEPT ![c] = "none"]
  /\ UNCHANGED <<executor, nextRun, workerVars, history>>

-----------------------------------------------------------------------------
(* Worker.run().                                                           *)

Goto(w, next) == pc' = [pc EXCEPT ![w] = next]

(* Faulty: while (true).                                                   *)
LoopForever(w) ==
  /\ pc[w] = "loop"
  /\ Goto(w, "check")
  /\ UNCHANGED <<clientVars, nextRun, shutdownRequested, interrupted,
                 interruptable, history>>

(* while (!shutdownRequested)                                              *)
LoopTest(w) ==
  /\ pc[w] = "loop"
  /\ Goto(w, IF shutdownRequested[w] THEN "done" ELSE "check")
  /\ UNCHANGED <<clientVars, nextRun, shutdownRequested, interrupted,
                 interruptable, history>>

(* Start work() when nextRun is negative or past.                          *)
Check(w) ==
  /\ pc[w] = "check"
  /\ IF nextRun \in {"asap", "due"}
     THEN Goto(w, "work") /\ wokenAt' = "none"
     ELSE Goto(w, "test") /\ UNCHANGED wokenAt
  /\ UNCHANGED <<clientVars, nextRun, shutdownRequested, interrupted,
                 interruptable, cancelAt, swallowed>>

(* work() returns, throws an Exception, or throws an Error, which run()    *)
(* does not catch.                                                         *)
WorkEnds(w) ==
  /\ pc[w] = "work"
  /\ \E next \in {"update", "fail", "die"} : Goto(w, next)
  /\ UNCHANGED <<clientVars, nextRun, shutdownRequested, interrupted,
                 interruptable, history>>

(* A blocking call or a test of the flag in work() meets the interrupt:    *)
(* the InterruptedException leaves work(), or work() swallows it.          *)
WorkInterrupted(w) ==
  /\ pc[w] = "work"
  /\ interrupted[w]
  /\ interrupted' = [interrupted EXCEPT ![w] = FALSE]
  /\ \/ Goto(w, "fail") /\ UNCHANGED swallowed
     \/ swallowed' = [swallowed EXCEPT ![w] = TRUE] /\ UNCHANGED pc
  /\ UNCHANGED <<clientVars, nextRun, shutdownRequested, interruptable,
                 wokenAt, cancelAt>>

(* StatementWrapper.execute: setInterruptable assigns the operation ...    *)
BeginStatement(w) ==
  /\ pc[w] = "work"
  /\ interruptable' = [interruptable EXCEPT ![w] = TRUE]
  /\ Goto(w, "set")
  /\ UNCHANGED <<clientVars, nextRun, shutdownRequested, interrupted, history>>

(* Faulty: the flag is not tested.                                         *)
TestNothing(w) ==
  /\ pc[w] = "set"
  /\ Goto(w, "armed")
  /\ UNCHANGED <<clientVars, nextRun, shutdownRequested, interrupted,
                 interruptable, history>>

(* Faulty: the wrapper does not set the flag again.                        *)
TestAndClear(w) ==
  /\ pc[w] = "set"
  /\ interrupted' = [interrupted EXCEPT ![w] = FALSE]
  /\ IF interrupted[w]
     THEN /\ interruptable' = [interruptable EXCEPT ![w] = FALSE]
          /\ \E next \in {"work", "fail"} : Goto(w, next)
     ELSE Goto(w, "armed") /\ UNCHANGED interruptable
  /\ UNCHANGED <<clientVars, nextRun, shutdownRequested, history>>

(* ... and only then tests the flag.  The wrapper sets the flag again and  *)
(* throws SQLException, which work() catches or not.                       *)
TestInterrupted(w) ==
  /\ pc[w] = "set"
  /\ IF interrupted[w]
     THEN /\ interruptable' = [interruptable EXCEPT ![w] = FALSE]
          /\ \E next \in {"work", "fail"} : Goto(w, next)
     ELSE Goto(w, "armed") /\ UNCHANGED interruptable
  /\ UNCHANGED <<clientVars, nextRun, shutdownRequested, interrupted, history>>

ExecuteStatement(w) ==
  /\ pc[w] = "armed"
  /\ Goto(w, "exec")
  /\ UNCHANGED <<clientVars, nextRun, shutdownRequested, interrupted,
                 interruptable, history>>

(* executeBatch() and PreparedStatement.execute() are passed on without    *)
(* registering an operation or testing the flag.                           *)
ExecuteUnregistered(w) ==
  /\ pc[w] = "work"
  /\ Goto(w, "raw")
  /\ UNCHANGED <<clientVars, nextRun, shutdownRequested, interrupted,
                 interruptable, history>>

(* The statement returns or throws of its own accord; clearInterruptable.  *)
EndStatement(w) ==
  /\ pc[w] \in {"exec", "raw"}
  /\ interruptable' = [interruptable EXCEPT ![w] = FALSE]
  /\ \E next \in {"work", "fail"} : Goto(w, next)
  /\ UNCHANGED <<clientVars, nextRun, shutdownRequested, interrupted, history>>

(* Faulty: the override of updateNextRun() is forgotten.                   *)
UpdateNextRunNot == {nextRun}

(* updateNextRun(): the subclasses that override it set the start of this  *)
(* run plus an interval, which may be past already.                        *)
UpdateNextRun == IF Periodic THEN {"later", "due"} ELSE {nextRun}

(* The finally block, then the rest of the loop body, the catch clause, or *)
(* the end of the thread.                                                  *)
Finally(w) ==
  /\ pc[w] \in {"update", "fail", "die"}
  /\ nextRun' \in UpdateNextRun
  /\ Goto(w, CASE pc[w] = "update" -> "test"
               [] pc[w] = "fail" -> "loop"
               [] pc[w] = "die" -> "done")
  /\ UNCHANGED <<clientVars, shutdownRequested, interrupted, interruptable,
                 history>>

(* The second test of nextRun chooses between wait() and wait(sleep).      *)
TestNextRun(w) ==
  /\ pc[w] = "test"
  /\ Goto(w, IF nextRun = "asap" THEN "lock" ELSE "sleep")
  /\ UNCHANGED <<clientVars, nextRun, shutdownRequested, interrupted,
                 interruptable, history>>

(* sleep = nextRun - now; no wait unless it is positive.                   *)
ComputeSleep(w) ==
  /\ pc[w] = "sleep"
  /\ Goto(w, IF nextRun = "later" THEN "timedlock" ELSE "loop")
  /\ UNCHANGED <<clientVars, nextRun, shutdownRequested, interrupted,
                 interruptable, history>>

(* wait() throws at once if the flag is set, and clears it.                *)
EnterWait(w) ==
  /\ pc[w] \in {"lock", "timedlock"}
  /\ IF interrupted[w]
     THEN Goto(w, "loop") /\ interrupted' = [interrupted EXCEPT ![w] = FALSE]
     ELSE /\ Goto(w, IF pc[w] = "lock" THEN "wait" ELSE "timedwait")
          /\ UNCHANGED interrupted
  /\ UNCHANGED <<clientVars, nextRun, shutdownRequested, interruptable,
                 history>>

WaitInterrupted(w) ==
  /\ pc[w] \in WaitPCs
  /\ interrupted[w]
  /\ interrupted' = [interrupted EXCEPT ![w] = FALSE]
  /\ Goto(w, "loop")
  /\ UNCHANGED <<clientVars, nextRun, shutdownRequested, interruptable,
                 history>>

(* wait(sleep) expires, whatever nextRun has become since.                 *)
WaitTimeout(w) ==
  /\ pc[w] = "timedwait"
  /\ Goto(w, "loop")
  /\ UNCHANGED <<clientVars, nextRun, shutdownRequested, interrupted,
                 interruptable, history>>

(* Object.wait may return for no reason.                                   *)
SpuriousWakeup(w) ==
  /\ pc[w] = "wait"
  /\ Goto(w, "loop")
  /\ UNCHANGED <<clientVars, nextRun, shutdownRequested, interrupted,
                 interruptable, history>>

(* The clock passes nextRun.                                               *)
Tick ==
  /\ nextRun = "later"
  /\ nextRun' = "due"
  /\ UNCHANGED <<clientVars, workerVars, history>>

-----------------------------------------------------------------------------
ClientStep(c) ==
  \/ \E w \in Workers : Startup(c, w)
  \/ Wakeup(c)
  \/ ShutdownFlag(c) \/ ShutdownInterrupt(c) \/ ShutdownCancel(c)
  \/ Join(c) \/ JoinReturn(c) \/ JoinInterrupted(c)

(* The steps of run() outside the application's work().                    *)
RunStep(w) ==
  \/ LoopTest(w) \/ Check(w) \/ Finally(w)
  \/ TestNextRun(w) \/ ComputeSleep(w)
  \/ EnterWait(w) \/ WaitInterrupted(w) \/ WaitTimeout(w)

WrapperStep(w) == TestInterrupted(w) \/ ExecuteStatement(w)

WorkStep(w) ==
  \/ WorkEnds(w) \/ WorkInterrupted(w)
  \/ BeginStatement(w) \/ ExecuteUnregistered(w)

Next ==
  \/ \E c \in Clients : ClientStep(c)
  \/ \E w \in Workers :
       \/ RunStep(w) \/ WrapperStep(w) \/ WorkStep(w)
       \/ EndStatement(w) \/ SpuriousWakeup(w)
  \/ Tick

Spec == Init /\ [][Next]_vars

(* Threads inside run() or inside shutdown() are scheduled, a joiner       *)
(* notices the end of the worker, and work() does not go on for ever: when *)
(* it keeps coming back to its own code, it ends.                          *)
Fairness ==
  /\ \A c \in Clients :
       WF_vars(ShutdownInterrupt(c) \/ ShutdownCancel(c) \/ JoinReturn(c))
  /\ \A w \in Workers :
       WF_vars(RunStep(w) \/ WrapperStep(w)) /\ SF_vars(WorkEnds(w))

(* A statement may never return on its own.                                *)
FairSpec == Spec /\ Fairness

(* Every statement returns in the end.                                     *)
StatementsReturn == \A w \in Workers : WF_vars(EndStatement(w))

-----------------------------------------------------------------------------
(* Safety.                                                                 *)

(* Whatever clients start, stop, join and interrupt, two worker threads of *)
(* one daemon never run at the same time: a worker that has not ended is   *)
(* the executor.                                                           *)
AtMostOneLive == \A w \in Workers : Live(w) => executor = w

(* Thread.join waits on the object that wakeup() notifies, so a notify     *)
(* could go to a joiner.  It never does: a wakeup that finds the worker    *)
(* waiting always releases the worker.                                     *)
WakeupReleasesWorker ==
  [][\A c \in Clients, w \in Workers :
       Wakeup(c) /\ executor = w /\ pc[w] \in WaitPCs => pc'[w] = "loop"]_vars

(* A wakeup given while the worker was waiting, or before its test of      *)
(* nextRun, is never followed by another wait: the next work() comes       *)
(* first, or the end of the worker.                                        *)
IdleWakeupServed ==
  \A w \in Workers :
    executor = w /\ wokenAt \in IdlePCs => pc[w] \in {"loop", "check", "done"}

(* A daemon that sets nextRun after every run waits without a time limit   *)
(* in one case only: a wakeup came between updateNextRun() and the second  *)
(* test of nextRun.                                                        *)
PeriodicOversleep ==
  Periodic => \A w \in Workers : pc[w] = "wait" => wokenAt \in {"test", "lock"}

(* A statement still executing when shutdown() has returned is one that    *)
(* the cancel found between the test of the flag and its execution (or     *)
(* work() has thrown its interrupt away).                                  *)
StatementOutlivesShutdown ==
  \A w \in Workers :
    pc[w] = "exec" /\ cancelAt[w] # "none" =>
      cancelAt[w] = "armed" \/ swallowed[w]

(* The daemon as its groups see it.                                        *)
Status ==
  CASE executor = NoWorker -> "off"
    [] executor # NoWorker /\ pc[executor] = "done" -> "dead"
    [] executor # NoWorker /\ pc[executor] # "done" ->
         IF shutdownRequested[executor] THEN "stopping" ELSE "on"

Working == executor # NoWorker /\ pc[executor] \in WorkPCs

Grace ==
  /\ executor # NoWorker
  /\ shutdownRequested[executor]
  /\ pc[executor] = "check"

Life == INSTANCE DaemonLifecycle
          WITH life <- Status, working <- Working, grace <- Grace

(* The fine-grained daemon implements DaemonLifecycle: in particular work()*)
(* begins at most once after shutdown(), and never in a daemon that has    *)
(* been joined.                                                            *)
ImplementsLifecycle == Life!LifeSpec

(* Liveness.                                                               *)

(* Where statements return, shutdown() ends the worker, unless work()      *)
(* throws its interrupt away.                                              *)
ShutdownTerminates ==
  StatementsReturn =>
    \A w \in Workers :
      shutdownRequested[w] ~> pc[w] = "done" \/ swallowed[w]

(* Even with statements that never return, shutdown() ends the worker      *)
(* unless its cancel fell between the test of the flag and the execution,  *)
(* work() throws its interrupt away, or the statement is not registered.   *)
CancelTerminates ==
  \A w \in Workers :
    cancelAt[w] \notin {"none", "armed"}
      ~> pc[w] \in {"done", "raw"} \/ swallowed[w]
=============================================================================
