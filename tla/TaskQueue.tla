----------------------------- MODULE TaskQueue -----------------------------
(***************************************************************************)
(* The tasks of a ProducerWorkerDaemonGroup: ProducerDaemon and            *)
(* WorkerDaemon.                                                           *)
(*                                                                         *)
(* The producer fills the queue again and again from what the application  *)
(* has to do, by building a new ConcurrentSkipListSet and assigning it to  *)
(* a volatile field; workers poll it, run the task and commit it or roll   *)
(* it back.  No lock covers these steps: what a worker holds is known to   *)
(* the producer only through running and finished, which the worker        *)
(* updates one at a time.                                                  *)
(***************************************************************************)
EXTENDS Naturals, FiniteSets

CONSTANTS
  Workers,      \* worker daemons
  Tasks,        \* tasks, ordered by compareTo: numbers
  Queues,       \* names for queue objects; one nobody refers to is used again
  NoTask,
  NoQueue,
  MaxCalls      \* bound: how often the application calls in or has new work

ASSUME TaskAssumption == Tasks \subseteq Nat /\ NoTask \notin Tasks
ASSUME QueueAssumption == NoQueue \notin Queues
ASSUME CallsAssumption == MaxCalls \in Nat

VARIABLES
  pending,    \* tasks the application has to do: what replaceTask() reads
  calls,      \* how often it may still add, clear or submit
  cur,        \* ProducerDaemon.queue: the queue object in use
  contents,   \* the tasks in each queue object
  running,    \* ProducerDaemon.running: how often it holds each task
  finished,   \* ProducerDaemon.finished
  pc,         \* where each worker is in WorkerDaemon.work()
  held,       \* the task a worker has polled
  ref,        \* the queue object a worker has read from the field
  ppc,        \* where the producer is in ProducerDaemon.work()
  fresh,      \* newTaskQueue
  untested,   \* tasks of newTaskQueue not yet compared with running
  adding,     \* a call of addTask: the queue it has read and its task
  slipped,    \* history: tasks taken where the producer could not see it
  died        \* history: workers killed by an Error in work(task)

workers == <<pc, held, ref>>
producer == <<ppc, fresh, untested>>
shared == <<cur, contents, running, finished>>
history == <<slipped, died>>
vars == <<pending, calls, shared, workers, producer, adding, history>>

(* "took" to "requeue": the worker holds a task; "run" to "rollback": the  *)
(* task is in running.                                                     *)
Registered == {"run", "commit", "rollback"}
Holding == Registered \cup {"took", "committed", "rolledback", "requeue"}
PCs == Holding \cup {"wait", "gap", "read", "take"}

Holders(t) == {w \in Workers : held[w] = t /\ pc[w] \in Holding}

(* The workers that hold t while the producer cannot see it in running.    *)
Hiding(t) == {w \in Holders(t) : pc[w] \notin Registered}

NoAdding == [queue |-> NoQueue, task |-> NoTask]

TypeOK ==
  /\ pending \subseteq Tasks
  /\ calls \in Nat
  /\ cur \in Queues
  /\ contents \in [Queues -> SUBSET Tasks]
  /\ running \in [Tasks -> Nat]
  /\ finished \subseteq Tasks
  /\ pc \in [Workers -> PCs \cup {"dead"}]
  /\ held \in [Workers -> Tasks \cup {NoTask}]
  /\ \A w \in Workers : held[w] # NoTask <=> pc[w] \in Holding \cup {"dead"}
  /\ ref \in [Workers -> Queues \cup {NoQueue}]
  /\ \A w \in Workers : ref[w] # NoQueue <=> pc[w] \in {"take", "requeue"}
  /\ ppc \in {"idle", "filter", "drain", "swap", "wakeup"}
  /\ fresh \subseteq Tasks
  /\ untested \subseteq fresh
  /\ adding \in {NoAdding} \cup [queue : Queues, task : Tasks]
  /\ slipped \subseteq Tasks
  /\ died \subseteq Workers

Init ==
  /\ pending \in SUBSET Tasks
  /\ calls = MaxCalls
  /\ cur \in Queues
  /\ contents = [q \in Queues |-> {}]
  /\ running = [t \in Tasks |-> 0]
  /\ finished = {}
  /\ pc = [w \in Workers |-> "read"]
  /\ held = [w \in Workers |-> NoTask]
  /\ ref = [w \in Workers |-> NoQueue]
  /\ ppc = "idle" /\ fresh = {} /\ untested = {}
  /\ adding = NoAdding
  /\ slipped = {} /\ died = {}

-----------------------------------------------------------------------------
(* The application.                                                        *)

(* There is something to do, perhaps again.                                *)
Submit(t) ==
  /\ calls > 0
  /\ t \notin pending
  /\ calls' = calls - 1
  /\ pending' = pending \cup {t}
  /\ UNCHANGED <<shared, workers, producer, adding, history>>

-----------------------------------------------------------------------------
(* WorkerDaemon.work().                                                    *)

(* poll(): the field is read ...                                           *)
ReadQueue(w) ==
  /\ pc[w] = "read"
  /\ ref' = [ref EXCEPT ![w] = cur]
  /\ pc' = [pc EXCEPT ![w] = "take"]
  /\ UNCHANGED <<pending, calls, shared, held, producer, adding, history>>

First(q) == {t \in contents[q] : \A u \in contents[q] : t <= u}

(* ... and pollFirst removes the least task of that queue object, which    *)
(* may have been replaced since; an empty queue ends work().               *)
PollEmpty(w) ==
  /\ pc[w] = "take"
  /\ contents[ref[w]] = {}
  /\ ref' = [ref EXCEPT ![w] = NoQueue]
  /\ pc' = [pc EXCEPT ![w] = "gap"]
  /\ UNCHANGED <<pending, calls, shared, held, producer, adding, history>>

PollFirst(w) ==
  /\ pc[w] = "take"
  /\ \E t \in First(ref[w]) :
       /\ contents' = [contents EXCEPT ![ref[w]] = @ \ {t}]
       /\ held' = [held EXCEPT ![w] = t]
       /\ slipped' = IF ref[w] # cur \/ t \in fresh \ untested
                     THEN slipped \cup {t} ELSE slipped
  /\ ref' = [ref EXCEPT ![w] = NoQueue]
  /\ pc' = [pc EXCEPT ![w] = "took"]
  /\ UNCHANGED <<pending, calls, cur, running, finished, producer, adding,
                 died>>

(* Faulty: the task is not put into running.                               *)
RegisterNot(w) ==
  /\ pc[w] = "took"
  /\ pc' = [pc EXCEPT ![w] = "run"]
  /\ UNCHANGED <<pending, calls, shared, held, ref, producer, adding, history>>

Register(w) ==
  /\ pc[w] = "took"
  /\ running' = [running EXCEPT ![held[w]] = @ + 1]
  /\ pc' = [pc EXCEPT ![w] = "run"]
  /\ UNCHANGED <<pending, calls, cur, contents, finished, held, ref,
                 producer, adding, history>>

(* work(task) returns true: the application has nothing to do for it.      *)
Succeed(w) ==
  /\ pc[w] = "run"
  /\ pending' = pending \ {held[w]}
  /\ pc' = [pc EXCEPT ![w] = "commit"]
  /\ UNCHANGED <<calls, shared, held, ref, producer, adding, history>>

(* work(task) returns false or throws an Exception.                        *)
Fail(w) ==
  /\ pc[w] = "run"
  /\ pc' = [pc EXCEPT ![w] = "rollback"]
  /\ UNCHANGED <<pending, calls, shared, held, ref, producer, adding, history>>

(* work(task) throws an Error: no commit, no rollback, and the thread ends.*)
Die(w) ==
  /\ pc[w] = "run"
  /\ pc' = [pc EXCEPT ![w] = "dead"]
  /\ died' = died \cup {w}
  /\ UNCHANGED <<pending, calls, shared, held, ref, producer, adding, slipped>>

(* if (running.remove(task)): one entry for the task goes; without one the *)
(* call ends here.                                                         *)
Unregister(w, next) ==
  IF running[held[w]] > 0
  THEN /\ running' = [running EXCEPT ![held[w]] = @ - 1]
       /\ pc' = [pc EXCEPT ![w] = next]
       /\ UNCHANGED held
  ELSE /\ pc' = [pc EXCEPT ![w] = "read"]
       /\ held' = [held EXCEPT ![w] = NoTask]
       /\ UNCHANGED running

(* commit(): running.remove(task), then finished.add(task).                *)
CommitRemove(w) ==
  /\ pc[w] = "commit"
  /\ Unregister(w, "committed")
  /\ UNCHANGED <<pending, calls, cur, contents, finished, ref,
                 producer, adding, history>>

(* Faulty: the task is not put into finished.                              *)
CommitWithoutFinished(w) ==
  /\ pc[w] = "committed"
  /\ held' = [held EXCEPT ![w] = NoTask]
  /\ pc' = [pc EXCEPT ![w] = "read"]
  /\ UNCHANGED <<pending, calls, shared, ref, producer, adding, history>>

CommitFinish(w) ==
  /\ pc[w] = "committed"
  /\ finished' = finished \cup {held[w]}
  /\ held' = [held EXCEPT ![w] = NoTask]
  /\ pc' = [pc EXCEPT ![w] = "read"]
  /\ UNCHANGED <<pending, calls, cur, contents, running, ref, producer,
                 adding, history>>

(* rollback(): running.remove(task), then the field is read, then the task *)
(* goes into that queue object, which may have been replaced since.        *)
RollbackRemove(w) ==
  /\ pc[w] = "rollback"
  /\ Unregister(w, "rolledback")
  /\ UNCHANGED <<pending, calls, cur, contents, finished, ref,
                 producer, adding, history>>

RollbackRead(w) ==
  /\ pc[w] = "rolledback"
  /\ ref' = [ref EXCEPT ![w] = cur]
  /\ pc' = [pc EXCEPT ![w] = "requeue"]
  /\ UNCHANGED <<pending, calls, shared, held, producer, adding, history>>

RollbackAdd(w) ==
  /\ pc[w] = "requeue"
  /\ contents' = [contents EXCEPT ![ref[w]] = @ \cup {held[w]}]
  /\ held' = [held EXCEPT ![w] = NoTask]
  /\ ref' = [ref EXCEPT ![w] = NoQueue]
  /\ pc' = [pc EXCEPT ![w] = "read"]
  /\ UNCHANGED <<pending, calls, cur, running, finished, producer, adding,
                 history>>

(* Back in the daemon's loop the worker waits; a wakeup before that is     *)
(* lost (Daemon).                                                          *)
Wait(w) ==
  /\ pc[w] = "gap"
  /\ pc' = [pc EXCEPT ![w] = "wait"]
  /\ UNCHANGED <<pending, calls, shared, held, ref, producer, adding, history>>

(* owner.wakeup()                                                          *)
Woken == [w \in Workers |-> IF pc[w] = "wait" THEN "read" ELSE pc[w]]

(* addTask(): the field is read, the tasks are added to that queue object, *)
(* then the workers are woken.  The application adds what it has to do.    *)
AddTaskRead(t) ==
  /\ adding = NoAdding
  /\ calls > 0
  /\ t \in pending
  /\ calls' = calls - 1
  /\ adding' = [queue |-> cur, task |-> t]
  /\ UNCHANGED <<pending, shared, workers, producer, history>>

AddTaskEnd ==
  /\ adding # NoAdding
  /\ contents' = [contents EXCEPT ![adding.queue] = @ \cup {adding.task}]
  /\ slipped' = IF Holders(adding.task) # {} \/ adding.task \notin pending
                THEN slipped \cup {adding.task} ELSE slipped
  /\ adding' = NoAdding
  /\ pc' = Woken
  /\ UNCHANGED <<pending, calls, cur, running, finished, held, ref,
                 producer, died>>

ClearTask ==
  /\ calls > 0
  /\ contents[cur] # {}
  /\ calls' = calls - 1
  /\ contents' = [contents EXCEPT ![cur] = {}]
  /\ UNCHANGED <<pending, cur, running, finished, workers, producer,
                 adding, history>>

-----------------------------------------------------------------------------
(* ProducerDaemon.work().                                                  *)

(* replaceTask() reads what there is to do at this moment.                 *)
ReplaceTask ==
  /\ ppc = "idle"
  /\ ppc' = "filter"
  /\ fresh' = pending
  /\ untested' = pending
  /\ UNCHANGED <<pending, calls, shared, workers, adding, history>>

(* newTaskQueue.removeAll(running), one task after the other.  A task that *)
(* a worker holds without having it in running slips through.              *)
RemoveRunning(t) ==
  /\ ppc = "filter"
  /\ t \in untested
  /\ untested' = untested \ {t}
  /\ IF running[t] > 0
     THEN fresh' = fresh \ {t} /\ UNCHANGED slipped
     ELSE /\ slipped' = IF Hiding(t) # {} THEN slipped \cup {t} ELSE slipped
          /\ UNCHANGED fresh
  /\ UNCHANGED <<pending, calls, shared, workers, ppc, adding, died>>

AllTested ==
  /\ ppc = "filter"
  /\ untested = {}
  /\ ppc' = "drain"
  /\ UNCHANGED <<pending, calls, shared, workers, fresh, untested, adding,
                 history>>

(* finished.poll() until it is empty, removing each task from newTaskQueue.*)
DrainFinished ==
  /\ ppc = "drain"
  /\ \/ /\ finished = {}
        /\ ppc' = "swap"
        /\ UNCHANGED <<finished, fresh>>
     \/ /\ \E t \in finished : finished' = finished \ {t} /\ fresh' = fresh \ {t}
        /\ UNCHANGED ppc
  /\ UNCHANGED <<pending, calls, cur, contents, running, workers, untested,
                 adding, history>>

(* Queue objects that a thread can still reach.                            *)
Reachable == {cur, adding.queue} \cup {ref[w] : w \in Workers}

(* queue = newTaskQueue                                                    *)
Swap ==
  /\ ppc = "swap"
  /\ \E q \in Queues \ Reachable :
       /\ cur' = q
       /\ contents' = [contents EXCEPT ![q] = fresh]
  /\ fresh' = {}
  /\ ppc' = "wakeup"
  /\ UNCHANGED <<pending, calls, running, finished, workers, untested,
                 adding, history>>

(* Faulty: the workers are not woken.                                      *)
WakeupNobody ==
  /\ ppc = "wakeup"
  /\ ppc' = "idle"
  /\ UNCHANGED <<pending, calls, shared, workers, fresh, untested, adding,
                 history>>

WakeupWorkers ==
  /\ ppc = "wakeup"
  /\ pc' = Woken
  /\ ppc' = "idle"
  /\ UNCHANGED <<pending, calls, shared, held, ref, fresh, untested, adding,
                 history>>

-----------------------------------------------------------------------------
Poll(w) == ReadQueue(w) \/ PollEmpty(w) \/ PollFirst(w) \/ Register(w)
Commit(w) == CommitRemove(w) \/ CommitFinish(w)
Rollback(w) == RollbackRemove(w) \/ RollbackRead(w) \/ RollbackAdd(w)

WorkerStep(w) == Poll(w) \/ Commit(w) \/ Rollback(w) \/ Wait(w)

ProducerStep ==
  \/ ReplaceTask \/ (\E t \in Tasks : RemoveRunning(t)) \/ AllTested
  \/ DrainFinished \/ Swap \/ WakeupWorkers

Next ==
  \/ \E t \in Tasks : Submit(t) \/ AddTaskRead(t)
  \/ AddTaskEnd \/ ClearTask
  \/ \E w \in Workers : WorkerStep(w) \/ Succeed(w) \/ Fail(w) \/ Die(w)
  \/ ProducerStep

Spec == Init /\ [][Next]_vars

(* The threads run; the producer is one that comes back by itself          *)
(* (updateNextRun); a task that is tried again and again succeeds.         *)
FairSpec ==
  /\ Spec
  /\ WF_vars(ProducerStep)
  /\ \A w \in Workers :
       /\ WF_vars(WorkerStep(w) \/ Succeed(w) \/ Fail(w) \/ Die(w))
       /\ \A t \in Tasks : SF_vars(Succeed(w) /\ held[w] = t)

-----------------------------------------------------------------------------
(* Two workers never run the same task, unless the task slipped past the   *)
(* producer: it was between the queue and running when the producer        *)
(* compared the two, or was taken from a queue being or already replaced,  *)
(* or the application added it while it was held.                          *)
RunByOne ==
  \A t \in Tasks \ slipped, v, w \in Workers :
    held[v] = t /\ held[w] = t /\ pc[v] = "run" /\ pc[w] = "run" => v = w

(* A task that has been done is not run again, unless it slipped.          *)
RunsPending ==
  \A w \in Workers :
    pc[w] = "run" => held[w] \in pending \cup slipped

(* What the application has to do gets done in the end, although tasks     *)
(* rolled back into a replaced queue and wakeups of busy workers are lost: *)
(* the next replacement makes up for them.  An Error in work(task) is the  *)
(* exception.                                                              *)
PendingDone ==
  \A t \in Tasks : t \in pending ~> t \notin pending \/ died # {}
=============================================================================
