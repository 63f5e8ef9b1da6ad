---------------------------- MODULE RepeatQueue ----------------------------
(***************************************************************************)
(* The tasks of a RepeatDaemonGroup, each to be run again once             *)
(* taskInterval has passed since its last run began.                       *)
(*                                                                         *)
(* The queue is ordered by lastRunTime and then by name, and so is what    *)
(* the producer takes for the same task: a RepeatTask is a name and a time.*)
(* A worker takes the first, stamps it with the present time if it is due, *)
(* and puts it back otherwise; after the run it goes back, with its new    *)
(* time.  The producer replaces the queue as in TaskQueue, with tasks made *)
(* anew from the times the application has noted.                          *)
(***************************************************************************)
EXTENDS Integers, FiniteSets

CONSTANTS
  Names,         \* RepeatTask.object, in the order of compareTo: numbers
  RepeatWorkers,
  Objects,       \* names for queue objects; one nobody refers to is used
                 \* again, and there are always enough
  NoObject,
  Interval,      \* taskInterval
  MaxTime        \* bound: when the clock stops

ASSUME RepeatAssumption ==
  /\ Names \subseteq Nat /\ Interval \in Nat /\ MaxTime \in Nat
  /\ NoObject \notin Objects
  /\ IsFiniteSet(RepeatWorkers) /\ IsFiniteSet(Objects)
  /\ Cardinality(Objects) > Cardinality(RepeatWorkers) + 1

VARIABLES
  now,       \* System.currentTimeMillis()
  noted,     \* the application: when it began to work on each task
  queue,     \* ProducerDaemon.queue
  inQueue,   \* the tasks in each queue object
  hand,      \* where each worker is, its task, and the queue it has read
  making,    \* the producer: "idle", "remove" or "swap"
  newQueue,  \* newTaskQueue
  started,   \* history: when poll() last returned each task
  touched,   \* history: tasks in a worker's hands while the queue was replaced
  astray     \* history: tasks that may be there twice

repeatVars ==
  <<now, noted, queue, inQueue, hand, making, newQueue, started, touched,
    astray>>

Times == 0 .. MaxTime
RepeatTasks == [name : Names, last : Times]
NoRepeatTask == [name |-> 0, last |-> 0]
Before(t, u) == t.last < u.last \/ (t.last = u.last /\ t.name <= u.name)

(* "took": the task is in no queue; "due": stamped, not in running; "run"  *)
(* and "work": in running, before and after the application has noted the  *)
(* time; "back" and "add": to be put into the queue.                       *)
Hands == {"took", "due", "run", "work", "back", "add"}
HoldersOf(n) ==
  {w \in RepeatWorkers : hand[w].at \in Hands /\ hand[w].task.name = n}

(* A new queue object: it does not matter which.                           *)
Unreferenced(used) == CHOOSE q \in Objects : q \notin used

RepeatRunning ==
  {hand[w].task : w \in {v \in RepeatWorkers : hand[v].at \in {"run", "work"}}}

RepeatInit ==
  /\ now = 0
  /\ noted = [n \in Names |-> 0]
  /\ queue = Unreferenced({})
  /\ inQueue = [q \in Objects |-> {}]
  /\ hand = [w \in RepeatWorkers |->
       [at |-> "read", task |-> NoRepeatTask, ref |-> NoObject]]
  /\ making = "idle" /\ newQueue = {}
  /\ started = [n \in Names |-> 0]
  /\ touched = {} /\ astray = {}

Tick ==
  /\ now < MaxTime
  /\ now' = now + 1
  /\ UNCHANGED <<noted, queue, inQueue, hand, making, newQueue, started,
                 touched, astray>>

-----------------------------------------------------------------------------
(* A worker.                                                               *)
Goes(w, at, task, ref) ==
  hand' = [hand EXCEPT ![w] = [at |-> at, task |-> task, ref |-> ref]]

(* The worker lets go of its queue object; one that is neither in use nor  *)
(* in anybody's hands is forgotten.                                        *)
Leave(w, tasks) ==
  LET q == hand[w].ref
      known == queue = q \/ \E v \in RepeatWorkers \ {w} : hand[v].ref = q
  IN inQueue' = [inQueue EXCEPT ![q] = IF known THEN tasks ELSE {}]

(* poll(): the field is read.                                              *)
ReadField(w) ==
  /\ hand[w].at = "read"
  /\ Goes(w, "take", NoRepeatTask, queue)
  /\ UNCHANGED <<now, noted, queue, inQueue, making, newQueue, started,
                 touched, astray>>

(* queue.pollFirst() finds nothing: work() ends, to begin again later.     *)
TakeNothing(w) ==
  /\ hand[w].at = "take" /\ inQueue[hand[w].ref] = {}
  /\ Goes(w, "read", NoRepeatTask, NoObject)
  /\ UNCHANGED <<now, noted, queue, inQueue, making, newQueue, started,
                 touched, astray>>

TakeFirst(w) ==
  LET q == hand[w].ref IN
  /\ hand[w].at = "take"
  /\ \E t \in inQueue[q] :
       /\ \A u \in inQueue[q] : Before(t, u)
       /\ Leave(w, inQueue[q] \ {t})
       /\ Goes(w, "took", t, NoObject)
       /\ touched' = IF making # "idle" THEN touched \cup {t.name} ELSE touched
       /\ astray' = IF q # queue THEN astray \cup {t.name} ELSE astray
  /\ UNCHANGED <<now, noted, queue, making, newQueue, started>>

Due(t) == now > t.last + Interval

(* updateLastRunTime()                                                     *)
Start(w) ==
  LET t == hand[w].task IN
  /\ hand[w].at = "took" /\ Due(t)
  /\ Goes(w, "due", [name |-> t.name, last |-> now], NoObject)
  /\ started' = [started EXCEPT ![t.name] = now]
  /\ UNCHANGED <<now, noted, queue, inQueue, making, newQueue, touched, astray>>

NotDue(w) ==
  /\ hand[w].at = "took" /\ ~Due(hand[w].task)
  /\ Goes(w, "back", hand[w].task, NoObject)
  /\ UNCHANGED <<now, noted, queue, inQueue, making, newQueue, started,
                 touched, astray>>

(* running.add(task)                                                       *)
AddRunning(w) ==
  /\ hand[w].at = "due"
  /\ Goes(w, "run", hand[w].task, NoObject)
  /\ UNCHANGED <<now, noted, queue, inQueue, making, newQueue, started,
                 touched, astray>>

(* work(task): the application notes first when the task was begun,        *)
(* unless it has noted a later run.                                        *)
Note(w) ==
  LET t == hand[w].task IN
  /\ hand[w].at = "run"
  /\ noted' = [noted EXCEPT ![t.name] = IF t.last > @ THEN t.last ELSE @]
  /\ Goes(w, "work", t, NoObject)
  /\ UNCHANGED <<now, queue, inQueue, making, newQueue, started, touched,
                 astray>>

(* commit() and rollback() are the same: running.remove(task) ...          *)
RemoveFromRunning(w) ==
  LET t == hand[w].task IN
  /\ hand[w].at = "work"
  /\ Goes(w, "back", t, NoObject)
  /\ touched' = IF making # "idle" THEN touched \cup {t.name} ELSE touched
  /\ UNCHANGED <<now, noted, queue, inQueue, making, newQueue, started, astray>>

(* ... and queue.add(task): the field is read, then the task goes in, where*)
(* an equal one may be already.                                            *)
AddRead(w) ==
  /\ hand[w].at = "back"
  /\ Goes(w, "add", hand[w].task, queue)
  /\ UNCHANGED <<now, noted, queue, inQueue, making, newQueue, started,
                 touched, astray>>

AddBack(w) ==
  /\ hand[w].at = "add"
  /\ Leave(w, inQueue[hand[w].ref] \cup {hand[w].task})
  /\ Goes(w, "read", NoRepeatTask, NoObject)
  /\ UNCHANGED <<now, noted, queue, making, newQueue, started, touched, astray>>

-----------------------------------------------------------------------------
(* The producer.                                                           *)

(* In running, with the time the application has noted.                    *)
Visible(w) ==
  /\ hand[w].at \in {"run", "work"}
  /\ hand[w].task.last = noted[hand[w].task.name]

(* replaceTask()                                                           *)
MakeTasks ==
  /\ making = "idle"
  /\ making' = "remove"
  /\ newQueue' = {[name |-> n, last |-> noted[n]] : n \in Names}
  /\ touched' =
       {n \in Names : \E w \in HoldersOf(n) : ~Visible(w)}
  /\ UNCHANGED <<now, noted, queue, inQueue, hand, started, astray>>

(* Faulty: what runs is left in the new queue.                             *)
RemoveNothing ==
  /\ making = "remove"
  /\ making' = "swap"
  /\ UNCHANGED <<now, noted, queue, inQueue, hand, newQueue, started, touched,
                 astray>>

(* newTaskQueue.removeAll(running): those of the same name and time.       *)
RemoveRunningTasks ==
  /\ making = "remove"
  /\ making' = "swap"
  /\ newQueue' = newQueue \ RepeatRunning
  /\ UNCHANGED <<now, noted, queue, inQueue, hand, started, touched, astray>>

(* queue = newTaskQueue.  A task two workers hold stays astray.            *)
SwapQueue ==
  /\ making = "swap"
  /\ LET q == Unreferenced({queue} \cup {hand[w].ref : w \in RepeatWorkers})
     IN
       /\ queue' = q
       /\ inQueue' = [inQueue EXCEPT ![q] = newQueue, ![queue] =
            IF \E w \in RepeatWorkers : hand[w].ref = queue THEN @ ELSE {}]
  /\ making' = "idle" /\ newQueue' = {}
  /\ astray' =
       touched \cup {n \in Names : Cardinality(HoldersOf(n)) > 1}
  /\ touched' = {}
  /\ UNCHANGED <<now, noted, hand, started>>

RepeatNext ==
  \/ Tick \/ MakeTasks \/ RemoveRunningTasks \/ SwapQueue
  \/ \E w \in RepeatWorkers :
       \/ ReadField(w) \/ TakeNothing(w) \/ TakeFirst(w)
       \/ Start(w) \/ NotDue(w) \/ AddRunning(w) \/ Note(w)
       \/ RemoveFromRunning(w) \/ AddRead(w) \/ AddBack(w)

RepeatSpec == RepeatInit /\ [][RepeatNext]_repeatVars

-----------------------------------------------------------------------------
(* A task is begun only when taskInterval has passed since it was last     *)
(* begun, and while no other worker has it, unless it was in a worker's    *)
(* hands and not in running, or not noted, while the queue was replaced, or*)
(* was taken from a queue already replaced: then there are two of it, until*)
(* a replacement that finds it in nobody's hands.                          *)
RunsApart ==
  [][\A w \in RepeatWorkers :
       LET n == hand[w].task.name IN
       hand[w].at = "took" /\ hand'[w].at = "due" /\ n \notin astray =>
         /\ HoldersOf(n) = {w}
         /\ now > started[n] + Interval]_repeatVars
=============================================================================
