--------------------------- MODULE TaskQueueProofs ---------------------------
(***************************************************************************)
(* Proofs of the safety of TaskQueue, for any number of workers and tasks: *)
(* a task that has not slipped past the producer is in one place at a time.*)
(***************************************************************************)
EXTENDS TaskQueue, TLAPS

Slipped(t) == t \in slipped

(* The producer's steps.                                                   *)
CycleInv == ppc \in {"drain", "swap"} => untested = {}

(* A task has one holder.                                                  *)
HolderInv ==
  \A t \in Tasks, v, w \in Workers :
    ~Slipped(t) /\ v \in Holders(t) /\ w \in Holders(t) => v = w

(* A task that is being run is in running.                                 *)
RunningInv ==
  \A t \in Tasks, w \in Workers :
    ~Slipped(t) /\ held[w] = t /\ pc[w] \in Registered => running[t] > 0

(* A task in the queue, or in the next one once it has been compared with  *)
(* running, has no holder.                                                 *)
QueueInv ==
  \A t \in Tasks, w \in Workers :
    ~Slipped(t) /\ t \in contents[cur] \cup (fresh \ untested) => w \notin Holders(t)

(* A task that is queued or held, and not yet done, is to be done.         *)
PendingInv ==
  /\ \A t \in contents[cur] : ~Slipped(t) => t \in pending
  /\ \A t \in Tasks, w \in Workers :
       ~Slipped(t) /\ w \in Holders(t) /\ pc[w] \notin {"commit", "committed"}
         => t \in pending

(* A task that has been done since replaceTask() is on its way to finished,*)
(* or there, until it is taken out of the next queue.                      *)
FreshInv ==
  /\ \A t \in fresh :
       \/ Slipped(t) \/ t \in pending \/ t \in finished
       \/ \E w \in Holders(t) : pc[w] \in {"commit", "committed"}
  /\ ppc = "swap" => \A t \in fresh : Slipped(t) \/ t \in pending

Inv ==
  /\ TypeOK /\ CycleInv
  /\ HolderInv /\ RunningInv /\ QueueInv
  /\ PendingInv /\ FreshInv

-----------------------------------------------------------------------------
LEMMA InitInv == Init => Inv
  BY TaskAssumption, QueueAssumption, CallsAssumption
     DEF Init, Inv, TypeOK, NoAdding, PCs, Holding, Registered, CycleInv, HolderInv,
         RunningInv, QueueInv, PendingInv, FreshInv, Holders, Slipped

(* Types.                                                                  *)
LEMMA TypeStep ==
  ASSUME TypeOK, CycleInv, [Next]_vars
  PROVE  TypeOK'
<1> USE TaskAssumption, QueueAssumption, CallsAssumption
    DEF TypeOK, NoAdding, PCs, Holding, Registered, CycleInv,
        shared, workers, producer, history
<1>1. ASSUME NEW w \in Workers, ReadQueue(w) PROVE TypeOK'
  BY <1>1 DEF ReadQueue
<1>2. ASSUME NEW w \in Workers, PollEmpty(w) PROVE TypeOK'
  BY <1>2 DEF PollEmpty
<1>3. ASSUME NEW w \in Workers, PollFirst(w) PROVE TypeOK'
  BY <1>3 DEF PollFirst, First
<1>4. ASSUME NEW w \in Workers, Register(w) PROVE TypeOK'
  <2>1. held[w] \in Tasks
    BY <1>4 DEF Register
  <2>2. running[held[w]] \in Nat
    BY <2>1
  <2>3. running[held[w]] + 1 \in Nat
    BY ONLY <2>2, SMT
  <2> QED
    BY <1>4, <2>1, <2>3 DEF Register
<1>5. ASSUME NEW w \in Workers, CommitRemove(w) PROVE TypeOK'
  BY <1>5 DEF CommitRemove, Unregister
<1>6. ASSUME NEW w \in Workers, CommitFinish(w) PROVE TypeOK'
  BY <1>6 DEF CommitFinish
<1>7. ASSUME NEW w \in Workers, RollbackRemove(w) PROVE TypeOK'
  BY <1>7 DEF RollbackRemove, Unregister
<1>8. ASSUME NEW w \in Workers, RollbackRead(w) PROVE TypeOK'
  BY <1>8 DEF RollbackRead
<1>9. ASSUME NEW w \in Workers, RollbackAdd(w) PROVE TypeOK'
  BY <1>9 DEF RollbackAdd
<1>10. ASSUME NEW w \in Workers, Wait(w) PROVE TypeOK'
  BY <1>10 DEF Wait
<1>11. ASSUME NEW w \in Workers, Succeed(w) PROVE TypeOK'
  BY <1>11 DEF Succeed
<1>12. ASSUME NEW w \in Workers, Fail(w) PROVE TypeOK'
  BY <1>12 DEF Fail
<1>13. ASSUME NEW w \in Workers, Die(w) PROVE TypeOK'
  BY <1>13 DEF Die
<1>14. ASSUME NEW t \in Tasks, Submit(t) PROVE TypeOK'
  BY <1>14 DEF Submit
<1>15. ASSUME NEW t \in Tasks, AddTaskRead(t) PROVE TypeOK'
  BY <1>15 DEF AddTaskRead
<1>16. ASSUME NEW t \in Tasks, RemoveRunning(t) PROVE TypeOK'
  BY <1>16, ZenonT(30) DEF RemoveRunning
<1>17. ASSUME AddTaskEnd PROVE TypeOK'
  BY <1>17, ZenonT(30) DEF AddTaskEnd, Woken
<1>18. ASSUME ClearTask PROVE TypeOK'
  BY <1>18 DEF ClearTask
<1>19. ASSUME ReplaceTask PROVE TypeOK'
  BY <1>19 DEF ReplaceTask
<1>20. ASSUME AllTested PROVE TypeOK'
  BY <1>20 DEF AllTested
<1>21. ASSUME DrainFinished PROVE TypeOK'
  <2>1. CASE finished = {} /\ ppc' = "swap" /\ UNCHANGED <<finished, fresh>>
    BY <1>21, <2>1 DEF DrainFinished
  <2>2. ASSUME NEW t \in finished, finished' = finished \ {t},
               fresh' = fresh \ {t}, UNCHANGED ppc
        PROVE  TypeOK'
    BY <1>21, <2>2 DEF DrainFinished
  <2> QED
    BY <1>21, <2>1, <2>2 DEF DrainFinished
<1>22. ASSUME Swap PROVE TypeOK'
  <2>1. PICK q \in Queues \ Reachable :
          cur' = q /\ contents' = [contents EXCEPT ![q] = fresh]
    BY <1>22 DEF Swap
  <2> QED
    BY <1>22, <2>1 DEF Swap
<1>23. ASSUME WakeupWorkers PROVE TypeOK'
  BY <1>23 DEF WakeupWorkers, Woken
<1>24. CASE UNCHANGED vars
  BY <1>24 DEF vars
<1> QED
  BY <1>1, <1>2, <1>3, <1>4, <1>5, <1>6, <1>7, <1>8,
     <1>9, <1>10, <1>11, <1>12, <1>13, <1>14, <1>15, <1>16,
     <1>17, <1>18, <1>19, <1>20, <1>21, <1>22, <1>23, <1>24
     DEF Next, WorkerStep, ProducerStep, Poll, Commit, Rollback

(* The steps of the producer.                                              *)
LEMMA CycleStep ==
  ASSUME TypeOK, CycleInv, [Next]_vars
  PROVE  CycleInv'
<1> USE TaskAssumption, QueueAssumption, CallsAssumption
    DEF TypeOK, NoAdding, PCs, Holding, Registered, CycleInv,
        shared, workers, producer, history
<1>1. ASSUME NEW w \in Workers, ReadQueue(w) PROVE CycleInv'
  BY <1>1 DEF ReadQueue
<1>2. ASSUME NEW w \in Workers, PollEmpty(w) PROVE CycleInv'
  BY <1>2 DEF PollEmpty
<1>3. ASSUME NEW w \in Workers, PollFirst(w) PROVE CycleInv'
  BY <1>3 DEF PollFirst, First
<1>4. ASSUME NEW w \in Workers, Register(w) PROVE CycleInv'
  BY <1>4 DEF Register
<1>5. ASSUME NEW w \in Workers, CommitRemove(w) PROVE CycleInv'
  BY <1>5 DEF CommitRemove, Unregister
<1>6. ASSUME NEW w \in Workers, CommitFinish(w) PROVE CycleInv'
  BY <1>6 DEF CommitFinish
<1>7. ASSUME NEW w \in Workers, RollbackRemove(w) PROVE CycleInv'
  BY <1>7 DEF RollbackRemove, Unregister
<1>8. ASSUME NEW w \in Workers, RollbackRead(w) PROVE CycleInv'
  BY <1>8 DEF RollbackRead
<1>9. ASSUME NEW w \in Workers, RollbackAdd(w) PROVE CycleInv'
  BY <1>9 DEF RollbackAdd
<1>10. ASSUME NEW w \in Workers, Wait(w) PROVE CycleInv'
  BY <1>10 DEF Wait
<1>11. ASSUME NEW w \in Workers, Succeed(w) PROVE CycleInv'
  BY <1>11 DEF Succeed
<1>12. ASSUME NEW w \in Workers, Fail(w) PROVE CycleInv'
  BY <1>12 DEF Fail
<1>13. ASSUME NEW w \in Workers, Die(w) PROVE CycleInv'
  BY <1>13 DEF Die
<1>14. ASSUME NEW t \in Tasks, Submit(t) PROVE CycleInv'
  BY <1>14 DEF Submit
<1>15. ASSUME NEW t \in Tasks, AddTaskRead(t) PROVE CycleInv'
  BY <1>15 DEF AddTaskRead
<1>16. ASSUME NEW t \in Tasks, RemoveRunning(t) PROVE CycleInv'
  BY <1>16 DEF RemoveRunning
<1>17. ASSUME AddTaskEnd PROVE CycleInv'
  BY <1>17 DEF AddTaskEnd, Woken
<1>18. ASSUME ClearTask PROVE CycleInv'
  BY <1>18 DEF ClearTask
<1>19. ASSUME ReplaceTask PROVE CycleInv'
  BY <1>19 DEF ReplaceTask
<1>20. ASSUME AllTested PROVE CycleInv'
  BY <1>20 DEF AllTested
<1>21. ASSUME DrainFinished PROVE CycleInv'
  BY <1>21 DEF DrainFinished
<1>22. ASSUME Swap PROVE CycleInv'
  BY <1>22 DEF Swap, Reachable
<1>23. ASSUME WakeupWorkers PROVE CycleInv'
  BY <1>23 DEF WakeupWorkers, Woken
<1>24. CASE UNCHANGED vars
  BY <1>24 DEF vars
<1> QED
  BY <1>1, <1>2, <1>3, <1>4, <1>5, <1>6, <1>7, <1>8,
     <1>9, <1>10, <1>11, <1>12, <1>13, <1>14, <1>15, <1>16,
     <1>17, <1>18, <1>19, <1>20, <1>21, <1>22, <1>23, <1>24
     DEF Next, WorkerStep, ProducerStep, Poll, Commit, Rollback

(* Only taking a task from the queue makes a holder, and a task there has  *)
(* none.                                                                   *)
LEMMA HolderStep ==
  ASSUME TypeOK, HolderInv, QueueInv, [Next]_vars
  PROVE  HolderInv'
<1> USE TaskAssumption, QueueAssumption, CallsAssumption
    DEF TypeOK, NoAdding, PCs, Holding, Registered, HolderInv, QueueInv, Holders, Slipped,
        shared, workers, producer, history
<1>1. ASSUME NEW w \in Workers, ReadQueue(w) PROVE HolderInv'
  BY <1>1 DEF ReadQueue
<1>2. ASSUME NEW w \in Workers, PollEmpty(w) PROVE HolderInv'
  BY <1>2 DEF PollEmpty
<1>3. ASSUME NEW w \in Workers, PollFirst(w) PROVE HolderInv'
  <2>1. PICK t \in First(ref[w]) :
          /\ contents' = [contents EXCEPT ![ref[w]] = @ \ {t}]
          /\ held' = [held EXCEPT ![w] = t]
          /\ slipped' = IF ref[w] # cur \/ t \in fresh \ untested
                        THEN slipped \cup {t} ELSE slipped
    BY <1>3 DEF PollFirst
  <2>2. ref[w] \in Queues /\ t \in contents[ref[w]] /\ t \in Tasks
    BY <1>3, <2>1 DEF PollFirst, First
  <2>3. \A u \in Tasks, v \in Workers :
          held'[v] = u /\ pc'[v] \in Holding
            => (held[v] = u /\ pc[v] \in Holding) \/ (u = t /\ v = w)
    BY <1>3, <2>1, <2>2 DEF PollFirst
  <2>4. t \notin slipped' => ref[w] = cur /\ t \notin fresh \ untested
    BY <2>1
  <2>5. slipped \subseteq slipped'
    BY <2>1
  <2>6. t \notin slipped' =>
          \A v \in Workers : ~(held[v] = t /\ pc[v] \in Holding)
    BY <2>2, <2>4, <2>5
  <2>7. \A u \in Tasks, v \in Workers :
          held'[v] = u /\ pc'[v] \in Registered
            => held[v] = u /\ pc[v] \in Registered
    BY <1>3, <2>1, <2>2 DEF PollFirst
  <2>8. contents'[cur'] \subseteq contents[cur]
    BY <1>3, <2>1, <2>2 DEF PollFirst
  <2>9. t \notin slipped' => t \notin contents'[cur']
    BY <1>3, <2>1, <2>2, <2>4 DEF PollFirst
  <2>10. SUFFICES ASSUME NEW u \in Tasks, NEW v1 \in Workers, NEW v2 \in Workers,
                         u \notin slipped',
                         held'[v1] = u, pc'[v1] \in Holding,
                         held'[v2] = u, pc'[v2] \in Holding
                  PROVE  v1 = v2
    OBVIOUS
  <2>11. CASE u = t
    BY <2>3, <2>6, <2>10, <2>11
  <2>12. CASE u # t
    BY <2>3, <2>5, <2>10, <2>12
  <2> QED
    BY <2>11, <2>12
<1>4. ASSUME NEW w \in Workers, Register(w) PROVE HolderInv'
  BY <1>4 DEF Register
<1>5. ASSUME NEW w \in Workers, CommitRemove(w) PROVE HolderInv'
  BY <1>5 DEF CommitRemove, Unregister
<1>6. ASSUME NEW w \in Workers, CommitFinish(w) PROVE HolderInv'
  BY <1>6 DEF CommitFinish
<1>7. ASSUME NEW w \in Workers, RollbackRemove(w) PROVE HolderInv'
  BY <1>7 DEF RollbackRemove, Unregister
<1>8. ASSUME NEW w \in Workers, RollbackRead(w) PROVE HolderInv'
  BY <1>8 DEF RollbackRead
<1>9. ASSUME NEW w \in Workers, RollbackAdd(w) PROVE HolderInv'
  BY <1>9 DEF RollbackAdd
<1>10. ASSUME NEW w \in Workers, Wait(w) PROVE HolderInv'
  BY <1>10 DEF Wait
<1>11. ASSUME NEW w \in Workers, Succeed(w) PROVE HolderInv'
  BY <1>11 DEF Succeed
<1>12. ASSUME NEW w \in Workers, Fail(w) PROVE HolderInv'
  BY <1>12 DEF Fail
<1>13. ASSUME NEW w \in Workers, Die(w) PROVE HolderInv'
  BY <1>13 DEF Die
<1>14. ASSUME NEW t \in Tasks, Submit(t) PROVE HolderInv'
  BY <1>14 DEF Submit
<1>15. ASSUME NEW t \in Tasks, AddTaskRead(t) PROVE HolderInv'
  BY <1>15 DEF AddTaskRead
<1>16. ASSUME NEW t \in Tasks, RemoveRunning(t) PROVE HolderInv'
  BY <1>16 DEF RemoveRunning
<1>17. ASSUME AddTaskEnd PROVE HolderInv'
  BY <1>17 DEF AddTaskEnd, Woken
<1>18. ASSUME ClearTask PROVE HolderInv'
  BY <1>18 DEF ClearTask
<1>19. ASSUME ReplaceTask PROVE HolderInv'
  BY <1>19 DEF ReplaceTask
<1>20. ASSUME AllTested PROVE HolderInv'
  BY <1>20 DEF AllTested
<1>21. ASSUME DrainFinished PROVE HolderInv'
  BY <1>21 DEF DrainFinished
<1>22. ASSUME Swap PROVE HolderInv'
  BY <1>22 DEF Swap, Reachable
<1>23. ASSUME WakeupWorkers PROVE HolderInv'
  BY <1>23 DEF WakeupWorkers, Woken
<1>24. CASE UNCHANGED vars
  BY <1>24 DEF vars
<1> QED
  BY <1>1, <1>2, <1>3, <1>4, <1>5, <1>6, <1>7, <1>8,
     <1>9, <1>10, <1>11, <1>12, <1>13, <1>14, <1>15, <1>16,
     <1>17, <1>18, <1>19, <1>20, <1>21, <1>22, <1>23, <1>24
     DEF Next, WorkerStep, ProducerStep, Poll, Commit, Rollback

(* Only its holder takes a task out of running.                            *)
LEMMA RunningStep ==
  ASSUME TypeOK, HolderInv, QueueInv, RunningInv, [Next]_vars
  PROVE  RunningInv'
<1> USE TaskAssumption, QueueAssumption, CallsAssumption
    DEF TypeOK, NoAdding, PCs, Holding, Registered, HolderInv, QueueInv, RunningInv, Holders, Slipped,
        shared, workers, producer, history
<1>1. ASSUME NEW w \in Workers, ReadQueue(w) PROVE RunningInv'
  BY <1>1 DEF ReadQueue
<1>2. ASSUME NEW w \in Workers, PollEmpty(w) PROVE RunningInv'
  BY <1>2 DEF PollEmpty
<1>3. ASSUME NEW w \in Workers, PollFirst(w) PROVE RunningInv'
  <2>1. PICK t \in First(ref[w]) :
          /\ contents' = [contents EXCEPT ![ref[w]] = @ \ {t}]
          /\ held' = [held EXCEPT ![w] = t]
          /\ slipped' = IF ref[w] # cur \/ t \in fresh \ untested
                        THEN slipped \cup {t} ELSE slipped
    BY <1>3 DEF PollFirst
  <2>2. ref[w] \in Queues /\ t \in contents[ref[w]] /\ t \in Tasks
    BY <1>3, <2>1 DEF PollFirst, First
  <2>3. \A u \in Tasks, v \in Workers :
          held'[v] = u /\ pc'[v] \in Holding
            => (held[v] = u /\ pc[v] \in Holding) \/ (u = t /\ v = w)
    BY <1>3, <2>1, <2>2 DEF PollFirst
  <2>4. t \notin slipped' => ref[w] = cur /\ t \notin fresh \ untested
    BY <2>1
  <2>5. slipped \subseteq slipped'
    BY <2>1
  <2>6. t \notin slipped' =>
          \A v \in Workers : ~(held[v] = t /\ pc[v] \in Holding)
    BY <2>2, <2>4, <2>5
  <2>7. \A u \in Tasks, v \in Workers :
          held'[v] = u /\ pc'[v] \in Registered
            => held[v] = u /\ pc[v] \in Registered
    BY <1>3, <2>1, <2>2 DEF PollFirst
  <2>8. contents'[cur'] \subseteq contents[cur]
    BY <1>3, <2>1, <2>2 DEF PollFirst
  <2>9. t \notin slipped' => t \notin contents'[cur']
    BY <1>3, <2>1, <2>2, <2>4 DEF PollFirst
  <2> QED
    BY <1>3, <2>3, <2>4, <2>5, <2>6, <2>7, <2>8, <2>9, ZenonT(30) DEF PollFirst
<1>4. ASSUME NEW w \in Workers, Register(w) PROVE RunningInv'
  BY <1>4 DEF Register
<1>5. ASSUME NEW w \in Workers, CommitRemove(w) PROVE RunningInv'
  BY <1>5 DEF CommitRemove, Unregister
<1>6. ASSUME NEW w \in Workers, CommitFinish(w) PROVE RunningInv'
  BY <1>6 DEF CommitFinish
<1>7. ASSUME NEW w \in Workers, RollbackRemove(w) PROVE RunningInv'
  BY <1>7 DEF RollbackRemove, Unregister
<1>8. ASSUME NEW w \in Workers, RollbackRead(w) PROVE RunningInv'
  BY <1>8 DEF RollbackRead
<1>9. ASSUME NEW w \in Workers, RollbackAdd(w) PROVE RunningInv'
  BY <1>9 DEF RollbackAdd
<1>10. ASSUME NEW w \in Workers, Wait(w) PROVE RunningInv'
  BY <1>10 DEF Wait
<1>11. ASSUME NEW w \in Workers, Succeed(w) PROVE RunningInv'
  BY <1>11 DEF Succeed
<1>12. ASSUME NEW w \in Workers, Fail(w) PROVE RunningInv'
  BY <1>12 DEF Fail
<1>13. ASSUME NEW w \in Workers, Die(w) PROVE RunningInv'
  BY <1>13 DEF Die
<1>14. ASSUME NEW t \in Tasks, Submit(t) PROVE RunningInv'
  BY <1>14 DEF Submit
<1>15. ASSUME NEW t \in Tasks, AddTaskRead(t) PROVE RunningInv'
  BY <1>15 DEF AddTaskRead
<1>16. ASSUME NEW t \in Tasks, RemoveRunning(t) PROVE RunningInv'
  BY <1>16 DEF RemoveRunning
<1>17. ASSUME AddTaskEnd PROVE RunningInv'
  BY <1>17 DEF AddTaskEnd, Woken
<1>18. ASSUME ClearTask PROVE RunningInv'
  BY <1>18 DEF ClearTask
<1>19. ASSUME ReplaceTask PROVE RunningInv'
  BY <1>19 DEF ReplaceTask
<1>20. ASSUME AllTested PROVE RunningInv'
  BY <1>20 DEF AllTested
<1>21. ASSUME DrainFinished PROVE RunningInv'
  BY <1>21 DEF DrainFinished
<1>22. ASSUME Swap PROVE RunningInv'
  BY <1>22 DEF Swap, Reachable
<1>23. ASSUME WakeupWorkers PROVE RunningInv'
  BY <1>23 DEF WakeupWorkers, Woken
<1>24. CASE UNCHANGED vars
  BY <1>24 DEF vars
<1> QED
  BY <1>1, <1>2, <1>3, <1>4, <1>5, <1>6, <1>7, <1>8,
     <1>9, <1>10, <1>11, <1>12, <1>13, <1>14, <1>15, <1>16,
     <1>17, <1>18, <1>19, <1>20, <1>21, <1>22, <1>23, <1>24
     DEF Next, WorkerStep, ProducerStep, Poll, Commit, Rollback

(* What is put into a queue has no holder, or has slipped.                 *)
LEMMA QueueStep ==
  ASSUME TypeOK, CycleInv, HolderInv, RunningInv, QueueInv, [Next]_vars
  PROVE  QueueInv'
<1> USE TaskAssumption, QueueAssumption, CallsAssumption
    DEF TypeOK, NoAdding, PCs, Holding, Registered, CycleInv, HolderInv, RunningInv, QueueInv,
        Holders, Hiding, Slipped,
        shared, workers, producer, history
<1>1. ASSUME NEW w \in Workers, ReadQueue(w) PROVE QueueInv'
  BY <1>1 DEF ReadQueue
<1>2. ASSUME NEW w \in Workers, PollEmpty(w) PROVE QueueInv'
  BY <1>2 DEF PollEmpty
<1>3. ASSUME NEW w \in Workers, PollFirst(w) PROVE QueueInv'
  <2>1. PICK t \in First(ref[w]) :
          /\ contents' = [contents EXCEPT ![ref[w]] = @ \ {t}]
          /\ held' = [held EXCEPT ![w] = t]
          /\ slipped' = IF ref[w] # cur \/ t \in fresh \ untested
                        THEN slipped \cup {t} ELSE slipped
    BY <1>3 DEF PollFirst
  <2>2. ref[w] \in Queues /\ t \in contents[ref[w]] /\ t \in Tasks
    BY <1>3, <2>1 DEF PollFirst, First
  <2>3. \A u \in Tasks, v \in Workers :
          held'[v] = u /\ pc'[v] \in Holding
            => (held[v] = u /\ pc[v] \in Holding) \/ (u = t /\ v = w)
    BY <1>3, <2>1, <2>2 DEF PollFirst
  <2>4. t \notin slipped' => ref[w] = cur /\ t \notin fresh \ untested
    BY <2>1
  <2>5. slipped \subseteq slipped'
    BY <2>1
  <2>6. t \notin slipped' =>
          \A v \in Workers : ~(held[v] = t /\ pc[v] \in Holding)
    BY <2>2, <2>4, <2>5
  <2>7. \A u \in Tasks, v \in Workers :
          held'[v] = u /\ pc'[v] \in Registered
            => held[v] = u /\ pc[v] \in Registered
    BY <1>3, <2>1, <2>2 DEF PollFirst
  <2>8. contents'[cur'] \subseteq contents[cur]
    BY <1>3, <2>1, <2>2 DEF PollFirst
  <2>9. t \notin slipped' => t \notin contents'[cur']
    BY <1>3, <2>1, <2>2, <2>4 DEF PollFirst
  <2>10. SUFFICES ASSUME NEW u \in Tasks, NEW v \in Workers,
                         u \notin slipped', held'[v] = u, pc'[v] \in Holding,
                         u \in contents'[cur'] \cup (fresh' \ untested')
                  PROVE  FALSE
    OBVIOUS
  <2>11. CASE u = t
    BY <1>3, <2>4, <2>9, <2>10, <2>11 DEF PollFirst
  <2>12. CASE u # t
    <3>1. u \in contents[cur] \cup (fresh \ untested)
      BY <1>3, <2>8, <2>10 DEF PollFirst
    <3> QED
      BY <3>1, <2>3, <2>5, <2>10, <2>12
  <2> QED
    BY <2>11, <2>12
<1>4. ASSUME NEW w \in Workers, Register(w) PROVE QueueInv'
  BY <1>4 DEF Register
<1>5. ASSUME NEW w \in Workers, CommitRemove(w) PROVE QueueInv'
  BY <1>5 DEF CommitRemove, Unregister
<1>6. ASSUME NEW w \in Workers, CommitFinish(w) PROVE QueueInv'
  BY <1>6 DEF CommitFinish
<1>7. ASSUME NEW w \in Workers, RollbackRemove(w) PROVE QueueInv'
  BY <1>7 DEF RollbackRemove, Unregister
<1>8. ASSUME NEW w \in Workers, RollbackRead(w) PROVE QueueInv'
  BY <1>8 DEF RollbackRead
<1>9. ASSUME NEW w \in Workers, RollbackAdd(w) PROVE QueueInv'
  BY <1>9 DEF RollbackAdd
<1>10. ASSUME NEW w \in Workers, Wait(w) PROVE QueueInv'
  BY <1>10 DEF Wait
<1>11. ASSUME NEW w \in Workers, Succeed(w) PROVE QueueInv'
  BY <1>11 DEF Succeed
<1>12. ASSUME NEW w \in Workers, Fail(w) PROVE QueueInv'
  BY <1>12 DEF Fail
<1>13. ASSUME NEW w \in Workers, Die(w) PROVE QueueInv'
  BY <1>13 DEF Die
<1>14. ASSUME NEW t \in Tasks, Submit(t) PROVE QueueInv'
  BY <1>14 DEF Submit
<1>15. ASSUME NEW t \in Tasks, AddTaskRead(t) PROVE QueueInv'
  BY <1>15 DEF AddTaskRead
<1>16. ASSUME NEW t \in Tasks, RemoveRunning(t) PROVE QueueInv'
  BY <1>16 DEF RemoveRunning
<1>17. ASSUME AddTaskEnd PROVE QueueInv'
  BY <1>17 DEF AddTaskEnd, Woken
<1>18. ASSUME ClearTask PROVE QueueInv'
  BY <1>18 DEF ClearTask
<1>19. ASSUME ReplaceTask PROVE QueueInv'
  BY <1>19 DEF ReplaceTask
<1>20. ASSUME AllTested PROVE QueueInv'
  BY <1>20 DEF AllTested
<1>21. ASSUME DrainFinished PROVE QueueInv'
  BY <1>21 DEF DrainFinished
<1>22. ASSUME Swap PROVE QueueInv'
  BY <1>22 DEF Swap, Reachable
<1>23. ASSUME WakeupWorkers PROVE QueueInv'
  BY <1>23 DEF WakeupWorkers, Woken
<1>24. CASE UNCHANGED vars
  BY <1>24 DEF vars
<1> QED
  BY <1>1, <1>2, <1>3, <1>4, <1>5, <1>6, <1>7, <1>8,
     <1>9, <1>10, <1>11, <1>12, <1>13, <1>14, <1>15, <1>16,
     <1>17, <1>18, <1>19, <1>20, <1>21, <1>22, <1>23, <1>24
     DEF Next, WorkerStep, ProducerStep, Poll, Commit, Rollback

(* A task is done by its holder.                                           *)
LEMMA PendingStep ==
  ASSUME TypeOK, CycleInv, HolderInv, RunningInv, QueueInv, PendingInv, FreshInv, [Next]_vars
  PROVE  PendingInv'
<1> USE TaskAssumption, QueueAssumption, CallsAssumption
    DEF TypeOK, NoAdding, PCs, Holding, Registered, CycleInv, HolderInv, RunningInv, QueueInv,
        PendingInv, FreshInv, Holders, Slipped,
        shared, workers, producer, history
<1>1. ASSUME NEW w \in Workers, ReadQueue(w) PROVE PendingInv'
  BY <1>1 DEF ReadQueue
<1>2. ASSUME NEW w \in Workers, PollEmpty(w) PROVE PendingInv'
  BY <1>2 DEF PollEmpty
<1>3. ASSUME NEW w \in Workers, PollFirst(w) PROVE PendingInv'
  BY <1>3 DEF PollFirst, First
<1>4. ASSUME NEW w \in Workers, Register(w) PROVE PendingInv'
  BY <1>4 DEF Register
<1>5. ASSUME NEW w \in Workers, CommitRemove(w) PROVE PendingInv'
  BY <1>5 DEF CommitRemove, Unregister
<1>6. ASSUME NEW w \in Workers, CommitFinish(w) PROVE PendingInv'
  BY <1>6 DEF CommitFinish
<1>7. ASSUME NEW w \in Workers, RollbackRemove(w) PROVE PendingInv'
  BY <1>7 DEF RollbackRemove, Unregister
<1>8. ASSUME NEW w \in Workers, RollbackRead(w) PROVE PendingInv'
  BY <1>8 DEF RollbackRead
<1>9. ASSUME NEW w \in Workers, RollbackAdd(w) PROVE PendingInv'
  BY <1>9 DEF RollbackAdd
<1>10. ASSUME NEW w \in Workers, Wait(w) PROVE PendingInv'
  BY <1>10 DEF Wait
<1>11. ASSUME NEW w \in Workers, Succeed(w) PROVE PendingInv'
  BY <1>11 DEF Succeed
<1>12. ASSUME NEW w \in Workers, Fail(w) PROVE PendingInv'
  BY <1>12 DEF Fail
<1>13. ASSUME NEW w \in Workers, Die(w) PROVE PendingInv'
  BY <1>13 DEF Die
<1>14. ASSUME NEW t \in Tasks, Submit(t) PROVE PendingInv'
  BY <1>14 DEF Submit
<1>15. ASSUME NEW t \in Tasks, AddTaskRead(t) PROVE PendingInv'
  BY <1>15 DEF AddTaskRead
<1>16. ASSUME NEW t \in Tasks, RemoveRunning(t) PROVE PendingInv'
  BY <1>16 DEF RemoveRunning
<1>17. ASSUME AddTaskEnd PROVE PendingInv'
  BY <1>17 DEF AddTaskEnd, Woken
<1>18. ASSUME ClearTask PROVE PendingInv'
  BY <1>18 DEF ClearTask
<1>19. ASSUME ReplaceTask PROVE PendingInv'
  BY <1>19 DEF ReplaceTask
<1>20. ASSUME AllTested PROVE PendingInv'
  BY <1>20 DEF AllTested
<1>21. ASSUME DrainFinished PROVE PendingInv'
  BY <1>21 DEF DrainFinished
<1>22. ASSUME Swap PROVE PendingInv'
  BY <1>22 DEF Swap, Reachable
<1>23. ASSUME WakeupWorkers PROVE PendingInv'
  BY <1>23 DEF WakeupWorkers, Woken
<1>24. CASE UNCHANGED vars
  BY <1>24 DEF vars
<1> QED
  BY <1>1, <1>2, <1>3, <1>4, <1>5, <1>6, <1>7, <1>8,
     <1>9, <1>10, <1>11, <1>12, <1>13, <1>14, <1>15, <1>16,
     <1>17, <1>18, <1>19, <1>20, <1>21, <1>22, <1>23, <1>24
     DEF Next, WorkerStep, ProducerStep, Poll, Commit, Rollback

(* A task that has been done reaches finished before the producer looks    *)
(* there.                                                                  *)
LEMMA FreshStep ==
  ASSUME TypeOK, CycleInv, HolderInv, RunningInv, QueueInv, PendingInv, FreshInv, [Next]_vars
  PROVE  FreshInv'
<1> USE TaskAssumption, QueueAssumption, CallsAssumption
    DEF TypeOK, NoAdding, PCs, Holding, Registered, CycleInv, HolderInv, RunningInv, QueueInv,
        PendingInv, FreshInv, Holders, Hiding, Slipped,
        shared, workers, producer, history
<1>1. ASSUME NEW w \in Workers, ReadQueue(w) PROVE FreshInv'
  BY <1>1 DEF ReadQueue
<1>2. ASSUME NEW w \in Workers, PollEmpty(w) PROVE FreshInv'
  BY <1>2 DEF PollEmpty
<1>3. ASSUME NEW w \in Workers, PollFirst(w) PROVE FreshInv'
  BY <1>3 DEF PollFirst, First
<1>4. ASSUME NEW w \in Workers, Register(w) PROVE FreshInv'
  BY <1>4 DEF Register
<1>5. ASSUME NEW w \in Workers, CommitRemove(w) PROVE FreshInv'
  BY <1>5 DEF CommitRemove, Unregister
<1>6. ASSUME NEW w \in Workers, CommitFinish(w) PROVE FreshInv'
  BY <1>6 DEF CommitFinish
<1>7. ASSUME NEW w \in Workers, RollbackRemove(w) PROVE FreshInv'
  BY <1>7 DEF RollbackRemove, Unregister
<1>8. ASSUME NEW w \in Workers, RollbackRead(w) PROVE FreshInv'
  BY <1>8 DEF RollbackRead
<1>9. ASSUME NEW w \in Workers, RollbackAdd(w) PROVE FreshInv'
  BY <1>9 DEF RollbackAdd
<1>10. ASSUME NEW w \in Workers, Wait(w) PROVE FreshInv'
  BY <1>10 DEF Wait
<1>11. ASSUME NEW w \in Workers, Succeed(w) PROVE FreshInv'
  BY <1>11 DEF Succeed
<1>12. ASSUME NEW w \in Workers, Fail(w) PROVE FreshInv'
  BY <1>12 DEF Fail
<1>13. ASSUME NEW w \in Workers, Die(w) PROVE FreshInv'
  BY <1>13 DEF Die
<1>14. ASSUME NEW t \in Tasks, Submit(t) PROVE FreshInv'
  BY <1>14 DEF Submit
<1>15. ASSUME NEW t \in Tasks, AddTaskRead(t) PROVE FreshInv'
  BY <1>15 DEF AddTaskRead
<1>16. ASSUME NEW t \in Tasks, RemoveRunning(t) PROVE FreshInv'
  <2>1. fresh' \subseteq fresh /\ slipped \subseteq slipped' /\ ppc' = "filter"
    BY <1>16 DEF RemoveRunning
  <2>2. UNCHANGED <<pending, finished, held, pc>>
    BY <1>16 DEF RemoveRunning
  <2> QED
    BY <2>1, <2>2
<1>17. ASSUME AddTaskEnd PROVE FreshInv'
  BY <1>17 DEF AddTaskEnd, Woken
<1>18. ASSUME ClearTask PROVE FreshInv'
  BY <1>18 DEF ClearTask
<1>19. ASSUME ReplaceTask PROVE FreshInv'
  BY <1>19 DEF ReplaceTask
<1>20. ASSUME AllTested PROVE FreshInv'
  BY <1>20 DEF AllTested
<1>21. ASSUME DrainFinished PROVE FreshInv'
  <2>1. CASE finished = {} /\ ppc' = "swap" /\ UNCHANGED <<finished, fresh>>
    BY <1>21, <2>1 DEF DrainFinished
  <2>2. ASSUME NEW t \in finished, finished' = finished \ {t},
               fresh' = fresh \ {t}, UNCHANGED ppc
        PROVE  FreshInv'
    BY <1>21, <2>2 DEF DrainFinished
  <2> QED
    BY <1>21, <2>1, <2>2 DEF DrainFinished
<1>22. ASSUME Swap PROVE FreshInv'
  BY <1>22 DEF Swap, Reachable
<1>23. ASSUME WakeupWorkers PROVE FreshInv'
  BY <1>23 DEF WakeupWorkers, Woken
<1>24. CASE UNCHANGED vars
  BY <1>24 DEF vars
<1> QED
  BY <1>1, <1>2, <1>3, <1>4, <1>5, <1>6, <1>7, <1>8,
     <1>9, <1>10, <1>11, <1>12, <1>13, <1>14, <1>15, <1>16,
     <1>17, <1>18, <1>19, <1>20, <1>21, <1>22, <1>23, <1>24
     DEF Next, WorkerStep, ProducerStep, Poll, Commit, Rollback

-----------------------------------------------------------------------------
LEMMA StepInv == Inv /\ [Next]_vars => Inv'
<1> SUFFICES ASSUME Inv, [Next]_vars PROVE Inv'
  OBVIOUS
<1> USE DEF Inv
<1>1. TypeOK' BY TypeStep
<1>2. CycleInv' BY CycleStep
<1>3. HolderInv' BY HolderStep
<1>4. RunningInv' BY RunningStep
<1>5. QueueInv' BY QueueStep
<1>6. PendingInv' BY PendingStep
<1>7. FreshInv' BY FreshStep
<1> QED
  BY <1>1, <1>2, <1>3, <1>4, <1>5, <1>6, <1>7

LEMMA InvHolds == Spec => []Inv
  BY InitInv, StepInv, PTL DEF Spec

-----------------------------------------------------------------------------
(* The state of the queue is well typed; a worker holds a task exactly in  *)
(* the steps between poll() and the end of commit() or rollback().         *)
THEOREM TypeCorrect == Spec => []TypeOK
<1>1. Inv => TypeOK
  BY DEF Inv
<1> QED
  BY <1>1, InvHolds, PTL

(* Two workers run the same task only if it slipped past the producer.     *)
THEOREM OneRunner == Spec => []RunByOne
<1>1. Inv => RunByOne
  BY DEF Inv, HolderInv, RunByOne, Holders, Holding, Registered, Slipped
<1> QED
  BY <1>1, InvHolds, PTL

(* A worker runs what is still to be done, unless it slipped.              *)
THEOREM NoRunAfterDone == Spec => []RunsPending
<1>1. Inv => RunsPending
  BY DEF Inv, TypeOK, PendingInv, RunsPending, Holders, Holding, Registered,
         Slipped
<1> QED
  BY <1>1, InvHolds, PTL
=============================================================================
