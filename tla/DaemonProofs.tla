---------------------------- MODULE DaemonProofs ----------------------------
(***************************************************************************)
(* Proofs of the safety properties of Daemon, for any set of clients and   *)
(* of workers, for periodic and triggered daemons.                         *)
(***************************************************************************)
EXTENDS Daemon, TLAPS

(* A client inside a method works on an executor, which has been started.  *)
CallInv ==
  /\ \A c \in Clients : call[c] # "none" => executor \in Workers
  /\ \A w \in Workers : executor = w => pc[w] # "new"

(* A pending wakeup given to an idle worker is still readable in nextRun.  *)
PendingInv ==
  \A w \in Workers :
    executor = w /\ wokenAt \in IdlePCs /\ pc[w] # "done" => nextRun = "asap"

(* The window in which a periodic daemon can be sent to sleep for ever.    *)
WindowInv ==
  Periodic => \A w \in Workers :
    /\ pc[w] = "test" /\ nextRun = "asap" => wokenAt = "test"
    /\ pc[w] = "lock" => wokenAt \in {"test", "lock"}

(* The interrupt of a shutdown() has been sent to w.                       *)
Signalled(w) ==
  \/ cancelAt[w] # "none"
  \/ executor = w /\ \E c \in Clients : call[c] = "interrupting"

(* shutdownRequested is set before the interrupt; and the interrupt is     *)
(* still pending, or on its way to the end of the loop, or thrown away.    *)
SignalInv ==
  \A w \in Workers :
    /\ executor = w /\ (\E c \in Clients : call[c] = "flagged")
         => shutdownRequested[w]
    /\ Signalled(w) => shutdownRequested[w]
    /\ Signalled(w) /\ ~swallowed[w]
         => interrupted[w] \/ pc[w] \in {"fail", "loop", "done"}

(* A statement being set up or executed is registered, and after a cancel  *)
(* that missed the window none is.                                         *)
CancelInv ==
  \A w \in Workers :
    /\ pc[w] \in {"set", "armed", "exec"} => interruptable[w]
    /\ cancelAt[w] \notin {"none", "armed"} /\ ~swallowed[w]
         => pc[w] \notin {"armed", "exec"}

WakeupInv == AtMostOneLive /\ CallInv /\ IdleWakeupServed /\ PendingInv

Inv ==
  /\ TypeOK
  /\ WakeupInv
  /\ PeriodicOversleep
  /\ WindowInv
  /\ SignalInv
  /\ CancelInv
  /\ StatementOutlivesShutdown

-----------------------------------------------------------------------------
(* Every step keeps the types and the ownership of the monitor.            *)
LEMMA TypeStep == TypeOK /\ [Next]_vars => TypeOK'
<1> USE WorkerAssumption, FreeAssumption DEF IdlePCs, WaitPCs, WorkPCs, PCs
<1> SUFFICES ASSUME TypeOK, [Next]_vars PROVE TypeOK'
  OBVIOUS
<1> USE DEF TypeOK, history, clientVars, workerVars
<1>1. ASSUME NEW c \in Clients, ClientStep(c) PROVE TypeOK'
  <2>1. ASSUME NEW w \in Workers, Startup(c, w) PROVE TypeOK'
    BY <2>1 DEF Startup, Synchronized
  <2>2. CASE Wakeup(c)
    BY <2>2 DEF Wakeup, Synchronized
  <2>3. CASE ShutdownFlag(c)
    BY <2>3 DEF ShutdownFlag, Synchronized
  <2>4. CASE ShutdownInterrupt(c)
    BY <2>4 DEF ShutdownInterrupt, Live
  <2>5. CASE ShutdownCancel(c)
    BY <2>5 DEF ShutdownCancel
  <2>6. CASE Join(c)
    BY <2>6 DEF Join, Synchronized
  <2>7. CASE JoinReturn(c)
    BY <2>7 DEF JoinReturn
  <2>8. CASE JoinInterrupted(c)
    BY <2>8 DEF JoinInterrupted
  <2> QED
    BY <1>1, <2>1, <2>2, <2>3, <2>4, <2>5, <2>6, <2>7, <2>8 DEF ClientStep
<1>2. ASSUME NEW w \in Workers,
             RunStep(w) \/ WrapperStep(w) \/ WorkStep(w)
               \/ EndStatement(w) \/ SpuriousWakeup(w)
      PROVE  TypeOK'
  <2> USE DEF Goto
  <2>1. CASE LoopTest(w)
    BY <2>1 DEF LoopTest
  <2>2. CASE Check(w)
    BY <2>2 DEF Check
  <2>3. CASE Finally(w)
    BY <2>3 DEF Finally, UpdateNextRun
  <2>4. CASE TestNextRun(w)
    BY <2>4 DEF TestNextRun
  <2>5. CASE ComputeSleep(w)
    BY <2>5 DEF ComputeSleep
  <2>6. CASE EnterWait(w)
    BY <2>6, ZenonT(30) DEF EnterWait
  <2>7. CASE WaitInterrupted(w)
    BY <2>7 DEF WaitInterrupted
  <2>8. CASE WaitTimeout(w) \/ SpuriousWakeup(w)
    BY <2>8 DEF WaitTimeout, SpuriousWakeup
  <2>9. CASE TestInterrupted(w)
    <3>1. CASE interrupted[w]
      <4>1. PICK next \in {"work", "fail"} : Goto(w, next)
        BY <2>9, <3>1 DEF TestInterrupted
      <4> QED
        BY <2>9, <3>1, <4>1 DEF TestInterrupted
    <3>2. CASE ~interrupted[w]
      BY <2>9, <3>2 DEF TestInterrupted
    <3> QED
      BY <3>1, <3>2
  <2>10. CASE ExecuteStatement(w)
    BY <2>10 DEF ExecuteStatement
  <2>11. CASE WorkEnds(w)
    BY <2>11 DEF WorkEnds
  <2>12. CASE WorkInterrupted(w)
    BY <2>12 DEF WorkInterrupted
  <2>13. CASE BeginStatement(w)
    BY <2>13 DEF BeginStatement
  <2>14. CASE ExecuteUnregistered(w)
    BY <2>14 DEF ExecuteUnregistered
  <2>15. CASE EndStatement(w)
    BY <2>15 DEF EndStatement
  <2> QED
    BY <1>2, <2>1, <2>2, <2>3, <2>4, <2>5, <2>6, <2>7, <2>8, <2>9, <2>10,
       <2>11, <2>12, <2>13, <2>14, <2>15 DEF RunStep, WrapperStep, WorkStep
<1>3. CASE Tick
  BY <1>3 DEF Tick
<1>4. CASE UNCHANGED vars
  BY <1>4 DEF vars
<1> QED
  BY <1>1, <1>2, <1>3, <1>4 DEF Next

(* One live worker, and no wakeup of an idle worker lost.                   *)
LEMMA WakeupStep ==
  ASSUME TypeOK, WakeupInv, [Next]_vars
  PROVE  WakeupInv'
<1> USE WorkerAssumption, FreeAssumption
    DEF TypeOK, WakeupInv, AtMostOneLive, Live, CallInv, IdleWakeupServed, PendingInv,
        IdlePCs, WaitPCs, WorkPCs, PCs, history, clientVars, workerVars
<1>1. ASSUME NEW c \in Clients, ClientStep(c) PROVE WakeupInv'
  <2>1. ASSUME NEW w \in Workers, Startup(c, w) PROVE WakeupInv'
    BY <2>1 DEF Startup, Synchronized
  <2>2. CASE Wakeup(c)
    BY <2>2 DEF Wakeup, Synchronized, WaitSet
  <2>3. CASE ShutdownFlag(c)
    BY <2>3 DEF ShutdownFlag, Synchronized
  <2>4. CASE ShutdownInterrupt(c)
    BY <2>4 DEF ShutdownInterrupt, Live
  <2>5. CASE ShutdownCancel(c)
    BY <2>5 DEF ShutdownCancel
  <2>6. CASE Join(c)
    BY <2>6 DEF Join, Synchronized
  <2>7. CASE JoinReturn(c)
    BY <2>7 DEF JoinReturn
  <2>8. CASE JoinInterrupted(c)
    BY <2>8 DEF JoinInterrupted
  <2> QED
    BY <1>1, <2>1, <2>2, <2>3, <2>4, <2>5, <2>6, <2>7, <2>8 DEF ClientStep
<1>2. ASSUME NEW w \in Workers,
             RunStep(w) \/ WrapperStep(w) \/ WorkStep(w)
               \/ EndStatement(w) \/ SpuriousWakeup(w)
      PROVE  WakeupInv'
  <2> USE DEF Goto
  <2>1. CASE LoopTest(w)
    BY <2>1 DEF LoopTest
  <2>2. CASE Check(w)
    BY <2>2 DEF Check
  <2>3. CASE Finally(w)
    BY <2>3 DEF Finally, UpdateNextRun
  <2>4. CASE TestNextRun(w)
    BY <2>4 DEF TestNextRun
  <2>5. CASE ComputeSleep(w)
    BY <2>5 DEF ComputeSleep
  <2>6. CASE EnterWait(w)
    BY <2>6 DEF EnterWait
  <2>7. CASE WaitInterrupted(w)
    BY <2>7 DEF WaitInterrupted
  <2>8. CASE WaitTimeout(w)
    BY <2>8 DEF WaitTimeout
  <2>9. CASE SpuriousWakeup(w)
    BY <2>9 DEF SpuriousWakeup
  <2>10. CASE TestInterrupted(w)
    BY <2>10 DEF TestInterrupted
  <2>11. CASE ExecuteStatement(w)
    BY <2>11 DEF ExecuteStatement
  <2>12. CASE WorkEnds(w)
    BY <2>12 DEF WorkEnds
  <2>13. CASE WorkInterrupted(w)
    BY <2>13 DEF WorkInterrupted
  <2>14. CASE BeginStatement(w)
    BY <2>14 DEF BeginStatement
  <2>15. CASE ExecuteUnregistered(w)
    BY <2>15 DEF ExecuteUnregistered
  <2>16. CASE EndStatement(w)
    BY <2>16 DEF EndStatement
  <2> QED
    BY <1>2, <2>1, <2>2, <2>3, <2>4, <2>5, <2>6, <2>7, <2>8,
       <2>9, <2>10, <2>11, <2>12, <2>13, <2>14, <2>15, <2>16
       DEF RunStep, WrapperStep, WorkStep
<1>3. CASE Tick
  BY <1>3 DEF Tick
<1>4. CASE UNCHANGED vars
  BY <1>4 DEF vars
<1> QED
  BY <1>1, <1>2, <1>3, <1>4 DEF Next

(* The window of the oversleep is the only one.                            *)
LEMMA WindowStep ==
  ASSUME TypeOK, WakeupInv, WindowInv, PeriodicOversleep, [Next]_vars
  PROVE  (WindowInv /\ PeriodicOversleep)'
<1> USE WorkerAssumption, FreeAssumption
    DEF TypeOK, WakeupInv, AtMostOneLive, Live, CallInv, IdleWakeupServed, WindowInv,
        PeriodicOversleep,
        IdlePCs, WaitPCs, WorkPCs, PCs, history, clientVars, workerVars
<1>1. ASSUME NEW c \in Clients, ClientStep(c) PROVE (WindowInv /\ PeriodicOversleep)'
  <2>1. ASSUME NEW w \in Workers, Startup(c, w) PROVE (WindowInv /\ PeriodicOversleep)'
    BY <2>1 DEF Startup, Synchronized
  <2>2. CASE Wakeup(c)
    BY <2>2 DEF Wakeup, Synchronized, WaitSet
  <2>3. CASE ShutdownFlag(c)
    BY <2>3 DEF ShutdownFlag, Synchronized
  <2>4. CASE ShutdownInterrupt(c)
    BY <2>4 DEF ShutdownInterrupt, Live
  <2>5. CASE ShutdownCancel(c)
    BY <2>5 DEF ShutdownCancel
  <2>6. CASE Join(c)
    BY <2>6 DEF Join, Synchronized
  <2>7. CASE JoinReturn(c)
    BY <2>7 DEF JoinReturn
  <2>8. CASE JoinInterrupted(c)
    BY <2>8 DEF JoinInterrupted
  <2> QED
    BY <1>1, <2>1, <2>2, <2>3, <2>4, <2>5, <2>6, <2>7, <2>8 DEF ClientStep
<1>2. ASSUME NEW w \in Workers,
             RunStep(w) \/ WrapperStep(w) \/ WorkStep(w)
               \/ EndStatement(w) \/ SpuriousWakeup(w)
      PROVE  (WindowInv /\ PeriodicOversleep)'
  <2> USE DEF Goto
  <2>1. CASE LoopTest(w)
    BY <2>1 DEF LoopTest
  <2>2. CASE Check(w)
    BY <2>2 DEF Check
  <2>3. CASE Finally(w)
    BY <2>3 DEF Finally, UpdateNextRun
  <2>4. CASE TestNextRun(w)
    BY <2>4 DEF TestNextRun
  <2>5. CASE ComputeSleep(w)
    BY <2>5 DEF ComputeSleep
  <2>6. CASE EnterWait(w)
    BY <2>6 DEF EnterWait
  <2>7. CASE WaitInterrupted(w)
    BY <2>7 DEF WaitInterrupted
  <2>8. CASE WaitTimeout(w)
    BY <2>8 DEF WaitTimeout
  <2>9. CASE SpuriousWakeup(w)
    BY <2>9 DEF SpuriousWakeup
  <2>10. CASE TestInterrupted(w)
    BY <2>10 DEF TestInterrupted
  <2>11. CASE ExecuteStatement(w)
    BY <2>11 DEF ExecuteStatement
  <2>12. CASE WorkEnds(w)
    BY <2>12 DEF WorkEnds
  <2>13. CASE WorkInterrupted(w)
    BY <2>13 DEF WorkInterrupted
  <2>14. CASE BeginStatement(w)
    BY <2>14 DEF BeginStatement
  <2>15. CASE ExecuteUnregistered(w)
    BY <2>15 DEF ExecuteUnregistered
  <2>16. CASE EndStatement(w)
    BY <2>16 DEF EndStatement
  <2> QED
    BY <1>2, <2>1, <2>2, <2>3, <2>4, <2>5, <2>6, <2>7, <2>8,
       <2>9, <2>10, <2>11, <2>12, <2>13, <2>14, <2>15, <2>16
       DEF RunStep, WrapperStep, WorkStep
<1>3. CASE Tick
  BY <1>3 DEF Tick
<1>4. CASE UNCHANGED vars
  BY <1>4 DEF vars
<1> QED
  BY <1>1, <1>2, <1>3, <1>4 DEF Next

(* A signalled worker keeps the signal until it ends or throws it away.    *)
LEMMA SignalStep ==
  ASSUME TypeOK, WakeupInv, SignalInv, [Next]_vars
  PROVE  SignalInv'
<1> USE WorkerAssumption, FreeAssumption
    DEF TypeOK, WakeupInv, AtMostOneLive, Live, CallInv, SignalInv, Signalled,
        IdlePCs, WaitPCs, WorkPCs, PCs, history, clientVars, workerVars
<1>1. ASSUME NEW c \in Clients, ClientStep(c) PROVE SignalInv'
  <2>1. ASSUME NEW w \in Workers, Startup(c, w) PROVE SignalInv'
    BY <2>1 DEF Startup, Synchronized
  <2>2. CASE Wakeup(c)
    BY <2>2 DEF Wakeup, Synchronized, WaitSet
  <2>3. CASE ShutdownFlag(c)
    BY <2>3 DEF ShutdownFlag, Synchronized
  <2>4. CASE ShutdownInterrupt(c)
    BY <2>4 DEF ShutdownInterrupt, Live
  <2>5. CASE ShutdownCancel(c)
    BY <2>5 DEF ShutdownCancel
  <2>6. CASE Join(c)
    BY <2>6 DEF Join, Synchronized
  <2>7. CASE JoinReturn(c)
    BY <2>7 DEF JoinReturn
  <2>8. CASE JoinInterrupted(c)
    BY <2>8 DEF JoinInterrupted
  <2> QED
    BY <1>1, <2>1, <2>2, <2>3, <2>4, <2>5, <2>6, <2>7, <2>8 DEF ClientStep
<1>2. ASSUME NEW w \in Workers,
             RunStep(w) \/ WrapperStep(w) \/ WorkStep(w)
               \/ EndStatement(w) \/ SpuriousWakeup(w)
      PROVE  SignalInv'
  <2> USE DEF Goto
  <2>1. CASE LoopTest(w)
    BY <2>1 DEF LoopTest
  <2>2. CASE Check(w)
    BY <2>2 DEF Check
  <2>3. CASE Finally(w)
    BY <2>3 DEF Finally, UpdateNextRun
  <2>4. CASE TestNextRun(w)
    BY <2>4 DEF TestNextRun
  <2>5. CASE ComputeSleep(w)
    BY <2>5 DEF ComputeSleep
  <2>6. CASE EnterWait(w)
    BY <2>6 DEF EnterWait
  <2>7. CASE WaitInterrupted(w)
    BY <2>7 DEF WaitInterrupted
  <2>8. CASE WaitTimeout(w)
    BY <2>8 DEF WaitTimeout
  <2>9. CASE SpuriousWakeup(w)
    BY <2>9 DEF SpuriousWakeup
  <2>10. CASE TestInterrupted(w)
    BY <2>10 DEF TestInterrupted
  <2>11. CASE ExecuteStatement(w)
    BY <2>11 DEF ExecuteStatement
  <2>12. CASE WorkEnds(w)
    BY <2>12 DEF WorkEnds
  <2>13. CASE WorkInterrupted(w)
    BY <2>13 DEF WorkInterrupted
  <2>14. CASE BeginStatement(w)
    BY <2>14 DEF BeginStatement
  <2>15. CASE ExecuteUnregistered(w)
    BY <2>15 DEF ExecuteUnregistered
  <2>16. CASE EndStatement(w)
    BY <2>16 DEF EndStatement
  <2> QED
    BY <1>2, <2>1, <2>2, <2>3, <2>4, <2>5, <2>6, <2>7, <2>8,
       <2>9, <2>10, <2>11, <2>12, <2>13, <2>14, <2>15, <2>16
       DEF RunStep, WrapperStep, WorkStep
<1>3. CASE Tick
  BY <1>3 DEF Tick
<1>4. CASE UNCHANGED vars
  BY <1>4 DEF vars
<1> QED
  BY <1>1, <1>2, <1>3, <1>4 DEF Next

(* A cancel misses a statement in the window only.                         *)
LEMMA CancelStep ==
  ASSUME TypeOK, WakeupInv, SignalInv, CancelInv, [Next]_vars
  PROVE  CancelInv'
<1> USE WorkerAssumption, FreeAssumption
    DEF TypeOK, WakeupInv, AtMostOneLive, Live, CallInv, SignalInv, Signalled, CancelInv,
        IdlePCs, WaitPCs, WorkPCs, PCs, history, clientVars, workerVars
<1>1. ASSUME NEW c \in Clients, ClientStep(c) PROVE CancelInv'
  <2>1. ASSUME NEW w \in Workers, Startup(c, w) PROVE CancelInv'
    BY <2>1 DEF Startup, Synchronized
  <2>2. CASE Wakeup(c)
    BY <2>2 DEF Wakeup, Synchronized, WaitSet
  <2>3. CASE ShutdownFlag(c)
    BY <2>3 DEF ShutdownFlag, Synchronized
  <2>4. CASE ShutdownInterrupt(c)
    BY <2>4 DEF ShutdownInterrupt, Live
  <2>5. CASE ShutdownCancel(c)
    BY <2>5 DEF ShutdownCancel
  <2>6. CASE Join(c)
    BY <2>6 DEF Join, Synchronized
  <2>7. CASE JoinReturn(c)
    BY <2>7 DEF JoinReturn
  <2>8. CASE JoinInterrupted(c)
    BY <2>8 DEF JoinInterrupted
  <2> QED
    BY <1>1, <2>1, <2>2, <2>3, <2>4, <2>5, <2>6, <2>7, <2>8 DEF ClientStep
<1>2. ASSUME NEW w \in Workers,
             RunStep(w) \/ WrapperStep(w) \/ WorkStep(w)
               \/ EndStatement(w) \/ SpuriousWakeup(w)
      PROVE  CancelInv'
  <2> USE DEF Goto
  <2>1. CASE LoopTest(w)
    BY <2>1 DEF LoopTest
  <2>2. CASE Check(w)
    BY <2>2 DEF Check
  <2>3. CASE Finally(w)
    BY <2>3 DEF Finally, UpdateNextRun
  <2>4. CASE TestNextRun(w)
    BY <2>4 DEF TestNextRun
  <2>5. CASE ComputeSleep(w)
    BY <2>5 DEF ComputeSleep
  <2>6. CASE EnterWait(w)
    BY <2>6 DEF EnterWait
  <2>7. CASE WaitInterrupted(w)
    BY <2>7 DEF WaitInterrupted
  <2>8. CASE WaitTimeout(w)
    BY <2>8 DEF WaitTimeout
  <2>9. CASE SpuriousWakeup(w)
    BY <2>9 DEF SpuriousWakeup
  <2>10. CASE TestInterrupted(w)
    BY <2>10 DEF TestInterrupted
  <2>11. CASE ExecuteStatement(w)
    BY <2>11 DEF ExecuteStatement
  <2>12. CASE WorkEnds(w)
    BY <2>12 DEF WorkEnds
  <2>13. CASE WorkInterrupted(w)
    BY <2>13 DEF WorkInterrupted
  <2>14. CASE BeginStatement(w)
    BY <2>14 DEF BeginStatement
  <2>15. CASE ExecuteUnregistered(w)
    BY <2>15 DEF ExecuteUnregistered
  <2>16. CASE EndStatement(w)
    BY <2>16 DEF EndStatement
  <2> QED
    BY <1>2, <2>1, <2>2, <2>3, <2>4, <2>5, <2>6, <2>7, <2>8,
       <2>9, <2>10, <2>11, <2>12, <2>13, <2>14, <2>15, <2>16
       DEF RunStep, WrapperStep, WorkStep
<1>3. CASE Tick
  BY <1>3 DEF Tick
<1>4. CASE UNCHANGED vars
  BY <1>4 DEF vars
<1> QED
  BY <1>1, <1>2, <1>3, <1>4 DEF Next
-----------------------------------------------------------------------------
LEMMA InitInv == Init => Inv
  BY WorkerAssumption, FreeAssumption
     DEF Init, Inv, TypeOK, WakeupInv, AtMostOneLive, Live, CallInv,
         IdleWakeupServed, PendingInv, PeriodicOversleep, WindowInv,
         SignalInv, Signalled, CancelInv, StatementOutlivesShutdown,
         IdlePCs, WaitPCs, WorkPCs, PCs

LEMMA StepInv == Inv /\ [Next]_vars => Inv'
<1> SUFFICES ASSUME Inv, [Next]_vars PROVE Inv'
  OBVIOUS
<1>1. TypeOK'
  BY TypeStep DEF Inv
<1>2. WakeupInv'
  BY WakeupStep DEF Inv
<1>3. WindowInv' /\ PeriodicOversleep'
  BY WindowStep DEF Inv
<1>4. SignalInv'
  BY SignalStep DEF Inv
<1>5. CancelInv'
  BY CancelStep DEF Inv
<1>6. StatementOutlivesShutdown'
  BY <1>5 DEF CancelInv, StatementOutlivesShutdown
<1> QED
  BY <1>1, <1>2, <1>3, <1>4, <1>5, <1>6 DEF Inv

LEMMA InvHolds == Spec => []Inv
  BY InitInv, StepInv, PTL DEF Spec

-----------------------------------------------------------------------------
(* The state is well typed, and the monitor of the Daemon has one owner at *)
(* a time, in every reachable state.                                       *)
THEOREM TypeCorrect == Spec => []TypeOK
<1>1. Inv => TypeOK
  BY DEF Inv
<1> QED
  BY <1>1, InvHolds, PTL

(* Two worker threads of one daemon never run at the same time.            *)
THEOREM OneWorker == Spec => []AtMostOneLive
<1>1. Inv => AtMostOneLive
  BY DEF Inv, WakeupInv
<1> QED
  BY <1>1, InvHolds, PTL

(* A wakeup of an idle worker is followed by work(), not by another wait.  *)
THEOREM WakeupNotLost == Spec => []IdleWakeupServed
<1>1. Inv => IdleWakeupServed
  BY DEF Inv, WakeupInv
<1> QED
  BY <1>1, InvHolds, PTL

(* A periodic daemon waits without a time limit only after a wakeup that   *)
(* came between updateNextRun() and the second test of nextRun.            *)
THEOREM OversleepWindow == Spec => []PeriodicOversleep
<1>1. Inv => PeriodicOversleep
  BY DEF Inv
<1> QED
  BY <1>1, InvHolds, PTL

(* Only a cancel that fell between the test of the flag and the execution  *)
(* leaves a registered statement executing after shutdown().               *)
THEOREM CancelWindow == Spec => []StatementOutlivesShutdown
<1>1. Inv => StatementOutlivesShutdown
  BY DEF Inv
<1> QED
  BY <1>1, InvHolds, PTL

(* A notify is never consumed by a thread in join(): join() holds the      *)
(* monitor of the Daemon, without which there is no wakeup().              *)
THEOREM NotifyReachesWorker == Spec => WakeupReleasesWorker
<1>1. ASSUME TypeOK, [Next]_vars
      PROVE  [\A c \in Clients, w \in Workers :
                Wakeup(c) /\ executor = w /\ pc[w] \in WaitPCs
                  => pc'[w] = "loop"]_vars
  <2> SUFFICES ASSUME NEW c \in Clients, NEW w \in Workers,
                      Wakeup(c), executor = w, pc[w] \in WaitPCs
               PROVE  pc'[w] = "loop"
    OBVIOUS
  <2>1. \A d \in Clients : call[d] = "none"
    BY <1>1, FreeAssumption DEF TypeOK, Wakeup, Synchronized
  <2>2. WaitSet(w) = {w}
    BY <2>1 DEF WaitSet
  <2> QED
    BY <1>1, <2>2 DEF Wakeup, TypeOK
<1> QED
  BY <1>1, TypeCorrect, PTL DEF Spec, WakeupReleasesWorker
-----------------------------------------------------------------------------
(* Daemon implements DaemonLifecycle.                                      *)

(* Every step of the daemon is a step of its lifecycle, or none.           *)
LEMMA LifecycleStep ==
  ASSUME Inv, [Next]_vars
  PROVE  [Life!LifeNext]_(Life!lifeVars)
<1> USE WorkerAssumption, FreeAssumption
    DEF Inv, TypeOK, WakeupInv, AtMostOneLive, Live, CallInv, Status, Working,
        Grace, WorkPCs, IdlePCs, WaitPCs, PCs, clientVars, workerVars, history,
        Life!LifeNext, Life!lifeVars, Life!LifeStart, Life!LifeRequest,
        Life!LifeJoin, Life!LifeBegin, Life!LifeSkip, Life!LifeEnd, Life!LifeDie
<1>1. ASSUME NEW c \in Clients, ClientStep(c) PROVE [Life!LifeNext]_(Life!lifeVars)
  <2>1. ASSUME NEW w \in Workers, Startup(c, w) PROVE [Life!LifeNext]_(Life!lifeVars)
    BY <2>1 DEF Startup, Synchronized
  <2>2. CASE Wakeup(c)
    <3>1. \/ pc' = pc
          \/ pc' = [pc EXCEPT ![executor] = "loop"] /\ pc[executor] \in WaitPCs
      <4>1. CASE WaitSet(executor) = {} /\ UNCHANGED pc
        BY <4>1
      <4>2. CASE ~(WaitSet(executor) = {} /\ UNCHANGED pc)
        BY <2>2, <4>2 DEF Wakeup, WaitSet, Synchronized
      <4> QED
        BY <4>1, <4>2
    <3> QED
      BY <2>2, <3>1 DEF Wakeup, Synchronized
  <2>3. CASE ShutdownFlag(c)
    BY <2>3 DEF ShutdownFlag, Synchronized
  <2>4. CASE ShutdownInterrupt(c)
    BY <2>4 DEF ShutdownInterrupt
  <2>5. CASE ShutdownCancel(c)
    BY <2>5 DEF ShutdownCancel
  <2>6. CASE Join(c)
    BY <2>6 DEF Join
  <2>7. CASE JoinReturn(c)
    BY <2>7 DEF JoinReturn
  <2>8. CASE JoinInterrupted(c)
    BY <2>8 DEF JoinInterrupted
  <2> QED
    BY <1>1, <2>1, <2>2, <2>3, <2>4, <2>5, <2>6, <2>7, <2>8 DEF ClientStep
<1>2. ASSUME NEW w \in Workers,
             RunStep(w) \/ WrapperStep(w) \/ WorkStep(w)
               \/ EndStatement(w) \/ SpuriousWakeup(w)
      PROVE  [Life!LifeNext]_(Life!lifeVars)
  <2> USE DEF Goto
  <2>1. CASE LoopTest(w)
    BY <2>1 DEF LoopTest
  <2>2. CASE Check(w)
    <3>1. executor = w /\ executor # NoWorker
      BY <2>2 DEF Check
    <3>2. CASE nextRun \in {"asap", "due"}
      BY <2>2, <3>1, <3>2 DEF Check
    <3>3. CASE nextRun \notin {"asap", "due"}
      BY <2>2, <3>1, <3>3 DEF Check
    <3> QED
      BY <3>2, <3>3
  <2>3. CASE Finally(w)
    BY <2>3 DEF Finally
  <2>4. CASE TestNextRun(w)
    BY <2>4 DEF TestNextRun
  <2>5. CASE ComputeSleep(w)
    BY <2>5 DEF ComputeSleep
  <2>6. CASE EnterWait(w)
    BY <2>6, ZenonT(30) DEF EnterWait
  <2>7. CASE WaitInterrupted(w)
    BY <2>7 DEF WaitInterrupted
  <2>8. CASE WaitTimeout(w)
    BY <2>8 DEF WaitTimeout
  <2>9. CASE SpuriousWakeup(w)
    BY <2>9 DEF SpuriousWakeup
  <2>10. CASE TestInterrupted(w)
    BY <2>10 DEF TestInterrupted
  <2>11. CASE ExecuteStatement(w)
    BY <2>11 DEF ExecuteStatement
  <2>12. CASE WorkEnds(w)
    BY <2>12 DEF WorkEnds
  <2>13. CASE WorkInterrupted(w)
    BY <2>13 DEF WorkInterrupted
  <2>14. CASE BeginStatement(w)
    BY <2>14 DEF BeginStatement
  <2>15. CASE ExecuteUnregistered(w)
    BY <2>15 DEF ExecuteUnregistered
  <2>16. CASE EndStatement(w)
    BY <2>16 DEF EndStatement
  <2> QED
    BY <1>2, <2>1, <2>2, <2>3, <2>4, <2>5, <2>6, <2>7, <2>8,
       <2>9, <2>10, <2>11, <2>12, <2>13, <2>14, <2>15, <2>16
       DEF RunStep, WrapperStep, WorkStep
<1>3. CASE Tick
  BY <1>3 DEF Tick
<1>4. CASE UNCHANGED vars
  BY <1>4 DEF vars
<1> QED
  BY <1>1, <1>2, <1>3, <1>4 DEF Next

(* The daemon keeps the promise its groups rely on: started once per join, *)
(* at most one run of work() after shutdown(), none once it is dead.       *)
THEOREM LifecycleImplemented == Spec => ImplementsLifecycle
<1>1. Init => Life!LifeInit
  BY DEF Init, Life!LifeInit, Status, Working, Grace
<1>2. Inv /\ [Next]_vars => [Life!LifeNext]_(Life!lifeVars)
  BY LifecycleStep
<1> QED
  BY <1>1, <1>2, InvHolds, PTL DEF Spec, ImplementsLifecycle, Life!LifeSpec
=============================================================================
