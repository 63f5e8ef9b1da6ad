------------------------ MODULE DaemonManagerProofs ------------------------
(***************************************************************************)
(* Proofs about DaemonManager, for any clients and groups, whatever the    *)
(* application's code calls: shutdownAll() leaves no group running that    *)
(* nobody started again, and what every circle of waiting threads is.      *)
(***************************************************************************)
EXTENDS DaemonManager, TLAPS

Lives == {"off", "on", "stopping", "dead"}
Places == {"loop", "count", "replace", "wakeup", "task"}
CallsAt == {"none", "next", "map", "enter", "joinWorker", "joinProducer"}
Records == [at : CallsAt, group : Groups \cup {Nobody}, all : BOOLEAN,
            todo : SUBSET Groups]

TypeOK ==
  /\ mapLock \in Threads \cup {Nobody}
  /\ monitor \in [Groups -> Threads \cup {Nobody}]
  /\ registered \in SUBSET Groups
  /\ running \in SUBSET Groups /\ removed \in SUBSET Groups
  /\ life \in [Daemons -> Lives]
  /\ dpc \in [Daemons -> Places] /\ late \in SUBSET Producers
  /\ call \in [Threads -> Records]
  /\ interrupted \in SUBSET Threads /\ restarted \in SUBSET Groups
  /\ calls \in Nat

(* A producer does not run tasks, and a worker does nothing else.          *)
PlacesInv ==
  \A g \in Groups :
    /\ dpc[Producer(g)] \in {"loop", "count", "replace", "wakeup"}
    /\ dpc[WorkerOf(g)] \in {"loop", "task"}

Holds(t) == call[t].at \in {"joinWorker", "joinProducer"}

(* Where a thread in a call is: a daemon is in the application's code.     *)
CallsInv ==
  \A t \in Threads :
    /\ call[t].at = "enter" \/ Holds(t) => call[t].group \in Groups
    /\ call[t].at = "next" => call[t].all
    /\ call[t].at \in {"none", "map"} => ~call[t].all
    /\ call[t].at # "none" => InApplication(t)

(* Whose locks they are: the monitor of a group belongs to the thread that *)
(* waits for its daemons, the map to the one in shutdownAll().             *)
LocksInv ==
  \A t \in Threads :
    /\ mapLock = t <=> call[t].all
    /\ \A g \in Groups : monitor[g] = t <=> Holds(t) /\ call[t].group = g

(* The producer a thread waits for has been asked to stop; and of those    *)
(* asked to stop only the late ones get to wakeup().                       *)
LateInv ==
  /\ \A t \in Threads :
       call[t].at = "joinProducer" => life[Producer(call[t].group)] # "on"
  /\ \A g \in Groups :
       LET p == Producer(g) IN
         life[p] = "stopping" =>
           /\ dpc[p] \in {"count", "wakeup"} => p \in late
           /\ dpc[p] = "replace" => p \in late \cup interrupted

(* shutdownAll() on its way: what still runs is to be stopped, or has been *)
(* started again.                                                          *)
StoppingInv ==
  \A t \in Threads :
    mapLock = t =>
      \/ t \in interrupted
      \/ \A g \in registered \cap running :
           \/ g \in restarted \/ g \in call[t].todo
           \/ call[t].at # "next" /\ call[t].group = g

IInv ==
  TypeOK /\ PlacesInv /\ CallsInv /\ LocksInv /\ LateInv /\ StoppingInv

-----------------------------------------------------------------------------
LEMMA DaemonsApart ==
  /\ \A g \in Groups : Producer(g) \in Daemons /\ WorkerOf(g) \in Daemons
  /\ \A g, h : Producer(g) = Producer(h) => g = h
  /\ \A g, h : WorkerOf(g) = WorkerOf(h) => g = h
  /\ \A g, h : Producer(g) # WorkerOf(h)
  /\ \A g : Producer(g)[1] = g /\ WorkerOf(g)[1] = g
  /\ \A d \in Daemons : \E g \in Groups : d = Producer(g) \/ d = WorkerOf(g)
  BY DEF Daemons, Producer, WorkerOf

LEMMA InitInv == Init => IInv
<1>1. SUFFICES ASSUME Init PROVE IInv OBVIOUS
<1>2. \A t \in Threads : call[t] = NoCall
  BY <1>1 DEF Init
<1>3. TypeOK
  <2>1. NoCall \in Records
    BY DEF NoCall, Records, CallsAt
  <2>2. call \in [Threads -> Records]
    BY <1>1, <2>1 DEF Init
  <2>3. calls \in Nat
    BY <1>1, CallsAssumption DEF Init
  <2>4. life \in [Daemons -> Lives]
    BY <1>1 DEF Init, Lives
  <2>5. QED BY <1>1, <2>2, <2>3, <2>4 DEF Init, TypeOK, Places
<1>4. PlacesInv
  BY <1>1, DaemonsApart DEF Init, PlacesInv
<1>5. CallsInv /\ LocksInv
  BY <1>1, <1>2, NobodyAssumption DEF Init, CallsInv, LocksInv, Holds, NoCall
<1>6. LateInv
  BY <1>1, <1>2, DaemonsApart DEF Init, LateInv, NoCall
<1>7. StoppingInv
  BY <1>1, NobodyAssumption DEF Init, StoppingInv
<1>8. QED BY <1>3, <1>4, <1>5, <1>6, <1>7 DEF IInv

-----------------------------------------------------------------------------
(* The threads of the daemons.                                             *)

(* A daemon goes from one place to another.                                *)
LEMMA DaemonStepInv ==
  ASSUME IInv, NEW d \in Daemons, NEW from, NEW to \in Places,
         DaemonStep(d, from, to),
         interrupted' \in {interrupted, interrupted \ {d}},
         \A g \in Groups : d = Producer(g) =>
           /\ to \in {"loop", "count", "replace", "wakeup"}
           /\ life[d] = "stopping" => to = "loop" \/ d \in late,
         \A g \in Groups : d = WorkerOf(g) => to \in {"loop", "task"}
  PROVE  IInv'
<1>1. TypeOK /\ PlacesInv /\ CallsInv /\ LocksInv /\ LateInv /\ StoppingInv
  BY DEF IInv
<1>2. /\ UNCHANGED <<mapLock, monitor, registered, running, removed>>
      /\ UNCHANGED <<life, late, call, restarted, calls>>
      /\ call[d].at = "none" /\ dpc' = [dpc EXCEPT ![d] = to]
  BY DEF DaemonStep, locks, groups
<1>3. TypeOK'
  BY <1>1, <1>2 DEF TypeOK
<1>4. dpc'[d] = to /\ \A e \in Daemons \ {d} : dpc'[e] = dpc[e]
  BY <1>1, <1>2 DEF TypeOK
<1>5. PlacesInv'
  BY <1>1, <1>4, DaemonsApart DEF PlacesInv
<1>6. CallsInv'
  BY <1>1, <1>2, <1>4 DEF CallsInv, Holds, InApplication
<1>7. LocksInv'
  BY <1>1, <1>2 DEF LocksInv, Holds
<1>8. LateInv'
  <2>1. ASSUME NEW g \in Groups, life[Producer(g)] = "stopping"
        PROVE  /\ dpc'[Producer(g)] \in {"count", "wakeup"} => Producer(g) \in late
               /\ dpc'[Producer(g)] = "replace" =>
                    Producer(g) \in late \cup interrupted'
    <3>1. Producer(g) \in Daemons
      BY DaemonsApart
    <3>2. CASE Producer(g) = d
      BY <1>4, <2>1, <3>2
    <3>3. CASE Producer(g) # d
      BY <1>1, <1>4, <2>1, <3>1, <3>3 DEF LateInv
    <3>4. QED BY <3>2, <3>3
  <2>2. QED BY <1>1, <1>2, <2>1 DEF LateInv
<1>9. StoppingInv'
  <2>1. ASSUME NEW t \in Threads, mapLock = t
        PROVE  t # d
    BY <1>1, <1>2, <2>1 DEF LocksInv, CallsInv
  <2>2. QED BY <1>1, <1>2, <2>1 DEF StoppingInv
<1>10. QED BY <1>3, <1>5, <1>6, <1>7, <1>8, <1>9 DEF IInv

LEMMA WorkInv ==
  ASSUME IInv, NEW g \in Groups, Work(g)
  PROVE  IInv'
<1> DEFINE p == Producer(g)
<1>1. /\ p \in Daemons
      /\ \A h \in Groups : p # WorkerOf(h)
  BY DaemonsApart
<1>2. /\ dpc[p] \in {"count", "wakeup"} /\ life[p] = "stopping" => p \in late
      /\ dpc[p] = "replace" /\ life[p] = "stopping" => p \in late \cup interrupted
  BY DEF IInv, LateInv
<1>3. PICK to \in Places, from \in Places :
        /\ DaemonStep(p, from, to)
        /\ interrupted' \in {interrupted, interrupted \ {p}}
        /\ to \in {"loop", "count", "replace", "wakeup"}
        /\ life[p] = "stopping" => to = "loop" \/ p \in late
  <2>1. CASE Produce(g)
    BY <2>1 DEF Produce, Goes, Places
  <2>2. CASE GetCount(g)
    BY <1>2, <2>2 DEF GetCount, Goes, DaemonStep, Places
  <2>3. CASE ReplaceNothing(g)
    BY <2>3 DEF ReplaceNothing, Leave, Places
  <2>4. CASE CheckInterrupted(g)
    BY <1>2, <2>4 DEF CheckInterrupted, Leave, Goes, DaemonStep, Places
  <2>5. CASE Wakeup(g)
    BY <2>5 DEF Wakeup, Goes, Places
  <2>6. QED BY <2>1, <2>2, <2>3, <2>4, <2>5 DEF Work
<1>4. QED BY <1>1, <1>3, DaemonStepInv

LEMMA TaskInv ==
  ASSUME IInv, NEW g \in Groups, RunTask(g) \/ EndTasks(g)
  PROVE  IInv'
<1> DEFINE w == WorkerOf(g)
<1>1. /\ w \in Daemons
      /\ \A h \in Groups : w # Producer(h)
  BY DaemonsApart
<1>2. PICK to \in Places, from \in Places :
        /\ DaemonStep(w, from, to)
        /\ interrupted' \in {interrupted, interrupted \ {w}}
        /\ to \in {"loop", "task"}
  BY DEF RunTask, EndTasks, Goes, Leave, Places
<1>3. QED BY <1>1, <1>2, DaemonStepInv

(* A thread that has been asked to stop stops.                             *)
LEMMA StopInv ==
  ASSUME IInv, NEW d \in Daemons, Stop(d)
  PROVE  IInv'
<1>1. TypeOK /\ PlacesInv /\ CallsInv /\ LocksInv /\ LateInv /\ StoppingInv
  BY DEF IInv
<1>2. /\ UNCHANGED <<mapLock, monitor, registered, running, removed>>
      /\ UNCHANGED <<dpc, call, restarted, calls>>
      /\ dpc[d] = "loop" /\ life' = [life EXCEPT ![d] = "dead"]
      /\ interrupted' = interrupted \ {d} /\ late' = late \ {d}
  BY DEF Stop, locks, groups
<1>3. TypeOK'
  BY <1>1, <1>2 DEF TypeOK, Lives
<1>4. life'[d] = "dead" /\ \A e \in Daemons \ {d} : life'[e] = life[e]
  BY <1>1, <1>2 DEF TypeOK
<1>5. PlacesInv' /\ CallsInv' /\ LocksInv'
  BY <1>1, <1>2 DEF PlacesInv, CallsInv, LocksInv, Holds, InApplication
<1>6. LateInv'
  <2>1. \A t \in Threads : call[t].at = "joinProducer" =>
          Producer(call[t].group) \in Daemons
    BY <1>1, DaemonsApart DEF CallsInv, Holds
  <2>2. \A g \in Groups : Producer(g) \in Daemons
    BY DaemonsApart
  <2>3. QED BY <1>1, <1>2, <1>4, <2>1, <2>2 DEF LateInv
<1>7. StoppingInv'
  <2>1. d \in Threads /\ call[d].at = "none"
    BY <1>1, <1>2 DEF Threads, CallsInv, InApplication
  <2>2. mapLock # d
    BY <1>1, <2>1 DEF LocksInv, CallsInv
  <2>3. QED BY <1>1, <1>2, <2>2 DEF StoppingInv
<1>8. QED BY <1>3, <1>5, <1>6, <1>7 DEF IInv

-----------------------------------------------------------------------------
(* The calls.                                                              *)

(* The call of a thread goes on, or is over.                               *)
Becomes(t, r) == call' = [call EXCEPT ![t] = r]

LEMMA ThreadBecomes ==
  ASSUME IInv, NEW t \in Threads, NEW r \in Records, Becomes(t, r), dpc' = dpc,
         r.at \in {"enter", "joinWorker", "joinProducer"} => r.group \in Groups,
         r.at = "next" => r.all, r.at \in {"none", "map"} => ~r.all,
         r.at # "none" => InApplication(t)
  PROVE  /\ call' \in [Threads -> Records]
         /\ call'[t] = r
         /\ \A u \in Threads \ {t} : call'[u] = call[u]
         /\ CallsInv'
<1>1. /\ call' \in [Threads -> Records]
      /\ call'[t] = r
      /\ \A u \in Threads \ {t} : call'[u] = call[u]
  BY DEF IInv, TypeOK, Becomes
<1>2. CallsInv'
  BY <1>1 DEF IInv, CallsInv, Holds, InApplication
<1>3. QED BY <1>1, <1>2

LEMMA NoCallRecord ==
  /\ NoCall \in Records /\ NoCall.at = "none" /\ NoCall.all = FALSE
  BY DEF NoCall, Records, CallsAt

(* A call that gives no lock back is over.                                 *)
LEMMA ThreadEnds ==
  ASSUME IInv, NEW t \in Threads, Ends(t), dpc' = dpc
  PROVE  /\ call' \in [Threads -> Records]
         /\ call'[t] = NoCall
         /\ \A u \in Threads \ {t} : call'[u] = call[u]
         /\ CallsInv'
  BY NoCallRecord, ThreadBecomes DEF Ends, Becomes

(* shutdown() returns to its caller, or to shutdownAll().                  *)
LEMMA ReturnedRecord ==
  ASSUME IInv, NEW t \in Threads
  PROVE  /\ Returned(t) \in Records
         /\ Returned(t).at = IF call[t].all THEN "next" ELSE "none"
         /\ Returned(t).all = call[t].all
         /\ call[t].all => Returned(t).todo = call[t].todo
  BY DEF IInv, TypeOK, Returned, NoCall, CallsAt, Records

LEMMA ThreadReturns ==
  ASSUME IInv, NEW t \in Threads, call[t].at # "none", Becomes(t, Returned(t)),
         dpc' = dpc
  PROVE  /\ call' \in [Threads -> Records]
         /\ call'[t] = Returned(t)
         /\ \A u \in Threads \ {t} : call'[u] = call[u]
         /\ CallsInv'
<1>1. InApplication(t)
  BY DEF IInv, CallsInv
<1>2. QED BY <1>1, ReturnedRecord, ThreadBecomes

LEMMA CallInv ==
  ASSUME IInv, NEW t \in Threads,
         CallManager(t) \/ \E g \in Groups : CallGroup(t, g)
  PROVE  IInv'
<1>1. TypeOK /\ PlacesInv /\ CallsInv /\ LocksInv /\ LateInv /\ StoppingInv
  BY DEF IInv
<1>2. PICK r \in Records :
        /\ Call(t, r) /\ r.at \in {"map", "enter"} /\ r.all = FALSE
        /\ r.at = "enter" => r.group \in Groups
  <2>1. CASE CallManager(t)
    <3> DEFINE r == [at |-> "map", group |-> Nobody, all |-> FALSE, todo |-> {}]
    <3>1. r \in Records /\ r.at = "map" /\ r.all = FALSE
      BY DEF Records, CallsAt
    <3>2. Call(t, r)
      BY <2>1 DEF CallManager
    <3>3. QED BY <3>1, <3>2
  <2>2. ASSUME NEW g \in Groups, CallGroup(t, g)
        PROVE  \E r \in Records :
                 /\ Call(t, r) /\ r.at \in {"map", "enter"} /\ r.all = FALSE
                 /\ r.at = "enter" => r.group \in Groups
    <3> DEFINE r == [at |-> "enter", group |-> g, all |-> FALSE, todo |-> {}]
    <3>1. r \in Records /\ r.at = "enter" /\ r.all = FALSE /\ r.group = g
      BY DEF Records, CallsAt
    <3>2. Call(t, r)
      BY <2>2 DEF CallGroup
    <3>3. QED BY <3>1, <3>2
  <2>3. QED BY <2>1, <2>2
<1>3. /\ UNCHANGED <<mapLock, monitor, registered, running, removed>>
      /\ UNCHANGED <<life, dpc, late, interrupted, restarted>>
      /\ call[t].at = "none" /\ InApplication(t) /\ calls' \in Nat
      /\ Becomes(t, r)
  BY <1>1, <1>2 DEF Call, locks, groups, daemons, TypeOK, Becomes
<1>4. /\ call' \in [Threads -> Records]
      /\ call'[t] = r
      /\ \A u \in Threads \ {t} : call'[u] = call[u]
      /\ CallsInv'
  BY <1>2, <1>3, ThreadBecomes
<1>5. ~call[t].all
  BY <1>1, <1>3 DEF CallsInv
<1>6. TypeOK' /\ PlacesInv'
  BY <1>1, <1>3, <1>4 DEF TypeOK, PlacesInv
<1>7. LocksInv'
  BY <1>1, <1>2, <1>3, <1>4, <1>5 DEF LocksInv, Holds
<1>8. LateInv'
  BY <1>1, <1>2, <1>3, <1>4 DEF LateInv
<1>9. StoppingInv'
  BY <1>1, <1>3, <1>4, <1>5 DEF StoppingInv, LocksInv
<1>10. QED BY <1>4, <1>6, <1>7, <1>8, <1>9 DEF IInv

LEMMA InterruptInv ==
  ASSUME IInv, NEW c \in Clients, Interrupt(c)
  PROVE  IInv'
<1>1. /\ UNCHANGED <<mapLock, monitor, registered, running, removed>>
      /\ UNCHANGED <<life, dpc, late, call, restarted>>
      /\ interrupted' = interrupted \cup {c} /\ c \in Threads
      /\ calls > 0 /\ calls' = calls - 1
  BY DEF Interrupt, locks, groups, daemons, Threads
<1>2. TypeOK /\ PlacesInv /\ CallsInv /\ LocksInv /\ LateInv /\ StoppingInv
  BY DEF IInv
<1>3. TypeOK'
  BY <1>1, <1>2 DEF TypeOK
<1>4. PlacesInv' /\ CallsInv' /\ LocksInv'
  BY <1>1, <1>2 DEF PlacesInv, CallsInv, LocksInv, Holds, InApplication
<1>5. LateInv' /\ StoppingInv'
  BY <1>1, <1>2 DEF LateInv, StoppingInv
<1>6. QED BY <1>3, <1>4, <1>5 DEF IInv

(* A producer that has taken the interrupt is late.                        *)
LEMMA TakeInterruptInv ==
  ASSUME IInv, NEW d \in Daemons, TakeInterrupt(d)
  PROVE  IInv'
<1>1. /\ UNCHANGED <<mapLock, monitor, registered, running, removed>>
      /\ UNCHANGED <<life, dpc, call, restarted, calls>>
      /\ call[d].at = "none" /\ d \in Threads
      /\ interrupted' = interrupted \ {d}
      /\ late' = late \cup ({d} \cap Producers)
  BY DEF TakeInterrupt, locks, groups, Threads
<1>2. TypeOK /\ PlacesInv /\ CallsInv /\ LocksInv /\ LateInv /\ StoppingInv
  BY DEF IInv
<1>3. TypeOK'
  BY <1>1, <1>2 DEF TypeOK
<1>4. PlacesInv' /\ CallsInv' /\ LocksInv'
  BY <1>1, <1>2 DEF PlacesInv, CallsInv, LocksInv, Holds, InApplication
<1>5. LateInv'
  BY <1>1, <1>2 DEF LateInv, Producers
<1>6. StoppingInv'
  <2>1. mapLock # d
    BY <1>1, <1>2 DEF LocksInv, CallsInv
  <2>2. QED BY <1>1, <1>2, <2>1 DEF StoppingInv
<1>7. QED BY <1>3, <1>4, <1>5, <1>6 DEF IInv

(* setCount(0) does nothing to the producer.                               *)
LEMMA ZeroCountEffect ==
  ASSUME TypeOK, NEW g \in Groups, ZeroCount(g)
  PROVE  /\ life' \in [Daemons -> Lives]
         /\ removed' \in SUBSET Groups
         /\ interrupted' \in SUBSET Threads /\ interrupted \subseteq interrupted'
         /\ \A h \in Groups : life'[Producer(h)] = life[Producer(h)]
<1>1. /\ WorkerOf(g) \in Daemons
      /\ \A h \in Groups : Producer(h) \in Daemons \ {WorkerOf(g)}
  BY DaemonsApart
<1>2. /\ \E s \in Lives : life' = [life EXCEPT ![WorkerOf(g)] = s]
      /\ removed' \in {removed, removed \ {g}, removed \cup {g}}
      /\ interrupted' \in {interrupted, interrupted \cup {WorkerOf(g)}}
  <2>1. life[WorkerOf(g)] \in Lives
    BY <1>1 DEF TypeOK
  <2>2. QED BY <2>1 DEF ZeroCount, Requested, Lives
<1>3. QED BY <1>1, <1>2 DEF TypeOK, Threads

(* What takes a lock and gives it back.                                    *)
LEMMA ShortCallInv ==
  ASSUME IInv, NEW t \in Threads,
         \/ GetDaemonGroup(t) \/ \E g \in Groups : AddDaemonGroup(t, g)
         \/ ShortCall(t) \/ Startup(t) \/ CountUp(t) \/ CountDown(t)
  PROVE  IInv'
<1> DEFINE g == call[t].group
<1>1. TypeOK /\ PlacesInv /\ CallsInv /\ LocksInv /\ LateInv /\ StoppingInv
  BY DEF IInv
<1>2. /\ UNCHANGED <<mapLock, monitor, dpc, late, calls>>
      /\ Ends(t) /\ call[t].at \in {"map", "enter"} /\ ~call[t].all
  BY <1>1
     DEF GetDaemonGroup, AddDaemonGroup, ShortCall, Startup, CountUp, CountDown,
         HasOwnCall, HasMonitor, HasMap, locks, groups, daemons, CallsInv
<1>3. call[t].at = "enter" => g \in Groups
  BY <1>1 DEF CallsInv
<1>4. /\ registered' \in SUBSET Groups /\ running' \in SUBSET Groups
      /\ removed' \in SUBSET Groups /\ restarted' \in SUBSET Groups
      /\ life' \in [Daemons -> Lives]
      /\ interrupted' \in SUBSET Threads /\ interrupted \subseteq interrupted'
      /\ \A h \in Groups :
           \/ life'[Producer(h)] = life[Producer(h)]
           \/ h = g /\ monitor[g] = Nobody /\ life'[Producer(h)] = "on"
  <2>1. CASE GetDaemonGroup(t) \/ ShortCall(t)
    BY <1>1, <2>1 DEF GetDaemonGroup, ShortCall, groups, daemons, TypeOK
  <2>2. ASSUME NEW h \in Groups, AddDaemonGroup(t, h)
        PROVE  /\ registered' = registered \cup {h}
               /\ restarted' = restarted \cup {h}
               /\ UNCHANGED <<running, removed, life, interrupted>>
    BY <2>2 DEF AddDaemonGroup, daemons
  <2>3. CASE Startup(t)
    <3>1. g \in Groups /\ Producer(g) \in Daemons
      BY <1>3, <2>3, DaemonsApart DEF Startup, HasOwnCall, HasMonitor
    <3>2. \A h \in Groups : Producer(h) \in Daemons /\ (Producer(h) = Producer(g) => h = g)
      BY DaemonsApart
    <3>3. QED BY <1>1, <2>3, <3>1, <3>2
              DEF Startup, HasOwnCall, HasMonitor, TypeOK, Lives
  <2>4. CASE CountUp(t)
    <3>1. \A h \in Groups : Producer(h) \in Daemons \ {WorkerOf(g)}
      BY DaemonsApart
    <3>2. QED BY <1>1, <2>4, <3>1 DEF CountUp, groups, TypeOK, Lives
  <2>5. CASE CountDown(t)
    <3>1. g \in Groups /\ ZeroCount(g)
      BY <1>3, <2>5 DEF CountDown, HasOwnCall, HasMonitor
    <3>2. QED BY <1>1, <2>5, <3>1, ZeroCountEffect DEF CountDown, TypeOK
  <2>6. CASE \E h \in Groups : AddDaemonGroup(t, h)
    BY <1>1, <2>2, <2>6 DEF TypeOK
  <2>7. QED BY <2>1, <2>3, <2>4, <2>5, <2>6
<1>5. registered' \cap running' \subseteq (registered \cap running) \cup restarted'
      /\ restarted \subseteq restarted'
  BY DEF GetDaemonGroup, AddDaemonGroup, ShortCall, Startup, CountUp, CountDown,
         groups
<1>6. /\ call' \in [Threads -> Records]
      /\ call'[t] = NoCall
      /\ \A u \in Threads \ {t} : call'[u] = call[u]
      /\ CallsInv'
  BY <1>2, ThreadEnds
<1>7. TypeOK' /\ PlacesInv'
  BY <1>1, <1>2, <1>4, <1>6 DEF TypeOK, PlacesInv
<1>8. LocksInv'
  BY <1>1, <1>2, <1>6, NoCallRecord DEF LocksInv, Holds
<1>9. LateInv'
  <2>1. ASSUME NEW u \in Threads, call'[u].at = "joinProducer"
        PROVE  life'[Producer(call'[u].group)] # "on"
    <3>1. call'[u] = call[u]
      BY <1>6, <2>1, NoCallRecord
    <3>2. call[u].group \in Groups /\ monitor[call[u].group] = u
      BY <1>1, <2>1, <3>1 DEF CallsInv, LocksInv, Holds
    <3>3. QED BY <1>1, <1>4, <2>1, <3>1, <3>2, NobodyAssumption DEF LateInv
  <2>2. QED BY <1>1, <1>2, <1>4, <2>1 DEF LateInv
<1>10. StoppingInv'
  <2>1. mapLock # t
    BY <1>1, <1>2 DEF LocksInv
  <2>2. QED BY <1>1, <1>2, <1>4, <1>5, <1>6, <2>1 DEF StoppingInv
<1>11. QED BY <1>6, <1>7, <1>8, <1>9, <1>10 DEF IInv

-----------------------------------------------------------------------------
(* shutdown() and shutdownAll().                                           *)

(* The call goes on in the same group, or in another of shutdownAll().     *)
LEMMA ThreadGoes ==
  ASSUME IInv, NEW t \in Threads, dpc' = dpc, call[t].at # "none",
         NEW at \in {"enter", "joinWorker", "joinProducer"}, NEW g \in Groups,
         NEW todo \in SUBSET Groups,
         Becomes(t, [at |-> at, group |-> g, all |-> call[t].all, todo |-> todo])
  PROVE  /\ call' \in [Threads -> Records]
         /\ call'[t].at = at /\ call'[t].group = g
         /\ call'[t].all = call[t].all /\ call'[t].todo = todo
         /\ \A u \in Threads \ {t} : call'[u] = call[u]
         /\ CallsInv'
<1> DEFINE r == [at |-> at, group |-> g, all |-> call[t].all, todo |-> todo]
<1>1. call[t].all \in BOOLEAN /\ InApplication(t)
  BY DEF IInv, TypeOK, Records, CallsInv
<1>2. r \in Records
  BY <1>1 DEF Records, CallsAt
<1>3. /\ call' \in [Threads -> Records]
      /\ call'[t] = r
      /\ \A u \in Threads \ {t} : call'[u] = call[u]
      /\ CallsInv'
  BY <1>1, <1>2, ThreadBecomes
<1>4. QED BY <1>3

LEMMA ShutdownAllInv ==
  ASSUME IInv, NEW t \in Threads, ShutdownAll(t)
  PROVE  IInv'
<1> DEFINE r == [at |-> "next", group |-> Nobody, all |-> TRUE,
                 todo |-> registered]
<1>1. TypeOK /\ PlacesInv /\ CallsInv /\ LocksInv /\ LateInv /\ StoppingInv
  BY DEF IInv
<1>2. /\ UNCHANGED <<monitor, registered, running, removed>>
      /\ UNCHANGED <<life, dpc, late, interrupted, calls>>
      /\ call[t].at = "map" /\ InApplication(t)
      /\ mapLock = Nobody /\ mapLock' = t /\ restarted' = {}
      /\ Becomes(t, r)
  BY <1>1 DEF ShutdownAll, HasMap, groups, daemons, Becomes, CallsInv
<1>3. r \in Records /\ r.at = "next" /\ r.all = TRUE /\ r.todo = registered
  BY <1>1 DEF Records, CallsAt, TypeOK
<1> HIDE DEF r
<1>4. /\ call' \in [Threads -> Records]
      /\ call'[t] = r
      /\ \A u \in Threads \ {t} : call'[u] = call[u]
      /\ CallsInv'
  BY <1>2, <1>3, ThreadBecomes
<1>5. TypeOK' /\ PlacesInv'
  BY <1>1, <1>2, <1>4 DEF TypeOK, PlacesInv
<1>6. LocksInv'
  BY <1>1, <1>2, <1>3, <1>4, NobodyAssumption DEF LocksInv, Holds
<1>7. LateInv'
  BY <1>1, <1>2, <1>3, <1>4 DEF LateInv
<1>8. StoppingInv'
  BY <1>2, <1>3, <1>4 DEF StoppingInv
<1>9. QED BY <1>4, <1>5, <1>6, <1>7, <1>8 DEF IInv

LEMMA NextGroupInv ==
  ASSUME IInv, NEW t \in Threads, NEW g \in Groups, NextGroup(t, g)
  PROVE  IInv'
<1>1. TypeOK /\ PlacesInv /\ CallsInv /\ LocksInv /\ LateInv /\ StoppingInv
  BY DEF IInv
<1>2. /\ UNCHANGED <<mapLock, monitor, registered, running, removed>>
      /\ UNCHANGED <<life, dpc, late, interrupted, restarted, calls>>
      /\ call[t].at = "next"
      /\ Becomes(t, [at |-> "enter", group |-> g, all |-> call[t].all,
                     todo |-> call[t].todo \ {g}])
  BY <1>1 DEF NextGroup, locks, groups, daemons, Becomes
<1>3. call[t].todo \ {g} \in SUBSET Groups
  BY <1>1 DEF TypeOK, Records
<1>4. /\ call' \in [Threads -> Records]
      /\ call'[t].at = "enter" /\ call'[t].group = g
      /\ call'[t].all = call[t].all /\ call'[t].todo = call[t].todo \ {g}
      /\ \A u \in Threads \ {t} : call'[u] = call[u]
      /\ CallsInv'
  BY <1>2, <1>3, ThreadGoes
<1>5. TypeOK' /\ PlacesInv'
  BY <1>1, <1>2, <1>4 DEF TypeOK, PlacesInv
<1>6. LocksInv'
  BY <1>1, <1>2, <1>4 DEF LocksInv, Holds
<1>7. LateInv'
  BY <1>1, <1>2, <1>4 DEF LateInv
<1>8. StoppingInv'
  BY <1>1, <1>2, <1>4 DEF StoppingInv
<1>9. QED BY <1>4, <1>5, <1>6, <1>7, <1>8 DEF IInv

LEMMA ShutdownAllEndInv ==
  ASSUME IInv, NEW t \in Threads, ShutdownAllEnd(t)
  PROVE  IInv'
<1>1. TypeOK /\ PlacesInv /\ CallsInv /\ LocksInv /\ LateInv /\ StoppingInv
  BY DEF IInv
<1>2. /\ UNCHANGED <<monitor, registered, running, removed>>
      /\ UNCHANGED <<life, dpc, late, interrupted, restarted, calls>>
      /\ call[t].at = "next" /\ mapLock' = Nobody /\ Ends(t)
      /\ mapLock = t
  BY <1>1 DEF ShutdownAllEnd, groups, daemons, CallsInv, LocksInv
<1>3. /\ call' \in [Threads -> Records]
      /\ call'[t] = NoCall
      /\ \A u \in Threads \ {t} : call'[u] = call[u]
      /\ CallsInv'
  BY <1>2, ThreadEnds
<1>4. TypeOK' /\ PlacesInv'
  BY <1>1, <1>2, <1>3 DEF TypeOK, PlacesInv
<1>5. LocksInv'
  BY <1>1, <1>2, <1>3, NoCallRecord, NobodyAssumption DEF LocksInv, Holds
<1>6. LateInv'
  BY <1>1, <1>2, <1>3, NoCallRecord DEF LateInv
<1>7. StoppingInv'
  BY <1>2, NobodyAssumption DEF StoppingInv
<1>8. QED BY <1>3, <1>4, <1>5, <1>6, <1>7 DEF IInv

LEMMA EnterStoppedInv ==
  ASSUME IInv, NEW t \in Threads, EnterStopped(t)
  PROVE  IInv'
<1>1. TypeOK /\ PlacesInv /\ CallsInv /\ LocksInv /\ LateInv /\ StoppingInv
  BY DEF IInv
<1>2. /\ UNCHANGED <<mapLock, monitor, registered, running, removed>>
      /\ UNCHANGED <<life, dpc, late, interrupted, restarted, calls>>
      /\ call[t].at = "enter" /\ call[t].group \notin running
      /\ Becomes(t, Returned(t))
  BY DEF EnterStopped, HasMonitor, locks, groups, daemons, Becomes
<1>3. /\ call' \in [Threads -> Records]
      /\ call'[t] = Returned(t)
      /\ \A u \in Threads \ {t} : call'[u] = call[u]
      /\ CallsInv'
  BY <1>2, ThreadReturns
<1>4. TypeOK' /\ PlacesInv'
  BY <1>1, <1>2, <1>3 DEF TypeOK, PlacesInv
<1>5. LocksInv'
  BY <1>1, <1>2, <1>3, ReturnedRecord DEF LocksInv, Holds
<1>6. LateInv'
  BY <1>1, <1>2, <1>3, ReturnedRecord DEF LateInv
<1>7. StoppingInv'
  BY <1>1, <1>2, <1>3, ReturnedRecord DEF StoppingInv, LocksInv
<1>8. QED BY <1>3, <1>4, <1>5, <1>6, <1>7 DEF IInv

LEMMA EnterInv ==
  ASSUME IInv, NEW t \in Threads, Enter(t)
  PROVE  IInv'
<1> DEFINE g == call[t].group
<1>1. TypeOK /\ PlacesInv /\ CallsInv /\ LocksInv /\ LateInv /\ StoppingInv
  BY DEF IInv
<1>2. /\ UNCHANGED <<mapLock, registered, running, dpc, late>>
      /\ UNCHANGED <<restarted, calls>>
      /\ call[t].at = "enter" /\ monitor[g] = Nobody
      /\ monitor' = [monitor EXCEPT ![g] = t]
      /\ ZeroCount(g)
      /\ Becomes(t, [at |-> "joinWorker", group |-> g, all |-> call[t].all,
                     todo |-> call[t].todo])
  BY DEF Enter, HasMonitor, Becomes
<1>3. g \in Groups /\ call[t].todo \in SUBSET Groups
  BY <1>1, <1>2 DEF TypeOK, CallsInv, Records
<1>4. /\ call' \in [Threads -> Records]
      /\ call'[t].at = "joinWorker" /\ call'[t].group = g
      /\ call'[t].all = call[t].all /\ call'[t].todo = call[t].todo
      /\ \A u \in Threads \ {t} : call'[u] = call[u]
      /\ CallsInv'
  BY <1>2, <1>3, ThreadGoes
<1>5. /\ life' \in [Daemons -> Lives]
      /\ removed' \in SUBSET Groups
      /\ interrupted' \in SUBSET Threads /\ interrupted \subseteq interrupted'
      /\ \A h \in Groups : life'[Producer(h)] = life[Producer(h)]
  BY <1>1, <1>2, <1>3, ZeroCountEffect
<1>6. TypeOK' /\ PlacesInv'
  BY <1>1, <1>2, <1>4, <1>5 DEF TypeOK, PlacesInv
<1>7. LocksInv'
  <2>1. \A h \in Groups : monitor'[h] = IF h = g THEN t ELSE monitor[h]
    BY <1>1, <1>2 DEF TypeOK
  <2>2. \A u \in Threads : ~(Holds(u) /\ call[u].group = g)
    BY <1>1, <1>2, <1>3, NobodyAssumption DEF LocksInv
  <2>3. QED BY <1>1, <1>2, <1>3, <1>4, <2>1, <2>2 DEF LocksInv, Holds
<1>8. LateInv'
  <2>1. ASSUME NEW u \in Threads, call'[u].at = "joinProducer"
        PROVE  life'[Producer(call'[u].group)] # "on"
    <3>1. u # t /\ call[u].at = "joinProducer" /\ call'[u] = call[u]
      BY <1>4, <2>1
    <3>2. QED BY <1>1, <1>5, <3>1 DEF LateInv, CallsInv, Holds
  <2>2. QED BY <1>1, <1>2, <1>5, <2>1 DEF LateInv
<1>9. StoppingInv'
  BY <1>1, <1>2, <1>4, <1>5 DEF StoppingInv
<1>10. QED BY <1>4, <1>6, <1>7, <1>8, <1>9 DEF IInv

LEMMA JoinWorkerInv ==
  ASSUME IInv, NEW t \in Threads, JoinWorker(t)
  PROVE  IInv'
<1> DEFINE g == call[t].group
<1>1. TypeOK /\ PlacesInv /\ CallsInv /\ LocksInv /\ LateInv /\ StoppingInv
  BY DEF IInv
<1>2. /\ UNCHANGED <<mapLock, monitor, registered, running, dpc, late, call>>
      /\ UNCHANGED <<interrupted, restarted, calls>>
      /\ call[t].at = "joinWorker" /\ removed' = removed \ {g}
      /\ life' = [life EXCEPT ![WorkerOf(g)] = "off"]
  BY DEF JoinWorker, locks
<1>3. g \in Groups
  BY <1>1, <1>2 DEF CallsInv, Holds
<1>4. TypeOK'
  BY <1>1, <1>2 DEF TypeOK, Lives
<1>5. PlacesInv' /\ CallsInv' /\ LocksInv' /\ StoppingInv'
  BY <1>1, <1>2 DEF PlacesInv, CallsInv, LocksInv, Holds, InApplication, StoppingInv
<1>6. \A h \in Groups : life'[Producer(h)] = life[Producer(h)]
  BY <1>1, <1>2, <1>3, DaemonsApart DEF TypeOK
<1>7. LateInv'
  BY <1>1, <1>2, <1>6 DEF LateInv, CallsInv, Holds
<1>8. QED BY <1>4, <1>5, <1>7 DEF IInv

LEMMA CleanupInv ==
  ASSUME IInv, NEW t \in Threads, Cleanup(t)
  PROVE  IInv'
<1> DEFINE g == call[t].group
<1> DEFINE p == Producer(g)
<1>1. TypeOK /\ PlacesInv /\ CallsInv /\ LocksInv /\ LateInv /\ StoppingInv
  BY DEF IInv
<1>2. /\ UNCHANGED <<mapLock, monitor, registered, running, removed, dpc>>
      /\ UNCHANGED <<restarted, calls>>
      /\ call[t].at = "joinWorker"
      /\ life' = [life EXCEPT ![p] = Requested(@)]
      /\ late' = IF dpc[p] \in {"count", "wakeup"} THEN late \cup {p} ELSE late
      /\ interrupted' = IF Alive(p) THEN interrupted \cup {p} ELSE interrupted
      /\ Becomes(t, [at |-> "joinProducer", group |-> g, all |-> call[t].all,
                     todo |-> call[t].todo])
  BY DEF Cleanup, locks, groups, Becomes
<1>3. /\ g \in Groups /\ p \in Daemons /\ p \in Threads /\ p \in Producers
      /\ call[t].todo \in SUBSET Groups
  BY <1>1, <1>2, DaemonsApart
     DEF TypeOK, CallsInv, Holds, Records, Threads, Producers
<1>4. /\ call' \in [Threads -> Records]
      /\ call'[t].at = "joinProducer" /\ call'[t].group = g
      /\ call'[t].all = call[t].all /\ call'[t].todo = call[t].todo
      /\ \A u \in Threads \ {t} : call'[u] = call[u]
      /\ CallsInv'
  BY <1>2, <1>3, ThreadGoes
<1>5. /\ late \subseteq late' /\ interrupted \subseteq interrupted'
      /\ late' \in SUBSET Producers /\ interrupted' \in SUBSET Threads
  BY <1>1, <1>2, <1>3 DEF TypeOK
<1>6. life' \in [Daemons -> Lives]
  BY <1>1, <1>2, <1>3 DEF TypeOK, Lives, Requested
<1>7. TypeOK' /\ PlacesInv'
  BY <1>1, <1>2, <1>4, <1>5, <1>6 DEF TypeOK, PlacesInv
<1>8. LocksInv'
  BY <1>1, <1>2, <1>4 DEF LocksInv, Holds
<1>9. \A h \in Groups :
        life'[Producer(h)] = IF h = g THEN Requested(life[p]) ELSE life[Producer(h)]
  BY <1>1, <1>2, <1>3, DaemonsApart DEF TypeOK
<1>10. LateInv'
  <2>1. ASSUME NEW u \in Threads, call'[u].at = "joinProducer"
        PROVE  life'[Producer(call'[u].group)] # "on"
    <3>1. CASE u = t
      BY <1>3, <1>4, <1>9, <3>1 DEF Requested
    <3>2. CASE u # t
      <4>1. call[u].at = "joinProducer" /\ call'[u] = call[u]
        BY <1>4, <2>1, <3>2
      <4>2. call[u].group \in Groups /\ life[Producer(call[u].group)] # "on"
        BY <1>1, <4>1 DEF LateInv, CallsInv, Holds
      <4>3. QED BY <1>9, <4>1, <4>2 DEF Requested
    <3>3. QED BY <3>1, <3>2
  <2>2. ASSUME NEW h \in Groups, life'[Producer(h)] = "stopping"
        PROVE  /\ dpc[Producer(h)] \in {"count", "wakeup"} => Producer(h) \in late'
               /\ dpc[Producer(h)] = "replace" =>
                    Producer(h) \in late' \cup interrupted'
    <3>1. CASE h = g
      <4>1. Alive(p)
        BY <1>9, <2>2, <3>1 DEF Requested, Alive
      <4>2. QED BY <1>2, <3>1, <4>1
    <3>2. CASE h # g
      BY <1>1, <1>5, <1>9, <2>2, <3>2 DEF LateInv
    <3>3. QED BY <3>1, <3>2
  <2>3. QED BY <1>2, <2>1, <2>2 DEF LateInv
<1>11. StoppingInv'
  BY <1>1, <1>2, <1>4, <1>5 DEF StoppingInv
<1>12. QED BY <1>4, <1>7, <1>8, <1>10, <1>11 DEF IInv

(* A thread gives the monitor back.                                        *)
LEMMA ReleaseLocks ==
  ASSUME IInv, NEW t \in Threads, Holds(t), mapLock' = mapLock,
         monitor' = [monitor EXCEPT ![call[t].group] = Nobody],
         call'[t] = Returned(t), \A u \in Threads \ {t} : call'[u] = call[u]
  PROVE  LocksInv'
<1>1. TypeOK /\ CallsInv /\ LocksInv
  BY DEF IInv
<1>2. \A h \in Groups : monitor'[h] = IF h = call[t].group THEN Nobody
                                      ELSE monitor[h]
  BY <1>1 DEF TypeOK
<1>3. \A u \in Threads \ {t} : ~(Holds(u) /\ call[u].group = call[t].group)
  BY <1>1 DEF LocksInv, CallsInv
<1>4. \A h \in Groups : monitor[h] = t => h = call[t].group
  BY <1>1 DEF LocksInv
<1>5. QED BY <1>1, <1>2, <1>3, <1>4, ReturnedRecord, NobodyAssumption
          DEF LocksInv, Holds

LEMMA JoinProducerInv ==
  ASSUME IInv, NEW t \in Threads, JoinProducer(t)
  PROVE  IInv'
<1> DEFINE g == call[t].group
<1>1. TypeOK /\ PlacesInv /\ CallsInv /\ LocksInv /\ LateInv /\ StoppingInv
  BY DEF IInv
<1>2. /\ UNCHANGED <<mapLock, registered, removed, dpc, late, interrupted>>
      /\ UNCHANGED <<restarted, calls>>
      /\ call[t].at = "joinProducer"
      /\ life' = [life EXCEPT ![Producer(g)] = "off"]
      /\ running' = running \ {g}
      /\ monitor' = [monitor EXCEPT ![g] = Nobody]
      /\ Becomes(t, Returned(t))
  BY DEF JoinProducer, Becomes
<1>3. g \in Groups
  BY <1>1, <1>2 DEF CallsInv, Holds
<1>4. /\ call' \in [Threads -> Records]
      /\ call'[t] = Returned(t)
      /\ \A u \in Threads \ {t} : call'[u] = call[u]
      /\ CallsInv'
  BY <1>2, ThreadReturns
<1>5. TypeOK' /\ PlacesInv'
  BY <1>1, <1>2, <1>3, <1>4 DEF TypeOK, PlacesInv, Lives
<1>6. LocksInv'
  BY <1>2, <1>4, ReleaseLocks DEF Holds
<1>7. \A h \in Groups : life'[Producer(h)] \in {life[Producer(h)], "off"}
  BY <1>1, <1>2, DaemonsApart DEF TypeOK
<1>8. LateInv'
  <2>1. ASSUME NEW u \in Threads, call'[u].at = "joinProducer"
        PROVE  life'[Producer(call'[u].group)] # "on"
    <3>1. u # t /\ call'[u] = call[u]
      BY <1>4, <2>1, ReturnedRecord
    <3>2. QED BY <1>1, <1>7, <2>1, <3>1 DEF LateInv, CallsInv, Holds
  <2>2. QED BY <1>1, <1>2, <1>7, <2>1 DEF LateInv
<1>9. StoppingInv'
  BY <1>1, <1>2, <1>4, ReturnedRecord DEF StoppingInv, LocksInv
<1>10. QED BY <1>4, <1>5, <1>6, <1>8, <1>9 DEF IInv

LEMMA JoinInterruptedInv ==
  ASSUME IInv, NEW t \in Threads, JoinInterrupted(t)
  PROVE  IInv'
<1> DEFINE g == call[t].group
<1>1. TypeOK /\ PlacesInv /\ CallsInv /\ LocksInv /\ LateInv /\ StoppingInv
  BY DEF IInv
<1>2. /\ UNCHANGED <<mapLock, registered, running, life, dpc, restarted, calls>>
      /\ t \in interrupted /\ Holds(t)
      /\ removed' = removed \ {g}
      /\ monitor' = [monitor EXCEPT ![g] = Nobody]
      /\ Becomes(t, Returned(t))
      /\ IF call[t].all THEN UNCHANGED <<interrupted, late>>
         ELSE /\ interrupted' = interrupted \ {t}
              /\ late' = late \cup ({t} \cap Producers)
  BY DEF JoinInterrupted, Throws, FlagTaken, Joining, Holds, Becomes
<1>3. /\ call' \in [Threads -> Records]
      /\ call'[t] = Returned(t)
      /\ \A u \in Threads \ {t} : call'[u] = call[u]
      /\ CallsInv'
  BY <1>2, ThreadReturns DEF Holds
<1>4. /\ late \subseteq late' /\ interrupted \ {t} \subseteq interrupted'
      /\ late' \in SUBSET Producers /\ interrupted' \in SUBSET Threads
      /\ t \in Producers => t \in late' \cup interrupted'
      /\ call[t].all => t \in interrupted'
  BY <1>1, <1>2 DEF TypeOK
<1>5. TypeOK' /\ PlacesInv'
  BY <1>1, <1>2, <1>3, <1>4 DEF TypeOK, PlacesInv
<1>6. LocksInv'
  BY <1>2, <1>3, ReleaseLocks
<1>7. LateInv'
  <2>1. \A u \in Threads : call'[u].at = "joinProducer" => call'[u] = call[u]
    BY <1>3, ReturnedRecord
  <2>2. \A h \in Groups : Producer(h) \in Producers
    BY DEF Producers
  <2>3. QED BY <1>1, <1>2, <1>4, <2>1, <2>2 DEF LateInv
<1>8. StoppingInv'
  BY <1>1, <1>2, <1>3, <1>4, ReturnedRecord DEF StoppingInv, LocksInv
<1>9. QED BY <1>3, <1>5, <1>6, <1>7, <1>8 DEF IInv

-----------------------------------------------------------------------------
LEMMA NextInv == IInv /\ [Next]_vars => IInv'
<1>1. SUFFICES ASSUME IInv, [Next]_vars PROVE IInv' OBVIOUS
<1>2. CASE UNCHANGED vars
  BY <1>1, <1>2
     DEF vars, locks, groups, daemons, IInv, TypeOK, PlacesInv, CallsInv,
         InApplication, LocksInv, Holds, LateInv, StoppingInv
<1>3. ASSUME NEW t \in Threads, Begins(t) PROVE IInv'
  BY <1>1, <1>3, CallInv DEF Begins
<1>4. ASSUME NEW t \in Threads, CallStep(t) PROVE IInv'
  BY <1>1, <1>4, ShortCallInv, ShutdownAllInv, NextGroupInv, ShutdownAllEndInv,
     EnterStoppedInv, EnterInv, JoinWorkerInv, CleanupInv, JoinProducerInv,
     JoinInterruptedInv
     DEF CallStep
<1>5. ASSUME NEW t \in Threads, Runs(t) PROVE IInv'
  BY <1>1, <1>4, <1>5, WorkInv, TaskInv, StopInv DEF Runs
<1>6. QED BY <1>1, <1>2, <1>3, <1>5, InterruptInv, TakeInterruptInv DEF Next

(* The variables keep their types, and the locks belong to the threads     *)
(* that are in the calls which take them.                                  *)
THEOREM InvariantCorrect == Spec => []IInv
<1>1. QED BY InitInv, NextInv, PTL DEF Spec

(* When shutdownAll() returns, every group has been stopped that was not   *)
(* started again in the meantime, unless the thread was interrupted: only  *)
(* the end of the call gives the map back, with no group left to do.       *)
THEOREM AllStoppedCorrect == Spec => AllStopped
<1>1. ASSUME IInv, [Next]_vars, NEW t \in Threads, mapLock = t, mapLock' # t
      PROVE  registered \cap running \subseteq restarted \/ t \in interrupted
  <2>1. CallsInv /\ LocksInv /\ StoppingInv
    BY <1>1 DEF IInv
  <2>2. \E u \in Threads : ShutdownAll(u) \/ ShutdownAllEnd(u)
    <3>1. CASE UNCHANGED vars
      BY <1>1, <3>1 DEF vars, locks
    <3>2. ASSUME NEW u \in Threads, Begins(u) PROVE FALSE
      BY <1>1, <3>2 DEF Begins, CallManager, CallGroup, Call, locks
    <3>3. ASSUME NEW u \in Threads, CallStep(u)
          PROVE  ShutdownAll(u) \/ ShutdownAllEnd(u)
      BY <1>1, <3>3
         DEF CallStep, GetDaemonGroup, AddDaemonGroup, NextGroup, ShortCall,
             Startup, CountUp, CountDown, EnterStopped, Enter, JoinWorker,
             Cleanup, JoinProducer, JoinInterrupted, Throws, locks
    <3>4. ASSUME NEW g \in Groups, Work(g) \/ RunTask(g) \/ EndTasks(g) PROVE FALSE
      BY <1>1, <3>4
         DEF Work, Produce, GetCount, ReplaceNothing, CheckInterrupted, Wakeup,
             RunTask, EndTasks, Goes, Leave, DaemonStep, locks
    <3>5. ASSUME NEW d \in Daemons, Stop(d) \/ TakeInterrupt(d) PROVE FALSE
      BY <1>1, <3>5 DEF Stop, TakeInterrupt, locks
    <3>6. ASSUME NEW c \in Clients, Interrupt(c) PROVE FALSE
      BY <1>1, <3>6 DEF Interrupt, locks
    <3>7. QED BY <1>1, <3>1, <3>2, <3>3, <3>4, <3>5, <3>6 DEF Next, Runs
  <2>3. PICK u \in Threads : ShutdownAllEnd(u)
    BY <1>1, <2>2, NobodyAssumption DEF ShutdownAll, HasMap
  <2>4. call[u].at = "next" /\ call[u].todo = {}
    BY <2>3 DEF ShutdownAllEnd
  <2>5. u = t
    BY <1>1, <2>1, <2>4 DEF CallsInv, LocksInv
  <2>6. QED BY <1>1, <2>1, <2>4, <2>5 DEF StoppingInv
<1>2. IInv /\ [Next]_vars =>
        [\A t \in Threads :
           mapLock = t /\ mapLock' # t =>
             registered \cap running \subseteq restarted \/ t \in interrupted]_vars
  BY <1>1
<1>3. QED BY <1>2, InvariantCorrect, PTL DEF Spec, AllStopped

-----------------------------------------------------------------------------
(* Who waits for whom.                                                     *)

(* The thread that has the lock a thread asks for has the map, or shuts    *)
(* the group down.  It is another thread.                                  *)
LEMMA OwnerHolds ==
  ASSUME IInv, NEW t \in Threads, Wanted(t) # Nobody
  PROVE  /\ Wanted(t) \in Threads \ {t}
         /\ Joining(t) = {}
         /\ \/ call[t].at = "map" /\ Wanted(t) = mapLock
            \/ \E g \in Groups :
                 /\ Wanted(t) = monitor[g] /\ Holds(monitor[g])
                 /\ \/ call[t].at = "enter" /\ call[t].group = g
                    \/ t = Producer(g) /\ dpc[t] \in {"count", "wakeup"}
                       /\ call[t].at = "none"
<1>1. TypeOK /\ PlacesInv /\ CallsInv /\ LocksInv
  BY DEF IInv
<1>2. ASSUME NEW g \in Groups, Wanted(t) = monitor[g], ~Holds(t)
      PROVE  Wanted(t) \in Threads \ {t} /\ Holds(monitor[g])
  <2>1. monitor[g] \in Threads
    BY <1>1, <1>2 DEF TypeOK
  <2>2. QED BY <1>1, <1>2, <2>1 DEF LocksInv
<1>3. ~Holds(t) => Joining(t) = {}
  BY DEF Holds, Joining
<1>4. CASE call[t].at = "enter"
  <2>1. call[t].group \in Groups /\ ~Holds(t) /\ InApplication(t)
    BY <1>1, <1>4 DEF CallsInv, Holds
  <2>2. Wanted(t) = monitor[call[t].group]
    BY <1>4, <2>1 DEF Wanted, InApplication
  <2>3. QED BY <1>2, <1>3, <1>4, <2>1, <2>2
<1>5. CASE call[t].at = "map"
  <2>1. ~Holds(t) /\ ~call[t].all /\ InApplication(t)
    BY <1>1, <1>5 DEF CallsInv, Holds
  <2>2. Wanted(t) = mapLock
    BY <1>5, <2>1 DEF Wanted, InApplication
  <2>3. mapLock \in Threads
    BY <1>1, <2>2 DEF TypeOK
  <2>4. QED BY <1>1, <1>3, <1>5, <2>1, <2>2, <2>3 DEF LocksInv
<1>6. CASE call[t].at \notin {"enter", "map"}
  <2>1. t \in Daemons /\ dpc[t] \in {"count", "wakeup"} /\ Wanted(t) = monitor[t[1]]
    BY <1>6 DEF Wanted
  <2>2. PICK g \in Groups : t = Producer(g) \/ t = WorkerOf(g)
    BY <2>1, DaemonsApart
  <2>3. t = Producer(g) /\ t[1] = g
    BY <1>1, <2>1, <2>2, DaemonsApart DEF PlacesInv
  <2>4. call[t].at = "none" /\ ~Holds(t)
    BY <1>1, <2>1 DEF CallsInv, InApplication, Holds
  <2>5. QED BY <1>2, <1>3, <2>1, <2>3, <2>4
<1>7. QED BY <1>4, <1>5, <1>6

(* A thread in a join waits for a daemon of the group it has locked, and   *)
(* for nothing else; a producer then has been asked to stop.               *)
LEMMA JoinerWaits ==
  ASSUME IInv, NEW t \in Threads, WaitsFor(t) # {}, Holds(t)
  PROVE  LET g == call[t].group IN
           /\ g \in Groups /\ monitor[g] = t
           /\ WaitsFor(t) = Joining(t)
           /\ \/ Joining(t) = {WorkerOf(g)}
              \/ Joining(t) = {Producer(g)} /\ life[Producer(g)] = "stopping"
<1> DEFINE g == call[t].group
<1>1. TypeOK /\ CallsInv /\ LocksInv /\ LateInv
  BY DEF IInv
<1>2. Wanted(t) = Nobody
  BY OwnerHolds DEF Holds
<1>3. WaitsFor(t) = Joining(t)
  BY <1>2 DEF WaitsFor
<1>4. g \in Groups /\ monitor[g] = t
  BY <1>1 DEF CallsInv, LocksInv
<1>5. CASE call[t].at = "joinWorker"
  <2>1. Joining(t) = {WorkerOf(g)}
    BY <1>3, <1>5 DEF Joining
  <2>2. QED BY <1>3, <1>4, <2>1
<1>6. CASE call[t].at = "joinProducer"
  <2>1. Joining(t) = {Producer(g)} /\ Alive(Producer(g))
    BY <1>3, <1>6 DEF Joining
  <2>2. life[Producer(g)] = "stopping"
    BY <1>1, <1>6, <2>1 DEF Alive, LateInv
  <2>3. QED BY <1>3, <1>4, <2>1, <2>2
<1>7. QED BY <1>5, <1>6 DEF Holds

-----------------------------------------------------------------------------
(* Circles.                                                                *)

LEMMA InCircle ==
  ASSUME NEW S \in Deadlocks, NEW t \in S
  PROVE  /\ S \in SUBSET Threads /\ t \in Threads
         /\ WaitsFor(t) # {} /\ WaitsFor(t) \subseteq S
         /\ \E u \in S : t \in WaitsFor(u)
<1>1. S \in SUBSET Waiting /\ UNION {WaitsFor(u) : u \in S} = S
  BY DEF Deadlocks, Circle
<1>2. t \in Threads /\ WaitsFor(t) # {} /\ S \in SUBSET Threads
  BY <1>1 DEF Waiting
<1>3. QED BY <1>1, <1>2

(* A circle has no circle in it.                                           *)
LEMMA WholeCircle ==
  ASSUME NEW S \in Deadlocks, NEW R, R \subseteq S, R # {},
         \A x : x \in R <=> \E t \in R : x \in WaitsFor(t)
  PROVE  S = R
<1>1. UNION {WaitsFor(t) : t \in R} = R
  OBVIOUS
<1>2. QED BY <1>1 DEF Deadlocks, Circle

LEMMA CircleOfTwo ==
  ASSUME NEW S \in Deadlocks, NEW t \in S, NEW u \in S,
         WaitsFor(t) = {u}, WaitsFor(u) = {t}
  PROVE  S = {t, u}
<1> DEFINE R == {t, u}
<1>1. R \subseteq S /\ R # {} /\ \A x : x \in R <=> \E v \in R : x \in WaitsFor(v)
  OBVIOUS
<1> HIDE DEF R
<1>2. S = R
  BY <1>1, WholeCircle
<1>3. QED BY <1>2 DEF R

LEMMA CircleOfThree ==
  ASSUME NEW S \in Deadlocks, NEW t \in S, NEW u \in S, NEW v \in S,
         WaitsFor(t) = {u}, WaitsFor(u) = {v}, WaitsFor(v) = {t}
  PROVE  S = {t, u, v}
<1> DEFINE R == {t, u, v}
<1>1. R \subseteq S /\ R # {} /\ \A x : x \in R <=> \E w \in R : x \in WaitsFor(w)
  OBVIOUS
<1> HIDE DEF R
<1>2. S = R
  BY <1>1, WholeCircle
<1>3. QED BY <1>2 DEF R

(* Each thread in a circle has the map, or shuts a group down, or is a     *)
(* daemon that one in it waits for.                                        *)
LEMMA WaitedFor ==
  ASSUME IInv, NEW S \in Deadlocks, NEW t \in S
  PROVE  mapLock = t \/ Joining(t) # {} \/ \E u \in S : t \in Joining(u)
<1>1. PICK u \in S : t \in WaitsFor(u)
  BY InCircle
<1>2. t \in Threads /\ u \in Threads /\ WaitsFor(t) # {}
  BY InCircle
<1>3. CASE t = Wanted(u) /\ t # Nobody
  <2>1. mapLock = t \/ Holds(t)
    BY <1>2, <1>3, OwnerHolds
  <2>2. Holds(t) => Joining(t) # {}
    BY <1>2, JoinerWaits
  <2>3. QED BY <2>1, <2>2
<1>4. CASE t \in Joining(u)
  BY <1>4
<1>5. QED BY <1>1, <1>3, <1>4 DEF WaitsFor

(* Somebody in a circle is in a join: whoever has the map and wants a lock *)
(* wants another, and only one thread has the map.                         *)
LEMMA CircleHasJoiner ==
  ASSUME IInv, NEW S \in Deadlocks
  PROVE  \E t \in S : Joining(t) # {}
<1>1. SUFFICES ASSUME \A t \in S : Joining(t) = {} PROVE FALSE
  OBVIOUS
<1>2. \A t \in S : mapLock = t
  BY <1>1, WaitedFor
<1>3. PICK t \in S : TRUE
  BY DEF Deadlocks, Circle
<1>4. PICK u \in WaitsFor(t) : u \in S /\ t \in Threads
  BY InCircle
<1>5. u = Wanted(t) /\ u # Nobody
  BY <1>1, <1>4 DEF WaitsFor
<1>6. u # t
  BY <1>4, <1>5, OwnerHolds
<1>7. QED BY <1>2, <1>4, <1>6

(* The daemon a modest circle's joiner waits for, and what that waits for. *)
LEMMA ModestJoiner ==
  ASSUME IInv, NEW S \in Deadlocks, \A d \in S \cap Daemons : Modest(d),
         NEW y \in S, Joining(y) # {}
  PROVE  /\ y \in Clients
         /\ \E d \in S \cap Daemons :
              /\ WaitsFor(y) = {d} /\ monitor[d[1]] = y
              /\ WaitsFor(d) = {y} \/ WaitsFor(d) = {mapLock}
<1> DEFINE g == call[y].group
<1>1. y \in Threads /\ WaitsFor(y) # {} /\ WaitsFor(y) \subseteq S
  BY InCircle
<1>2. y \in Clients
  BY <1>1 DEF Modest, Threads
<1>3. Holds(y)
  BY DEF Joining, Holds
<1>4. PICK d \in {WorkerOf(g), Producer(g)} :
        g \in Groups /\ monitor[g] = y /\ WaitsFor(y) = {d}
  BY <1>1, <1>3, JoinerWaits
<1>5. d \in S \cap Daemons /\ d[1] = g /\ d \in Threads /\ Modest(d)
  BY <1>1, <1>4, DaemonsApart DEF Threads
<1>6. WaitsFor(d) # {} /\ WaitsFor(d) = {Wanted(d)} /\ Wanted(d) # Nobody
  <2>1. WaitsFor(d) # {}
    BY <1>5, InCircle
  <2>2. Joining(d) = {}
    BY <1>5 DEF Modest
  <2>3. QED BY <2>1, <2>2 DEF WaitsFor
<1>7. \/ Wanted(d) = mapLock
      \/ \E h \in Groups : /\ Wanted(d) = monitor[h]
                           /\ \/ call[d].at = "enter" /\ call[d].group = h
                              \/ d = Producer(h)
  BY <1>5, <1>6, OwnerHolds
<1>8. ASSUME NEW h \in Groups, Wanted(d) = monitor[h],
             \/ call[d].at = "enter" /\ call[d].group = h
             \/ d = Producer(h)
      PROVE  h = g
  BY <1>5, <1>8, DaemonsApart DEF Modest
<1>9. QED BY <1>2, <1>4, <1>5, <1>6, <1>7, <1>8

(* What a circle is when no daemon in it shuts a group down or asks for    *)
(* another.                                                                *)
LEMMA ModestShape ==
  ASSUME IInv, NEW S \in Deadlocks, \A d \in S \cap Daemons : Modest(d)
  PROVE  \E c \in S \cap Clients, d \in S \cap Daemons :
           /\ monitor[d[1]] = c
           /\ S = {c, d} \/ \E e \in S : mapLock = e /\ S = {c, d, e}
<1>1. ASSUME NEW y \in S, NEW d \in S \cap Daemons, WaitsFor(y) = {d},
             WaitsFor(d) = {y}
      PROVE  S = {y, d}
  BY <1>1, CircleOfTwo
<1>2. PICK c \in S : Joining(c) # {}
  BY CircleHasJoiner
<1>3. PICK d \in S \cap Daemons :
        /\ c \in Clients /\ WaitsFor(c) = {d} /\ monitor[d[1]] = c
        /\ WaitsFor(d) = {c} \/ WaitsFor(d) = {mapLock}
  BY <1>2, ModestJoiner
<1>4. CASE WaitsFor(d) = {c}
  <2>1. S = {c, d}
    BY <1>1, <1>3, <1>4
  <2>2. QED BY <1>3, <2>1
<1>5. CASE WaitsFor(d) # {c}
  <2> DEFINE e == mapLock
  <2>1. WaitsFor(d) = {e} /\ e \in S /\ e # c
    BY <1>3, <1>5, InCircle
  <2>2. e \in Clients
    BY <2>1, InCircle DEF Modest, Threads
  <2>3. Joining(e) = {}
    <3>1. SUFFICES ASSUME Joining(e) # {} PROVE FALSE
      OBVIOUS
    <3>2. PICK f \in S \cap Daemons : WaitsFor(e) = {f} /\ WaitsFor(f) = {e}
      BY <2>1, <3>1, ModestJoiner
    <3>3. S = {e, f}
      BY <1>1, <2>1, <3>2
    <3>4. c = f
      BY <1>2, <2>1, <3>3
    <3>5. QED BY <1>3, <3>2, <3>4, ThreadsAssumption
  <2>4. PICK z \in S : WaitsFor(e) = {z} /\ z = Wanted(e) /\ z # Nobody
    BY <2>1, <2>3, InCircle DEF WaitsFor
  <2>5. e # z /\ (mapLock = z \/ Holds(z)) /\ z \in Threads
    BY <2>2, <2>4, OwnerHolds DEF Threads
  <2>6. Joining(z) # {}
    BY <2>4, <2>5, InCircle, JoinerWaits
  <2>7. PICK f \in S \cap Daemons :
          /\ z \in Clients /\ WaitsFor(z) = {f} /\ monitor[f[1]] = z
          /\ WaitsFor(f) = {z} \/ WaitsFor(f) = {e}
    BY <2>6, ModestJoiner
  <2>8. WaitsFor(f) = {e}
    <3>1. SUFFICES ASSUME WaitsFor(f) = {z} PROVE FALSE
      BY <2>7
    <3>2. S = {z, f}
      BY <1>1, <2>7, <3>1
    <3>3. e = f
      BY <2>1, <2>5, <3>2
    <3>4. QED BY <2>2, <2>7, <3>3, ThreadsAssumption
  <2>9. S = {e, z, f}
    BY <2>1, <2>4, <2>7, <2>8, CircleOfThree
  <2>10. S = {z, f, e}
    BY <2>9
  <2>11. QED BY <2>1, <2>7, <2>10
<1>6. QED BY <1>4, <1>5

(* Every circle of waiting threads, for any number of clients and groups   *)
(* and whatever the application calls in its daemons: somebody in it shuts *)
(* a group down; nobody is in it but those, the owner of the map and the   *)
(* daemons they wait for; a producer in its own work() is there only if it *)
(* was late; and with modest daemons two or three threads are all.         *)
THEOREM DeadlockShapeCorrect == Spec => []DeadlockShape
<1>1. ASSUME IInv, NEW S \in Deadlocks, NEW g \in Groups, Producer(g) \in S,
             dpc[Producer(g)] \in {"count", "wakeup"}
      PROVE  Producer(g) \in late
  <2> DEFINE p == Producer(g)
  <2>1. TypeOK /\ CallsInv /\ LocksInv /\ LateInv
    BY <1>1 DEF IInv
  <2>2. p \in Daemons /\ p \in Threads
    BY DaemonsApart DEF Threads
  <2>3. call[p].at = "none" /\ mapLock # p /\ Joining(p) = {}
    BY <1>1, <2>1, <2>2 DEF CallsInv, InApplication, LocksInv, Joining
  <2>4. PICK u \in S : p \in Joining(u)
    BY <1>1, <2>3, WaitedFor
  <2>5. u \in Threads /\ WaitsFor(u) # {} /\ Holds(u)
    BY <1>1, <2>4, InCircle DEF Joining, Holds
  <2>6. life[p] = "stopping"
    BY <1>1, <2>4, <2>5, JoinerWaits, DaemonsApart
  <2>7. QED BY <1>1, <2>1, <2>6 DEF LateInv
<1>2. IInv => DeadlockShape
  BY <1>1, CircleHasJoiner, WaitedFor, ModestShape DEF DeadlockShape
<1>3. QED BY <1>2, InvariantCorrect, PTL
=============================================================================
