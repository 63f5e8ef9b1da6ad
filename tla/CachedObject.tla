---------------------------- MODULE CachedObject ----------------------------
(***************************************************************************)
(* CachedObject: a value that open() computes for whichever caller comes   *)
(* first, for the others to wait for.  The field cached is read without a  *)
(* lock, and tested and read again under one; clear() takes no lock and    *)
(* empties it at any time, also between that test and that read.  cancel() *)
(* is called by nobody, so get() never goes round its loop.                *)
(***************************************************************************)
CONSTANTS
  Getters,    \* threads that call get()
  Futures,    \* names for FutureTasks; one nobody refers to is used again
  NoFuture

ASSUME FutureAssumption == NoFuture \notin Futures

VARIABLES
  cached,     \* the field
  outcome,    \* of each task: "pending", "done" or "failed"
  caller,     \* where each call of get() is, and the task it works on
  thrown      \* history: what clear() has thrown away since the call began

cachedVars == <<cached, outcome, caller, thrown>>

(* "check": the field was empty; "read": under the lock it was not; "open": *)
(* about to run the task; "wait": in future.get().  future is the task the *)
(* call has made for itself until it takes the one in the field.           *)
Calling(c) == caller[c].at # "away"
Working(c) == caller[c].at \in {"open", "wait"}

Away == [at |-> "away", future |-> NoFuture]

CachedTypeOK ==
  /\ cached \in Futures \cup {NoFuture}
  /\ outcome \in [Futures -> {"pending", "done", "failed"}]
  /\ caller \in [Getters -> [at : {"away", "check", "read", "open", "wait"},
                             future : Futures \cup {NoFuture}]]
  /\ thrown \in [Getters -> SUBSET Futures]

CachedInit ==
  /\ cached = NoFuture
  /\ outcome = [f \in Futures |-> "pending"]
  /\ caller = [c \in Getters |-> Away]
  /\ thrown = [c \in Getters |-> {}]

(* Nobody refers to the task.                                              *)
Abandoned(f) ==
  /\ f # cached
  /\ \A c \in Getters : caller[c].future # f /\ f \notin thrown[c]

Moves(c, at, f) ==
  caller' = [caller EXCEPT ![c] = [at |-> at, future |-> f]]

(* Future<V> future = cached: the task that is there, or a new one, which  *)
(* is not there yet.                                                       *)
Get(c) ==
  /\ ~Calling(c)
  /\ \/ /\ cached # NoFuture
        /\ Moves(c, "wait", cached)
        /\ UNCHANGED outcome
     \/ /\ cached = NoFuture
        /\ \E f \in Futures :
             /\ Abandoned(f)
             /\ Moves(c, "check", f)
             /\ outcome' = [outcome EXCEPT ![f] = "pending"]
  /\ UNCHANGED <<cached, thrown>>

(* The monitor of the object: a call is between the two accesses.          *)
Locked == \E c \in Getters : caller[c].at = "read"

Put(c) ==
  /\ cached' = caller[c].future
  /\ Moves(c, "open", caller[c].future)

(* Faulty: the field is not tested again.                                  *)
CheckNot(c) ==
  /\ caller[c].at = "check" /\ ~Locked
  /\ Put(c)
  /\ UNCHANGED <<outcome, thrown>>

(* The test of the synchronized block: its task is put into the field,     *)
(* unless somebody has been faster.                                        *)
Check(c) ==
  /\ caller[c].at = "check" /\ ~Locked
  /\ IF cached = NoFuture
     THEN Put(c)
     ELSE Moves(c, "read", caller[c].future) /\ UNCHANGED cached
  /\ UNCHANGED <<outcome, thrown>>

(* future = cached, and the end of the block.  clear() takes no lock: when *)
(* it has emptied the field since the test, future is null still, and the  *)
(* call runs its own task, which is in no field.                           *)
Read(c) ==
  /\ caller[c].at = "read"
  /\ IF cached = NoFuture
     THEN Moves(c, "open", caller[c].future)
     ELSE Moves(c, "wait", cached)
  /\ UNCHANGED <<cached, outcome, thrown>>

(* futureTask.run(): open() returns or throws.                             *)
Open(c) ==
  /\ caller[c].at = "open"
  /\ \E o \in {"done", "failed"} :
       outcome' = [outcome EXCEPT ![caller[c].future] = o]
  /\ Moves(c, "wait", caller[c].future)
  /\ UNCHANGED <<cached, thrown>>

(* The call ends with the value or what open() threw; one that waits for   *)
(* another caller may be interrupted.                                      *)
GetEnds(c) ==
  /\ caller[c].at = "wait"
  /\ caller' = [caller EXCEPT ![c] = Away]
  /\ thrown' = [thrown EXCEPT ![c] = {}]
  /\ UNCHANGED <<cached, outcome>>

Return(c) ==
  /\ caller[c].at = "wait" /\ outcome[caller[c].future] # "pending"
  /\ GetEnds(c)

Interrupt(c) ==
  /\ caller[c].at = "wait" /\ outcome[caller[c].future] = "pending"
  /\ GetEnds(c)

(* clear()                                                                 *)
Clear ==
  /\ cached # NoFuture
  /\ cached' = NoFuture
  /\ thrown' = [c \in Getters |->
       IF Calling(c) THEN thrown[c] \cup {cached} ELSE thrown[c]]
  /\ UNCHANGED <<outcome, caller>>

CachedNext ==
  \/ \E c \in Getters :
       \/ Get(c) \/ Check(c) \/ Read(c) \/ Open(c)
       \/ Return(c) \/ Interrupt(c)
  \/ Clear

CachedSpec == CachedInit /\ [][CachedNext]_cachedVars

-----------------------------------------------------------------------------
(* The task of the call is in no field, and no other call has it.          *)
Alone(c) ==
  /\ caller[c].future # cached
  /\ \A d \in Getters \ {c} : caller[d].future # caller[c].future

(* A call works on the task the field holds, or on one that clear() has    *)
(* thrown away since the call began, or, when clear() has come between its *)
(* two accesses under the lock, on a task of its own that no other call    *)
(* waits for: no caller gets a value older than the last clear() it could  *)
(* know of, and open() is run by two callers at once only where clear()    *)
(* came in between.                                                        *)
WorksOnTheCached ==
  \A c \in Getters : Working(c) =>
    \/ caller[c].future \in {cached} \cup thrown[c]
    \/ thrown[c] # {} /\ Alone(c)
=============================================================================
