----------------------------- MODULE RshService -----------------------------
(* RshService: one thread accepts connections and hands them to a pool of  *)
(* threads, each of which holds one conversation (RshShell) at a time.     *)
(* The pool is java.util.concurrent's: it starts threads up to MinThread,  *)
(* then queues up to QueueSize connections, then starts threads up to      *)
(* MaxThread, then rejects.  minThread, maxThread and waitingQueueSize are *)
(* read from a property file and may differ.                               *)
EXTENDS Naturals, Sequences, FiniteSets

CONSTANTS Connections, MinThread, MaxThread, QueueSize

ASSUME ServiceAssumption ==
  /\ MinThread \in Nat \ {0} /\ MaxThread \in Nat /\ QueueSize \in Nat \ {0}
  /\ MinThread <= MaxThread

VARIABLES
  open,     \* the server socket is not closed
  acceptor, \* the thread that accepts: "accept", "accepted" (it has a
            \* connection in its hands), "closing", "ended", "died"
  backlog,  \* connections made and not accepted yet, oldest first
  state,    \* where each connection is: "new", "backlog", "accepted",
            \* "queued", "running", "closed", or "leaked": never closed
  queue,    \* executor: connections that wait for a thread
  threads,  \* executor: how many threads there are
  down,     \* executor.shutdown() has been called
  stop      \* where stop() is: "no", "closed" (the socket), "returned"

service == <<open, acceptor, stop>>
pool == <<queue, threads, down>>
serviceVars == <<open, acceptor, backlog, state, queue, threads, down, stop>>

In(s) == {c \in Connections : state[c] = s}
Busy == Cardinality(In("running"))

(* prestartCoreThread() starts one thread.                                 *)
ServiceInit ==
  /\ open = TRUE /\ acceptor = "accept" /\ stop = "no"
  /\ backlog = <<>> /\ state = [c \in Connections |-> "new"]
  /\ queue = <<>> /\ threads = 1 /\ down = FALSE

-----------------------------------------------------------------------------
(* A client; the system takes connections as long as the socket is open.   *)
Connect(c) ==
  /\ open /\ state[c] = "new"
  /\ backlog' = Append(backlog, c)
  /\ state' = [state EXCEPT ![c] = "backlog"]
  /\ UNCHANGED <<service, pool>>

(* ServerSocket.close() resets the connections nobody has accepted.        *)
CloseServerSocket ==
  /\ open' = FALSE
  /\ backlog' = <<>>
  /\ state' = [c \in Connections |->
                 IF state[c] = "backlog" THEN "closed" ELSE state[c]]

Accept ==
  /\ acceptor = "accept" /\ open /\ backlog # <<>>
  /\ acceptor' = "accepted"
  /\ backlog' = Tail(backlog)
  /\ state' = [state EXCEPT ![Head(backlog)] = "accepted"]
  /\ UNCHANGED <<open, stop, pool>>

(* accept() throws an IOException: the loop ends.  A SocketException is    *)
(* passed over.                                                            *)
AcceptFails ==
  /\ acceptor = "accept" /\ open
  /\ acceptor' = "closing"
  /\ UNCHANGED <<open, stop, backlog, state, pool>>

(* The socket is found closed.                                             *)
AcceptEnds ==
  /\ acceptor = "accept" /\ ~open
  /\ acceptor' = "closing"
  /\ UNCHANGED <<open, stop, backlog, state, pool>>

(* checkRemoteAddr() says no.                                              *)
Refuse(c) ==
  /\ acceptor = "accepted" /\ state[c] = "accepted"
  /\ acceptor' = "accept"
  /\ state' = [state EXCEPT ![c] = "closed"]
  /\ UNCHANGED <<open, stop, backlog, pool>>

(* The constructor of RshShell throws a SocketException, which the loop    *)
(* ignores, or another IOException, which ends it.  Nobody closes the      *)
(* socket.                                                                 *)
ConstructorFails(c) ==
  /\ acceptor = "accepted" /\ state[c] = "accepted"
  /\ acceptor' \in {"accept", "closing"}
  /\ state' = [state EXCEPT ![c] = "leaked"]
  /\ UNCHANGED <<open, stop, backlog, pool>>

(* checkRemoteAddr() throws, or no thread can be made: the thread dies and *)
(* the server socket stays open.                                           *)
AcceptorDies(c) ==
  /\ acceptor = "accepted" /\ state[c] = "accepted"
  /\ acceptor' = "died"
  /\ state' = [state EXCEPT ![c] = "leaked"]
  /\ UNCHANGED <<open, stop, backlog, pool>>

(* executor.execute().                                                     *)
Full == Len(queue) = QueueSize

ExecuteInThread(c) ==
  /\ acceptor = "accepted" /\ state[c] = "accepted"
  /\ ~down
  /\ threads < MinThread \/ (Full /\ threads < MaxThread)
  /\ acceptor' = "accept"
  /\ threads' = threads + 1
  /\ state' = [state EXCEPT ![c] = "running"]
  /\ UNCHANGED <<open, stop, backlog, queue, down>>

ExecuteLater(c) ==
  /\ acceptor = "accepted" /\ state[c] = "accepted"
  /\ ~down /\ threads >= MinThread /\ ~Full
  /\ acceptor' = "accept"
  /\ queue' = Append(queue, c)
  /\ state' = [state EXCEPT ![c] = "queued"]
  /\ UNCHANGED <<open, stop, backlog, threads, down>>

Rejected == down \/ (Full /\ threads = MaxThread)

(* Faulty: rejectedExecution() forgets close().                            *)
RejectOpen(c) ==
  /\ acceptor = "accepted" /\ state[c] = "accepted"
  /\ Rejected
  /\ acceptor' = "accept"
  /\ state' = [state EXCEPT ![c] = "refused"]
  /\ UNCHANGED <<open, stop, backlog, pool>>

(* rejectedExecution() sends a 503 and closes.                             *)
Reject(c) ==
  /\ acceptor = "accepted" /\ state[c] = "accepted"
  /\ Rejected
  /\ acceptor' = "accept"
  /\ state' = [state EXCEPT ![c] = "closed"]
  /\ UNCHANGED <<open, stop, backlog, pool>>

(* The end of run().                                                       *)
End ==
  /\ acceptor = "closing"
  /\ CloseServerSocket
  /\ acceptor' = "ended"
  /\ UNCHANGED <<stop, pool>>

-----------------------------------------------------------------------------
(* A thread of the pool.                                                   *)
Take ==
  /\ Busy < threads /\ queue # <<>>
  /\ queue' = Tail(queue)
  /\ state' = [state EXCEPT ![Head(queue)] = "running"]
  /\ UNCHANGED <<service, backlog, threads, down>>

(* The end of a conversation, which closes the socket whatever ends it:    *)
(* the client, an error, or soTimeout.                                     *)
EndShell(c) ==
  /\ state[c] = "running"
  /\ state' = [state EXCEPT ![c] = "closed"]
  /\ UNCHANGED <<service, backlog, pool>>

(* An idle thread ends after threadKeepAliveTime if there are more than    *)
(* MinThread, or after shutdown().                                         *)
IdleThreadEnds ==
  /\ Busy < threads /\ queue = <<>>
  /\ threads > MinThread \/ down
  /\ threads' = threads - 1
  /\ UNCHANGED <<service, backlog, state, queue, down>>

-----------------------------------------------------------------------------
(* stop() closes the server socket and shuts down the executor, which ends *)
(* what is running and queued first.                                       *)
Stop ==
  /\ stop = "no"
  /\ CloseServerSocket
  /\ stop' = "closed"
  /\ UNCHANGED <<acceptor, pool>>

StopExecutor ==
  /\ stop = "closed"
  /\ down' = TRUE
  /\ stop' = "returned"
  /\ UNCHANGED <<open, acceptor, backlog, state, queue, threads>>

AcceptThread ==
  \/ Accept \/ AcceptEnds \/ End
  \/ \E c \in Connections :
       \/ Refuse(c) \/ ConstructorFails(c) \/ AcceptorDies(c)
       \/ ExecuteInThread(c) \/ ExecuteLater(c) \/ Reject(c)

ServiceNext ==
  \/ AcceptThread \/ AcceptFails \/ Take \/ IdleThreadEnds \/ Stop \/ StopExecutor
  \/ \E c \in Connections : Connect(c) \/ EndShell(c)

ServiceSpec == ServiceInit /\ [][ServiceNext]_serviceVars

(* The thread that accepts and those of the pool run; a conversation ends: *)
(* soTimeout sees to a silent client.  stop() need never be called.        *)
FairServiceSpec ==
  /\ ServiceSpec
  /\ WF_serviceVars(AcceptThread) /\ WF_serviceVars(Take)
  /\ \A c \in Connections : WF_serviceVars(EndShell(c))

-----------------------------------------------------------------------------
(* Every connection is served or closed in the end, and none waits any     *)
(* longer, whenever the service is stopped, unless the constructor of its  *)
(* shell failed or the thread that accepts died, which leaves the server   *)
(* socket open with nobody to accept.                                      *)
EveryConnectionEnds ==
  <>[](\/ \A c \in Connections : state[c] \in {"new", "closed", "leaked"}
       \/ acceptor = "died")
=============================================================================
