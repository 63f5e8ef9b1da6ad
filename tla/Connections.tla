---------------------------- MODULE Connections ----------------------------
(***************************************************************************)
(* The connections of one data source, as ConnectionManager and            *)
(* ConnectionWrapper hold them, and which of them go back to the pool.     *)
(* dispose() closes the statements and then the connection, which closes   *)
(* its statements too; each call of the driver may fail.  The garbage      *)
(* collector disposes a ConnectionManager that nobody refers to, and       *)
(* DataSourceWrapper.activate() leaves it to do so.                        *)
(***************************************************************************)
EXTENDS Integers, FiniteSets

CONSTANTS
  Owners,       \* ConnectionManagers and ConnectionWrappers; one that is gone
                \* and has no connection is used again
  Statements,   \* of each owner
  PoolSize      \* of the data source

ASSUME PoolAssumption == PoolSize \in Nat

VARIABLES
  kind,         \* "manager" or "wrapper"
  at,           \* "gone", "use", or in dispose(): "statements", "connection"
  final,        \* nobody refers to it
  connection,   \* "none", "open" or "closed"
  listed,       \* ArrayList<Statement> statements
  remaining,    \* those the loop of dispose() has not come to
  opened,       \* its statements that are not closed
  asked,        \* history: dispose() has been called
  refused       \* history: in the last of these calls isClosed() or close()
                \* of the connection threw

connectionVars ==
  <<kind, at, final, connection, listed, remaining, opened, asked, refused>>

ConnectionInit ==
  /\ kind = [o \in Owners |-> "manager"]
  /\ at = [o \in Owners |-> "gone"]
  /\ final = [o \in Owners |-> TRUE]
  /\ connection = [o \in Owners |-> "none"]
  /\ listed = [o \in Owners |-> {}]
  /\ remaining = [o \in Owners |-> {}]
  /\ opened = [o \in Owners |-> {}]
  /\ asked = [o \in Owners |-> FALSE]
  /\ refused = [o \in Owners |-> FALSE]

OutOfPool == {o \in Owners : connection[o] = "open"}

(* The constructor.  A ConnectionManager that gets no connection is made   *)
(* all the same; a ConnectionWrapper is given one.                         *)
Connected(o, k) ==
  /\ at[o] = "gone" /\ connection[o] # "open"
  /\ kind' = [kind EXCEPT ![o] = k]
  /\ at' = [at EXCEPT ![o] = "use"]
  /\ final' = [final EXCEPT ![o] = FALSE]
  /\ \/ /\ Cardinality(OutOfPool) < PoolSize
        /\ connection' = [connection EXCEPT ![o] = "open"]
     \/ /\ k = "manager"
        /\ connection' = [connection EXCEPT ![o] = "none"]
  /\ listed' = [listed EXCEPT ![o] = {}]
  /\ asked' = [asked EXCEPT ![o] = FALSE]
  /\ refused' = [refused EXCEPT ![o] = FALSE]
  /\ UNCHANGED <<remaining, opened>>

(* createStatement() and the like, by somebody who has the owner; a        *)
(* parameter that cannot be set throws when the statement is listed.       *)
CreateStatement(o, s) ==
  /\ at[o] = "use" /\ ~final[o] /\ connection[o] = "open"
  /\ s \notin listed[o]
  /\ listed' = [listed EXCEPT ![o] = @ \cup {s}]
  /\ opened' = [opened EXCEPT ![o] = @ \cup {s}]
  /\ UNCHANGED <<kind, at, final, connection, remaining, asked, refused>>

(* The server ends a connection.                                           *)
ConnectionLost(o) ==
  /\ connection[o] = "open"
  /\ connection' = [connection EXCEPT ![o] = "closed"]
  /\ opened' = [opened EXCEPT ![o] = {}]
  /\ UNCHANGED <<kind, at, final, listed, remaining, asked, refused>>

(* The last reference goes: finalize() will dispose a ConnectionManager,   *)
(* again if it has been disposed; a ConnectionWrapper has none.            *)
Drop(o) ==
  /\ at[o] = "use" /\ ~final[o]
  /\ final' = [final EXCEPT ![o] = TRUE]
  /\ at' = [at EXCEPT ![o] = IF kind[o] = "wrapper" THEN "gone" ELSE @]
  /\ UNCHANGED <<kind, connection, listed, remaining, opened, asked, refused>>

-----------------------------------------------------------------------------
(* dispose()                                                               *)
DisposeEnds(o) == at' = [at EXCEPT ![o] = IF final[o] THEN "gone" ELSE "use"]

(* A ConnectionManager does nothing unless isConnected(): it has none, it  *)
(* is closed, or isClosed() throws.                                        *)
NotConnected(o) ==
  /\ at[o] = "use" /\ kind[o] = "manager"
  /\ \E throws \in BOOLEAN :
       /\ connection[o] = "open" => throws
       /\ connection[o] = "none" => ~throws
       /\ refused' = [refused EXCEPT ![o] = throws]
  /\ asked' = [asked EXCEPT ![o] = TRUE]
  /\ DisposeEnds(o)
  /\ UNCHANGED <<kind, final, connection, listed, remaining, opened>>

Dispose(o) ==
  /\ at[o] = "use"
  /\ kind[o] = "manager" => connection[o] = "open"
  /\ asked' = [asked EXCEPT ![o] = TRUE]
  /\ refused' = [refused EXCEPT ![o] = FALSE]
  /\ remaining' = [remaining EXCEPT ![o] = listed[o]]
  /\ at' = [at EXCEPT ![o] = "statements"]
  /\ UNCHANGED <<kind, final, connection, listed, opened>>

DisposeStatement(o, s) ==
  /\ at[o] = "statements" /\ s \in remaining[o]
  /\ remaining' = [remaining EXCEPT ![o] = @ \ {s}]
  /\ opened' = [opened EXCEPT ![o] = @ \ {s}]
  /\ UNCHANGED <<kind, at, final, connection, listed, asked, refused>>

(* Faulty: the exception ends dispose().                                   *)
StatementFailsAll(o) ==
  /\ at[o] = "statements" /\ remaining[o] # {}
  /\ remaining' = [remaining EXCEPT ![o] = {}]
  /\ DisposeEnds(o)
  /\ UNCHANGED <<kind, final, connection, listed, opened, asked, refused>>

(* stmt.close() throws: the loop ends, and the list is left as it is.      *)
StatementFails(o) ==
  /\ at[o] = "statements" /\ remaining[o] # {}
  /\ remaining' = [remaining EXCEPT ![o] = {}]
  /\ at' = [at EXCEPT ![o] = "connection"]
  /\ UNCHANGED <<kind, final, connection, listed, opened, asked, refused>>

StatementsClosed(o) ==
  /\ at[o] = "statements" /\ remaining[o] = {}
  /\ listed' = [listed EXCEPT ![o] = {}]
  /\ at' = [at EXCEPT ![o] = "connection"]
  /\ UNCHANGED <<kind, final, connection, remaining, opened, asked, refused>>

CloseConnection(o) ==
  /\ at[o] = "connection"
  /\ connection' = [connection EXCEPT ![o] = "closed"]
  /\ opened' = [opened EXCEPT ![o] = {}]
  /\ DisposeEnds(o)
  /\ UNCHANGED <<kind, final, listed, remaining, asked, refused>>

CloseFails(o) ==
  /\ at[o] = "connection"
  /\ refused' = [refused EXCEPT ![o] = TRUE]
  /\ DisposeEnds(o)
  /\ UNCHANGED <<kind, final, connection, listed, remaining, opened, asked>>

ConnectionNext ==
  \E o \in Owners :
    \/ \E k \in {"manager", "wrapper"} : Connected(o, k)
    \/ \E s \in Statements : CreateStatement(o, s) \/ DisposeStatement(o, s)
    \/ ConnectionLost(o) \/ Drop(o) \/ NotConnected(o) \/ Dispose(o)
    \/ StatementFails(o) \/ StatementsClosed(o)
    \/ CloseConnection(o) \/ CloseFails(o)

ConnectionSpec == ConnectionInit /\ [][ConnectionNext]_connectionVars

-----------------------------------------------------------------------------
(* Whoever has been disposed, or is gone, has given its connection back and*)
(* left no statement open, whatever statement could not be closed, unless  *)
(* the driver refused the connection itself.  Only a ConnectionWrapper that*)
(* nobody disposed keeps its connection for ever.                          *)
NothingLeaks ==
  \A o \in Owners :
    /\ at[o] = "gone" \/ (at[o] = "use" /\ asked[o])
    /\ kind[o] = "manager" \/ asked[o]
    /\ ~refused[o]
    => connection[o] # "open" /\ opened[o] = {}
=============================================================================
