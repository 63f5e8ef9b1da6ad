----------------------------- MODULE Replicator -----------------------------
(***************************************************************************)
(* DatabaseReplicator: replicate() and replicateFull() bring a table of    *)
(* every slave to the rows of the master, in one merge over the rows of    *)
(* both in the order of their keys, and commit the slaves one by one.      *)
(*                                                                         *)
(* A table is a function from keys to row versions.  The result set of a   *)
(* slave is the set of keys its cursor has not passed: next() takes the    *)
(* least, previous() puts it back, rows inserted later are not seen.       *)
(***************************************************************************)
EXTENDS Naturals, FiniteSets

CONSTANTS
  Keys,        \* keys of the table: numbers
  Versions,    \* contents a row can have: positive numbers; 0 is no row
  Stamp,       \* the update column of each version
  N,           \* number of slaves, in the order of the array
  MaxWrites    \* bound: writes to the master

ASSUME KeysAssumption == Keys \subseteq Nat /\ IsFiniteSet(Keys)
ASSUME VersionsAssumption == Versions \subseteq Nat \ {0}
ASSUME StampAssumption == Stamp \in [Versions -> Nat]
ASSUME NAssumption == N \in Nat /\ MaxWrites \in Nat

VARIABLES
  master,      \* the table of the master
  table,       \* the committed table of each slave
  work,        \* the same as the transaction of replicate() sees it
  up,          \* data sources that can be connected: slaves, 0 is the master
  connected,   \* slaves replicate() has a connection to
  pc,          \* "idle", "rows": the merge, "rest": what follows it
  full,        \* replicateFull()
  view,        \* the master as the query has found it
  rows,        \* keys of it not yet read
  rest,        \* keys of each slave the cursor has not passed
  next,        \* the slave to be finished next
  writes,      \* writes left
  runs         \* history: replications each slave has committed since the
               \* last write to the master, up to 2

tables == <<master, table, work>>
cursors == <<view, rows, rest>>
vars == <<tables, up, connected, pc, full, cursors, next, writes, runs>>

Slaves == 1 .. N
Tables == [Keys -> Versions \cup {0}]
NoRows == [k \in Keys |-> 0]
KeysOf(t) == {k \in Keys : t[k] # 0}

TypeOK ==
  /\ master \in Tables /\ view \in Tables
  /\ table \in [Slaves -> Tables] /\ work \in [Slaves -> Tables]
  /\ up \subseteq Slaves \cup {0}
  /\ connected \subseteq Slaves
  /\ pc \in {"idle", "rows", "rest"}
  /\ full \in BOOLEAN
  /\ rows \subseteq KeysOf(view)
  /\ rest \in [Slaves -> SUBSET Keys]
  /\ \A s \in connected : rest[s] \subseteq KeysOf(work[s])
  /\ next \in 1 .. N + 1
  /\ writes \in 0 .. MaxWrites
  /\ runs \in [Slaves -> 0 .. 2]

Init ==
  /\ master \in Tables
  /\ table \in [Slaves -> Tables]
  /\ work = table
  /\ up \in SUBSET (Slaves \cup {0})
  /\ connected = {} /\ pc = "idle" /\ full = FALSE
  /\ view = NoRows /\ rows = {} /\ rest = [s \in Slaves |-> {}]
  /\ next = 1
  /\ writes = MaxWrites
  /\ runs = [s \in Slaves |-> 0]

-----------------------------------------------------------------------------
(* The application writes to the master, at any time.                      *)
Write(k, v) ==
  /\ writes > 0
  /\ master[k] # v
  /\ writes' = writes - 1
  /\ master' = [master EXCEPT ![k] = v]
  /\ runs' = [s \in Slaves |-> 0]
  /\ UNCHANGED <<table, work, up, connected, pc, full, cursors, next>>

(* The finally clause: connections are closed, what is not committed is    *)
(* rolled back.                                                            *)
Dispose ==
  /\ pc' = "idle"
  /\ connected' = {}
  /\ next' = 1
  /\ rows' = {} /\ rest' = [s \in Slaves |-> {}]
  /\ view' = NoRows
  /\ full' = FALSE

(* Connections and queries; a slave that cannot be connected is left out.  *)
(* up may be another set the next time.                                    *)
Replicate(f) ==
  /\ pc = "idle"
  /\ 0 \in up
  /\ pc' = "rows"
  /\ full' = f
  /\ connected' = up \ {0}
  /\ view' = master
  /\ rows' = KeysOf(master)
  /\ rest' = [s \in Slaves |-> IF s \in up THEN KeysOf(table[s]) ELSE {}]
  /\ up' \in SUBSET (Slaves \cup {0})
  /\ UNCHANGED <<tables, next, writes, runs>>

(* Without the master the first call on its connection throws.             *)
NoMaster ==
  /\ pc = "idle"
  /\ 0 \notin up
  /\ up' \in SUBSET (Slaves \cup {0})
  /\ UNCHANGED <<tables, connected, pc, full, cursors, next, writes, runs>>

(* One row of the master in one slave.  Rows of the slave with lesser keys *)
(* are removed.  When that was the last row of the slave the loop is over  *)
(* and nothing is inserted.                                                *)
Copied(t, k) == full \/ Stamp[view[k]] # Stamp[t[k]]

Past(s, k) == {r \in rest[s] : r >= k}

(* Faulty: nothing is inserted before a row with a greater key.            *)
MergedAppendOnly(s, k) ==
  [r \in Keys |->
     IF r \in rest[s] /\ r < k THEN 0
     ELSE IF r = k /\ IF k \in rest[s] THEN Copied(work[s], k)
                     ELSE rest[s] = {}
     THEN view[k] ELSE work[s][r]]

Merged(s, k) ==
  [r \in Keys |->
     IF r \in rest[s] /\ r < k THEN 0
     ELSE IF r = k /\ IF k \in rest[s] THEN Copied(work[s], k)
                     ELSE rest[s] = {} \/ Past(s, k) # {}
     THEN view[k] ELSE work[s][r]]

Row(k) ==
  /\ pc = "rows"
  /\ k \in rows
  /\ \A m \in rows : k <= m
  /\ rows' = rows \ {k}
  /\ work' = [s \in Slaves |-> IF s \in connected THEN Merged(s, k) ELSE work[s]]
  /\ rest' = [s \in Slaves |-> Past(s, k) \ {k}]
  /\ UNCHANGED <<master, table, up, connected, pc, full, view, next, writes, runs>>

RowsDone ==
  /\ pc = "rows"
  /\ rows = {}
  /\ pc' = "rest"
  /\ UNCHANGED <<tables, up, connected, full, cursors, next, writes, runs>>

(* What is left of a slave is removed, and the slave committed.            *)
WithoutRest(s) == [k \in Keys |-> IF k \in rest[s] THEN 0 ELSE work[s][k]]

(* Faulty: the rows left in the slave stay.                                *)
CommitKeepingRest ==
  /\ pc = "rest"
  /\ next \in connected
  /\ table' = [table EXCEPT ![next] = work[next]]
  /\ work' = [work EXCEPT ![next] = work[next]]
  /\ rest' = [rest EXCEPT ![next] = {}]
  /\ next' = next + 1
  /\ runs' = [runs EXCEPT ![next] = IF master = view /\ @ < 2 THEN @ + 1 ELSE @]
  /\ UNCHANGED <<master, up, connected, pc, full, view, rows, writes>>

Commit ==
  /\ pc = "rest"
  /\ next \in connected
  /\ table' = [table EXCEPT ![next] = WithoutRest(next)]
  /\ work' = [work EXCEPT ![next] = WithoutRest(next)]
  /\ rest' = [rest EXCEPT ![next] = {}]
  /\ next' = next + 1
  /\ runs' = [runs EXCEPT ![next] = IF master = view /\ @ < 2 THEN @ + 1 ELSE @]
  /\ UNCHANGED <<master, up, connected, pc, full, view, rows, writes>>

(* A slave without a connection has no result set: the call throws, and    *)
(* the slaves behind it are not committed.                                 *)
NoResultSet ==
  /\ pc = "rest"
  /\ next \in Slaves \ connected
  /\ Dispose
  /\ work' = table
  /\ UNCHANGED <<master, table, up, writes, runs>>

(* An SQLException, or the interrupt flag.                                 *)
Throw ==
  /\ pc \in {"rows", "rest"}
  /\ Dispose
  /\ work' = table
  /\ UNCHANGED <<master, table, up, writes, runs>>

Return ==
  /\ pc = "rest"
  /\ next = N + 1
  /\ Dispose
  /\ UNCHANGED <<tables, up, writes, runs>>

-----------------------------------------------------------------------------
Next ==
  \/ \E k \in Keys, v \in Versions \cup {0} : Write(k, v)
  \/ \E f \in BOOLEAN : Replicate(f)
  \/ NoMaster
  \/ \E k \in Keys : Row(k)
  \/ RowsDone \/ Commit \/ NoResultSet \/ Throw \/ Return

Spec == Init /\ [][Next]_vars

-----------------------------------------------------------------------------
(* A key the merge loses: the slave has rows behind the preceding key of   *)
(* the master, which are removed, and none behind this one.                *)
Lost(m, t) ==
  {k \in KeysOf(m) :
     /\ \A r \in KeysOf(t) : r < k
     /\ \E l \in KeysOf(t) : \A j \in KeysOf(m) : j < k => j < l}

(* What a slave is to be after a replication: the rows of the master,      *)
(* except that replicate() leaves a row whose update column agrees; and    *)
(* except the lost one.                                                    *)
Replica(m, t, f) ==
  [k \in Keys |->
     IF k \in Lost(m, t) THEN 0
     ELSE IF ~f /\ m[k] # 0 /\ t[k] # 0 /\ Stamp[m[k]] = Stamp[t[k]] THEN t[k]
     ELSE m[k]]

(* A slave changes only when it is committed, to the replica of what the   *)
(* query on the master has found, whatever fails at whichever row.         *)
CommitsReplica ==
  [][\A s \in Slaves :
       table'[s] = IF pc = "rest" /\ next = s /\ next' = s + 1
                   THEN Replica(view, table[s], full) ELSE table[s]]_vars

(* No slave behind one that could not be connected is ever committed.      *)
CommitsInOrder ==
  [][\A s \in Slaves : table'[s] # table[s] => 1 .. s \subseteq connected]_vars

(* A second replication makes up for the lost row: then slave and master   *)
(* agree in keys and update columns.                                       *)
TwiceIsEnough ==
  \A s \in Slaves : runs[s] = 2 =>
    /\ KeysOf(table[s]) = KeysOf(master)
    /\ \A k \in KeysOf(master) : Stamp[table[s][k]] = Stamp[master[k]]
=============================================================================
