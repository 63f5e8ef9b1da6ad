-------------------------- MODULE ReplicatorProofs --------------------------
(***************************************************************************)
(* Proofs about Replicator, for any keys, versions and number of slaves.   *)
(***************************************************************************)
EXTENDS Replicator, TLAPS

(* Rows the merge has been through.                                        *)
Done == KeysOf(view) \ rows

(* Where a replication stands: the rows are read in the order of the keys, *)
(* and the slaves before next have been committed.                         *)
PhaseInv ==
  /\ \A d \in Done, k \in rows : d < k
  /\ pc = "rows" => next = 1
  /\ pc = "rest" => rows = {}
  /\ \A s \in Slaves : s < next => s \in connected
  /\ pc = "idle" => work = table /\ connected = {} /\ next = 1

(* The cursor of a slave has passed the rows up to the last key done.      *)
RestInv ==
  \A s \in connected :
    s >= next => rest[s] = {r \in KeysOf(table[s]) : \A d \in Done : d < r}

(* What the transaction has made of a slave so far.                        *)
WorkInv ==
  \A s \in connected, k \in Keys :
    s >= next =>
      work[s][k] = IF k \in rest[s] \cup rows THEN table[s][k]
                   ELSE Replica(view, table[s], full)[k]

(* The slaves that are not part of it, and those that are finished.        *)
IdleInv ==
  \A s \in Slaves : s \notin connected \/ s < next => work[s] = table[s]

(* A slave replicated once since the last write to the master has no rows  *)
(* the master has not, and the same update columns; twice, the same rows.  *)
Agrees(t, m) ==
  /\ KeysOf(t) \subseteq KeysOf(m)
  /\ \A k \in KeysOf(t) : Stamp[t[k]] = Stamp[m[k]]

RunsInv ==
  \A s \in Slaves :
    /\ runs[s] >= 1 => Agrees(table[s], master)
    /\ runs[s] = 2 => KeysOf(master) \subseteq KeysOf(table[s])
    /\ pc # "idle" /\ master # view /\ s >= next => runs[s] = 0

Inv == TypeOK /\ PhaseInv /\ RestInv /\ WorkInv /\ IdleInv /\ RunsInv

-----------------------------------------------------------------------------
(* The merge.                                                              *)

(* One row of the master brings a slave one key further.                   *)
LEMMA RowIsReplica ==
  ASSUME TypeOK, PhaseInv, RestInv, WorkInv, pc = "rows",
         NEW k \in rows, \A m \in rows : k <= m,
         NEW s \in connected, NEW r \in Keys
  PROVE  Merged(s, k)[r] =
           IF r \in (Past(s, k) \ {k}) \cup (rows \ {k}) THEN table[s][r]
           ELSE Replica(view, table[s], full)[r]
<1>1. /\ s \in Slaves /\ s >= next
      /\ k \in Keys /\ k \in Nat /\ r \in Nat
      /\ k \in KeysOf(view) /\ \A d \in Done : d < k
  BY KeysAssumption, NAssumption DEF TypeOK, PhaseInv, Slaves, KeysOf, Tables
<1>2. rest[s] = {q \in KeysOf(table[s]) : \A d \in Done : d < q}
  BY <1>1 DEF RestInv
<1>3. work[s][r] = IF r \in rest[s] \cup rows THEN table[s][r]
                   ELSE Replica(view, table[s], full)[r]
  BY <1>1 DEF WorkInv
<1>4. /\ \A q \in Keys : q \in Nat
      /\ \A q \in KeysOf(table[s]) : q \in Keys /\ q \in Nat
      /\ \A q \in rest[s] : q \in KeysOf(table[s])
      /\ \A q \in KeysOf(view) : q \in Nat /\ (q \in Done \/ k <= q)
  BY <1>1, <1>2, KeysAssumption DEF KeysOf, Done
<1>5. CASE r \in rest[s] /\ r < k
  <2>1. r \notin rows /\ r \notin Past(s, k)
    BY <1>1, <1>5 DEF Past
  <2>2. Merged(s, k)[r] = 0
    BY <1>5 DEF Merged
  <2>3. r \notin KeysOf(view)
    BY <1>1, <1>2, <1>4, <1>5
  <2>4. Replica(view, table[s], full)[r] = 0
    BY <2>3 DEF Replica, Lost, KeysOf
  <2> QED
    BY <2>1, <2>2, <2>4
<1>6. CASE r # k /\ ~(r \in rest[s] /\ r < k)
  <2>1. Merged(s, k)[r] = work[s][r]
    BY <1>6 DEF Merged
  <2>2. r \in (Past(s, k) \ {k}) \cup (rows \ {k}) <=> r \in rest[s] \cup rows
    BY <1>1, <1>6 DEF Past
  <2> QED
    BY <2>1, <2>2, <1>3
<1>7. CASE r = k
  <2>1. r \notin (Past(s, k) \ {k}) \cup (rows \ {k})
    BY <1>7
  <2>2. work[s][k] = table[s][k]
    BY <1>3, <1>7
  <2>3. view[k] # 0
    BY <1>1 DEF KeysOf
  <2>4. CASE k \in rest[s]
    <3>1. k \in KeysOf(table[s]) /\ table[s][k] # 0
      BY <1>4, <2>4 DEF KeysOf
    <3>2. k \notin Lost(view, table[s])
      BY <1>1, <3>1 DEF Lost
    <3> QED
      BY <1>1, <1>7, <2>1, <2>2, <2>3, <2>4, <3>1, <3>2 DEF Merged, Replica, Copied
  <2>5. CASE k \notin rest[s]
    <3>1. k \notin KeysOf(table[s]) /\ table[s][k] = 0
      BY <1>1, <1>2, <2>5 DEF KeysOf
    <3>2. Merged(s, k)[k] =
            IF rest[s] = {} \/ Past(s, k) # {} THEN view[k] ELSE 0
      BY <1>1, <2>2, <2>5, <3>1 DEF Merged
    <3>3. Replica(view, table[s], full)[k] = IF k \in Lost(view, table[s]) THEN 0 ELSE view[k]
      BY <1>1, <3>1 DEF Replica
    <3>4. CASE rest[s] = {}
      <4>1. \A l \in KeysOf(table[s]) : l < k => \E d \in KeysOf(view) : d < k /\ ~(d < l)
        BY <1>1, <1>2, <1>4, <3>4 DEF Done
      <4>2. k \notin Lost(view, table[s])
        BY <1>1, <4>1 DEF Lost
      <4> QED
        BY <1>7, <2>1, <3>2, <3>3, <3>4, <4>2
    <3>5. CASE Past(s, k) # {}
      <4>1. \E q \in KeysOf(table[s]) : ~(q < k)
        <5>1. PICK q \in Past(s, k) : TRUE
          BY <3>5
        <5>2. q \in rest[s] /\ q >= k
          BY <5>1 DEF Past
        <5>3. q \in KeysOf(table[s]) /\ q \in Nat
          BY <1>4, <5>2
        <5> QED
          BY <1>1, <5>2, <5>3
      <4>2. k \notin Lost(view, table[s])
        BY <4>1 DEF Lost
      <4> QED
        BY <1>7, <2>1, <3>2, <3>3, <3>5, <4>2
    <3>6. CASE rest[s] # {} /\ Past(s, k) = {}
      <4>1. PICK l \in rest[s] : TRUE
        BY <3>6
      <4>2. l \in KeysOf(table[s]) /\ l < k /\ \A d \in Done : d < l
        <5>1. l \in KeysOf(table[s]) /\ l \in Nat
          BY <1>4, <4>1
        <5>2. \A d \in Done : d < l
          BY <1>2, <4>1
        <5>3. ~(l >= k)
          BY <3>6, <4>1 DEF Past
        <5> QED
          BY <1>1, <5>1, <5>2, <5>3
      <4>3. \A j \in KeysOf(view) : j < k => j < l
        BY <1>1, <1>4, <4>2
      <4>4. \A q \in KeysOf(table[s]) : q < k
        <5> SUFFICES ASSUME NEW q \in KeysOf(table[s]), ~(q < k) PROVE FALSE
          OBVIOUS
        <5>0. k \in Nat /\ q \in Keys /\ q \in Nat
          BY ONLY <1>1, <1>4, q \in KeysOf(table[s])
        <5>1. q \in Keys /\ q \in Nat /\ k <= q
          BY ONLY <5>0, ~(q < k), SMT
        <5>2. \A d \in Done : d < q
          BY <1>1, <1>4, <5>1 DEF Done
        <5>3. q \in rest[s]
          BY <1>2, <5>2
        <5> QED
          BY <3>6, <5>1, <5>3 DEF Past
      <4>5. k \in Lost(view, table[s])
        BY <1>1, <4>2, <4>3, <4>4 DEF Lost
      <4> QED
        BY <1>7, <2>1, <3>2, <3>3, <3>6, <4>5
    <3> QED
      BY <3>4, <3>5, <3>6
  <2> QED
    BY <2>4, <2>5
<1> QED
  BY <1>5, <1>6, <1>7

(* When the rows of the master have been read, what is left of a slave is  *)
(* behind them all.                                                        *)
LEMMA CommitIsReplica ==
  ASSUME TypeOK, PhaseInv, RestInv, WorkInv, pc = "rest", next \in connected
  PROVE  WithoutRest(next) = Replica(view, table[next], full)
<1>1. next \in Slaves /\ next >= next /\ rows = {} /\ Done = KeysOf(view)
  BY NAssumption DEF TypeOK, PhaseInv, Done, Slaves
<1>2. rest[next] = {q \in KeysOf(table[next]) : \A d \in KeysOf(view) : d < q}
  BY <1>1 DEF RestInv
<1> SUFFICES ASSUME NEW r \in Keys
             PROVE  WithoutRest(next)[r] = Replica(view, table[next], full)[r]
  BY DEF WithoutRest, Replica
<1>3. work[next][r] = IF r \in rest[next] THEN table[next][r] ELSE Replica(view, table[next], full)[r]
  BY <1>1 DEF WorkInv
<1>4. CASE r \in rest[next]
  <2>1. r \in Nat /\ r \notin KeysOf(view)
    BY <1>2, <1>4, KeysAssumption DEF KeysOf
  <2>2. Replica(view, table[next], full)[r] = 0
    BY <2>1 DEF Replica, Lost, KeysOf
  <2> QED
    BY <1>4, <2>2 DEF WithoutRest
<1>5. CASE r \notin rest[next]
  BY <1>3, <1>5 DEF WithoutRest
<1> QED
  BY <1>4, <1>5

(* A replica has no other keys than the master and the same update columns *)
(* and, of a slave that had no other keys already, all of them.            *)
LEMMA ReplicaAgrees ==
  ASSUME NEW m \in Tables, NEW t \in Tables, NEW f
  PROVE  /\ Agrees(Replica(m, t, f), m)
         /\ KeysOf(t) \subseteq KeysOf(m) => KeysOf(m) \subseteq KeysOf(Replica(m, t, f))
<1> DEFINE u == Replica(m, t, f)
<1>1. Agrees(u, m)
  BY DEF Agrees, Replica, KeysOf
<1>2. ASSUME KeysOf(t) \subseteq KeysOf(m)
      PROVE  KeysOf(m) \subseteq KeysOf(u)
  <2> SUFFICES ASSUME NEW k \in KeysOf(m) PROVE k \in KeysOf(u)
    OBVIOUS
  <2>1. \A l \in KeysOf(t) : l \in KeysOf(m) /\ l \in Nat
    BY <1>2, KeysAssumption DEF KeysOf
  <2>2. k \notin Lost(m, t)
    <3> SUFFICES ASSUME k \in Lost(m, t) PROVE FALSE
      OBVIOUS
    <3>1. PICK l \in KeysOf(t) : \A j \in KeysOf(m) : j < k => j < l
      BY DEF Lost
    <3>2. l < k
      BY DEF Lost
    <3> QED
      BY <2>1, <3>1, <3>2
  <2> QED
    BY <2>2 DEF Replica, KeysOf
<1> QED
  BY <1>1, <1>2

-----------------------------------------------------------------------------
(* The invariant.                                                          *)

LEMMA InitInv == Init => Inv
<1> SUFFICES ASSUME Init PROVE Inv
  OBVIOUS
<1>1. TypeOK
  <2>1. NoRows \in Tables /\ 0 \in Nat /\ 1 \in 1 .. N + 1 /\ 0 \in 0 .. 2
    BY NAssumption DEF NoRows, Tables
  <2>2. MaxWrites \in 0 .. MaxWrites
    BY NAssumption
  <2> QED
    BY <2>1, <2>2 DEF Init, TypeOK
<1>2. Done = {} /\ next = 1 /\ pc = "idle" /\ work = table /\ connected = {}
  BY DEF Init, Done, KeysOf, NoRows
<1>3. PhaseInv /\ IdleInv
  BY <1>2, NAssumption DEF PhaseInv, IdleInv, Init, Slaves
<1>4. RestInv /\ WorkInv
  BY <1>2 DEF RestInv, WorkInv
<1>5. RunsInv
  BY DEF Init, RunsInv
<1> QED
  BY <1>1, <1>3, <1>4, <1>5 DEF Inv

LEMMA WriteInv ==
  ASSUME Inv, NEW k \in Keys, NEW v \in Versions \cup {0}, Write(k, v)
  PROVE  Inv'
<1>1. TypeOK'
  BY NAssumption DEF Inv, TypeOK, Write, cursors, Tables
<1>2. PhaseInv' /\ RestInv' /\ WorkInv' /\ IdleInv'
  BY DEF Inv, PhaseInv, RestInv, WorkInv, IdleInv, Write, cursors, Done
<1>3. RunsInv'
  BY DEF Write, RunsInv, Slaves
<1> QED
  BY <1>1, <1>2, <1>3 DEF Inv

LEMMA NoMasterInv ==
  ASSUME Inv, NoMaster
  PROVE  Inv'
<1>1. TypeOK'
  BY DEF Inv, TypeOK, NoMaster, tables, cursors
<1> QED
  BY <1>1 DEF Inv, PhaseInv, RestInv, WorkInv, IdleInv, RunsInv, NoMaster,
              tables, cursors, Done

LEMMA ReplicateInv ==
  ASSUME Inv, NEW f \in BOOLEAN, Replicate(f)
  PROVE  Inv'
<1>1. /\ work = table /\ next = 1 /\ table' = table /\ work' = work /\ next' = 1
      /\ master' = master /\ runs' = runs /\ view' = master /\ pc' = "rows"
      /\ rows' = KeysOf(master) /\ connected' \subseteq Slaves
      /\ \A s \in connected' : rest'[s] = KeysOf(table[s])
  BY DEF Inv, PhaseInv, TypeOK, Replicate, tables
<1>2. TypeOK'
  <2>1. rest' \in [Slaves -> SUBSET Keys]
    BY DEF Replicate, KeysOf
  <2> QED
    BY <1>1, <2>1 DEF Inv, TypeOK, Replicate, KeysOf
<1>3. Done' = {}
  BY <1>1 DEF Done, KeysOf
<1>4. PhaseInv' /\ IdleInv'
  BY <1>1, <1>3, NAssumption DEF PhaseInv, IdleInv, Slaves
<1>5. RestInv'
  BY <1>1, <1>3 DEF RestInv
<1>6. WorkInv'
  <2> SUFFICES ASSUME NEW s \in connected', NEW k \in Keys, k \notin rest'[s] \cup rows'
               PROVE  table[s][k] = Replica(master, table[s], full')[k]
    BY <1>1 DEF WorkInv
  <2>1. table[s][k] = 0 /\ master[k] = 0
    BY <1>1 DEF KeysOf
  <2> QED
    BY <2>1 DEF Replica, Lost, KeysOf
<1>7. RunsInv'
  BY <1>1 DEF Inv, RunsInv
<1> QED
  BY <1>2, <1>4, <1>5, <1>6, <1>7 DEF Inv

LEMMA RowInv ==
  ASSUME Inv, NEW k \in Keys, Row(k)
  PROVE  Inv'
<1>1. /\ pc = "rows" /\ k \in rows /\ \A m \in rows : k <= m
      /\ rows' = rows \ {k} /\ next = 1 /\ next' = next
      /\ table' = table /\ view' = view /\ master' = master /\ full' = full
      /\ connected' = connected /\ pc' = pc /\ runs' = runs
      /\ \A s \in connected : work'[s] = Merged(s, k)
      /\ \A s \in Slaves : rest'[s] = Past(s, k) \ {k}
  BY DEF Inv, PhaseInv, TypeOK, Row
<1>2. /\ connected \subseteq Slaves /\ rows \subseteq KeysOf(view)
      /\ \A q \in Keys : q \in Nat
      /\ k \in Nat /\ k \in KeysOf(view)
  BY <1>1, KeysAssumption DEF Inv, TypeOK
<1>3. Done' = Done \cup {k}
  BY <1>1, <1>2 DEF Done
<1>4. TypeOK'
  <2>1. work' \in [Slaves -> Tables]
    <3>1. \A s \in Slaves : Merged(s, k) \in Tables
      BY DEF Inv, TypeOK, Merged, Tables
    <3> QED
      BY <3>1 DEF Inv, TypeOK, Row
  <2>2. rest' \in [Slaves -> SUBSET Keys]
    BY DEF Inv, TypeOK, Row, Past
  <2>3. ASSUME NEW s \in connected PROVE rest'[s] \subseteq KeysOf(work'[s])
    <3> SUFFICES ASSUME NEW q \in rest'[s] PROVE q \in KeysOf(work'[s])
      OBVIOUS
    <3>1. q \in rest[s] /\ q >= k /\ q # k
      BY <1>1, <1>2 DEF Past
    <3>2. q \in KeysOf(work[s]) /\ q \in Keys /\ q \in Nat
      BY <1>2, <3>1 DEF Inv, TypeOK, KeysOf
    <3>3. ~(q < k)
      BY <1>2, <3>1, <3>2
    <3>4. Merged(s, k)[q] = work[s][q]
      BY <3>1, <3>2, <3>3 DEF Merged
    <3>5. work'[s][q] = work[s][q]
      BY <1>1, <3>4
    <3> QED
      BY <3>2, <3>5 DEF KeysOf
  <2> QED
    BY <1>1, <2>1, <2>2, <2>3 DEF Inv, TypeOK, Row
<1>5. PhaseInv'
  <2>1. ASSUME NEW d \in Done', NEW m \in rows' PROVE d < m
    <3>1. m \in rows /\ m # k /\ m \in Nat /\ k <= m
      BY <1>1, <1>2 DEF KeysOf
    <3>2. CASE d \in Done
      BY <3>1, <3>2 DEF Inv, PhaseInv
    <3>3. CASE d = k
      BY <1>2, <3>1, <3>3
    <3> QED
      BY <1>3, <3>2, <3>3
  <2> QED
    BY <1>1, <2>1 DEF Inv, PhaseInv
<1>6. RestInv'
  <2> SUFFICES ASSUME NEW s \in connected
               PROVE  rest'[s] = {r \in KeysOf(table[s]) : \A d \in Done' : d < r}
    BY <1>1 DEF RestInv
  <2>1. s \in Slaves /\ s >= next
    BY <1>1, <1>2, NAssumption DEF Slaves
  <2>2. rest[s] = {r \in KeysOf(table[s]) : \A d \in Done : d < r}
    BY <2>1 DEF Inv, RestInv
  <2>3. \A r \in KeysOf(table[s]) : r >= k /\ r # k <=> k < r
    BY <1>2 DEF KeysOf
  <2>4. rest'[s] = {r \in rest[s] : r >= k} \ {k}
    BY <1>1, <2>1 DEF Past
  <2> QED
    BY <1>3, <2>2, <2>3, <2>4
<1>7. WorkInv'
  <2> SUFFICES ASSUME NEW s \in connected, NEW r \in Keys
               PROVE  work'[s][r] = IF r \in rest'[s] \cup rows' THEN table[s][r]
                                    ELSE Replica(view, table[s], full)[r]
    BY <1>1 DEF WorkInv
  <2>1. s \in Slaves /\ work'[s] = Merged(s, k) /\ rest'[s] = Past(s, k) \ {k}
    BY <1>1, <1>2
  <2>2. Merged(s, k)[r] =
          IF r \in (Past(s, k) \ {k}) \cup (rows \ {k}) THEN table[s][r]
          ELSE Replica(view, table[s], full)[r]
    BY <1>1, RowIsReplica DEF Inv
  <2> QED
    BY <1>1, <2>1, <2>2
<1>8. IdleInv'
  <2>1. \A s \in Slaves : ~(s < next) /\ (s \notin connected => work'[s] = work[s])
    BY <1>1, NAssumption DEF Slaves, Row
  <2> QED
    BY <1>1, <2>1 DEF Inv, IdleInv
<1>9. RunsInv'
  BY <1>1 DEF Inv, RunsInv
<1> QED
  BY <1>4, <1>5, <1>6, <1>7, <1>8, <1>9 DEF Inv

LEMMA RowsDoneInv ==
  ASSUME Inv, RowsDone
  PROVE  Inv'
<1>1. TypeOK'
  BY DEF Inv, TypeOK, RowsDone, tables, cursors
<1> QED
  BY <1>1 DEF Inv, PhaseInv, RestInv, WorkInv, IdleInv, RunsInv, RowsDone,
              tables, cursors, Done

LEMMA CommitInv ==
  ASSUME Inv, Commit
  PROVE  Inv'
<1>1. /\ pc = "rest" /\ pc' = pc /\ next \in connected /\ next' = next + 1
      /\ view' = view /\ rows' = rows /\ connected' = connected /\ full' = full
      /\ master' = master
      /\ rows = {} /\ next \in Slaves /\ connected \subseteq Slaves
      /\ \A s \in Slaves : s \in Nat
      /\ next \in Nat /\ next <= N
  BY NAssumption DEF Inv, PhaseInv, TypeOK, Commit, Slaves
<1>2. WithoutRest(next) = Replica(view, table[next], full)
  BY <1>1, CommitIsReplica DEF Inv
<1>3. WithoutRest(next) \in Tables
  BY <1>1 DEF Inv, TypeOK, WithoutRest, Tables
<1>4. /\ table' \in [Slaves -> Tables] /\ work' \in [Slaves -> Tables]
      /\ rest' \in [Slaves -> SUBSET Keys]
      /\ table'[next] = Replica(view, table[next], full)
      /\ work'[next] = table'[next] /\ rest'[next] = {}
      /\ \A s \in Slaves : s # next =>
           table'[s] = table[s] /\ work'[s] = work[s] /\ rest'[s] = rest[s]
  BY <1>1, <1>2, <1>3 DEF Inv, TypeOK, Commit
<1>5. /\ runs' \in [Slaves -> 0 .. 2]
      /\ \A s \in Slaves : s # next => runs'[s] = runs[s]
      /\ runs'[next] = IF master = view /\ runs[next] < 2 THEN runs[next] + 1
                       ELSE runs[next]
  <2>1. runs[next] \in 0 .. 2
    BY <1>1 DEF Inv, TypeOK
  <2>2. (IF master = view /\ runs[next] < 2 THEN runs[next] + 1 ELSE runs[next]) \in 0 .. 2
    BY <2>1
  <2> QED
    BY <1>1, <2>2 DEF Inv, TypeOK, Commit
<1>6. TypeOK'
  <2>1. next' \in 1 .. N + 1
    BY <1>1, NAssumption DEF Slaves
  <2>2. \A s \in connected : rest'[s] \subseteq KeysOf(work'[s])
    BY <1>1, <1>4 DEF Inv, TypeOK
  <2> QED
    BY <1>1, <1>4, <1>5, <2>1, <2>2 DEF Inv, TypeOK, Commit
<1>7. Done' = Done /\ \A s \in Slaves : s >= next' => s >= next /\ s # next
  BY <1>1 DEF Done
<1>8. PhaseInv'
  <2>1. \A s \in Slaves : s < next' => s \in connected
    BY <1>1 DEF Inv, PhaseInv
  <2> QED
    BY <1>1, <1>7, <2>1 DEF Inv, PhaseInv
<1>9. RestInv' /\ WorkInv'
  BY <1>1, <1>4, <1>7 DEF Inv, RestInv, WorkInv
<1>10. IdleInv'
  <2>1. \A s \in Slaves : s # next => (s < next' => s < next)
    BY <1>1
  <2> QED
    BY <1>1, <1>4, <2>1 DEF Inv, IdleInv
<1>11. RunsInv'
  <2> SUFFICES ASSUME NEW s \in Slaves
               PROVE  /\ runs'[s] >= 1 => Agrees(table'[s], master)
                      /\ runs'[s] = 2 => KeysOf(master) \subseteq KeysOf(table'[s])
                      /\ master # view /\ s >= next' => runs'[s] = 0
    BY <1>1 DEF RunsInv, Agrees
  <2>1. runs[s] \in 0 .. 2
    BY DEF Inv, TypeOK
  <2>2. CASE s # next
    BY <1>1, <1>4, <1>5, <1>7, <2>2 DEF Inv, RunsInv
  <2>3. CASE s = next /\ master # view
    <3>1. runs[s] = 0
      BY <1>1, <2>3 DEF Inv, RunsInv
    <3> QED
      BY <1>5, <1>7, <2>3, <3>1
  <2>4. CASE s = next /\ master = view
    <3>1. /\ Agrees(table'[s], master)
          /\ KeysOf(table[s]) \subseteq KeysOf(master)
               => KeysOf(master) \subseteq KeysOf(table'[s])
      BY <1>4, <2>4, ReplicaAgrees DEF Inv, TypeOK
    <3>2. runs'[s] = 2 => runs[s] >= 1
      BY <1>5, <2>1, <2>4
    <3>3. runs[s] >= 1 => KeysOf(table[s]) \subseteq KeysOf(master)
      BY DEF Inv, RunsInv, Agrees
    <3> QED
      BY <2>4, <3>1, <3>2, <3>3
  <2> QED
    BY <2>2, <2>3, <2>4
<1> QED
  BY <1>6, <1>8, <1>9, <1>10, <1>11 DEF Inv

(* However a replication ends.                                             *)
LEMMA DisposeInv ==
  ASSUME Inv, Dispose, work' = table, UNCHANGED <<master, table, up, writes, runs>>
  PROVE  Inv'
<1>1. NoRows \in Tables /\ KeysOf(NoRows) = {}
  BY DEF NoRows, Tables, KeysOf
<1>2. TypeOK'
  <2>1. rest' \in [Slaves -> SUBSET Keys] /\ 1 \in 1 .. N + 1
    BY NAssumption DEF Dispose
  <2> QED
    BY <1>1, <2>1 DEF Inv, TypeOK, Dispose
<1>3. Done' = {}
  BY <1>1 DEF Done, Dispose
<1>4. PhaseInv' /\ IdleInv'
  BY <1>3, NAssumption DEF PhaseInv, IdleInv, Dispose, Slaves
<1>5. RestInv' /\ WorkInv'
  BY DEF RestInv, WorkInv, Dispose
<1>6. RunsInv'
  BY DEF Inv, RunsInv, Dispose
<1> QED
  BY <1>2, <1>4, <1>5, <1>6 DEF Inv

LEMMA ReturnInv ==
  ASSUME Inv, Return
  PROVE  Inv'
<1>1. \A s \in Slaves : work[s] = table[s]
  BY NAssumption DEF Inv, IdleInv, Return, Slaves
<1>2. work = table
  BY <1>1 DEF Inv, TypeOK
<1> QED
  BY <1>2, DisposeInv DEF Return, tables

LEMMA StepInv == Inv /\ [Next]_vars => Inv'
<1> SUFFICES ASSUME Inv, [Next]_vars PROVE Inv'
  OBVIOUS
<1>1. CASE \E k \in Keys, v \in Versions \cup {0} : Write(k, v)
  BY <1>1, WriteInv
<1>2. CASE \E f \in BOOLEAN : Replicate(f)
  BY <1>2, ReplicateInv
<1>3. CASE NoMaster
  BY <1>3, NoMasterInv
<1>4. CASE \E k \in Keys : Row(k)
  BY <1>4, RowInv
<1>5. CASE RowsDone
  BY <1>5, RowsDoneInv
<1>6. CASE Commit
  BY <1>6, CommitInv
<1>7. CASE NoResultSet
  BY <1>7, DisposeInv DEF NoResultSet
<1>8. CASE Throw
  BY <1>8, DisposeInv DEF Throw
<1>9. CASE Return
  BY <1>9, ReturnInv
<1>10. CASE UNCHANGED vars
  <2>1. TypeOK'
    BY <1>10 DEF Inv, TypeOK, vars, tables, cursors
  <2> QED
    BY <1>10, <2>1 DEF Inv, PhaseInv, RestInv, WorkInv, IdleInv, RunsInv, Done,
                       vars, tables, cursors
<1> QED
  BY <1>1, <1>2, <1>3, <1>4, <1>5, <1>6, <1>7, <1>8, <1>9, <1>10 DEF Next

-----------------------------------------------------------------------------
(* The cursor of a slave is on rows that the slave has.                    *)
THEOREM TypeCorrect == Spec => []TypeOK
<1>1. Inv => TypeOK
  BY DEF Inv
<1> QED
  BY InitInv, StepInv, <1>1, PTL DEF Spec

(* A slave changes only when it is committed, to the replica of what the   *)
(* query on the master has found, whatever fails at whichever row.         *)
THEOREM MergeIsReplica == Spec => CommitsReplica
<1> DEFINE OneStep ==
      \A s \in Slaves :
        table'[s] = IF pc = "rest" /\ next = s /\ next' = s + 1
                    THEN Replica(view, table[s], full) ELSE table[s]
<1>1. Inv /\ [Next]_vars => [OneStep]_vars
  <2> SUFFICES ASSUME Inv, Next PROVE OneStep
    OBVIOUS
  <2>1. CASE Commit
    <3>1. next \in connected /\ pc = "rest" /\ next' = next + 1
      BY <2>1 DEF Commit
    <3>2. table' = [table EXCEPT ![next] = Replica(view, table[next], full)]
      BY <2>1, <3>1, CommitIsReplica DEF Commit, Inv
    <3> QED
      BY <3>1, <3>2 DEF Inv, TypeOK
  <2>2. CASE table' = table /\ (next' = next \/ pc # "rest" \/ next' = 1)
    BY <2>2, NAssumption DEF Slaves, Inv, TypeOK
  <2> QED
    BY <2>1, <2>2 DEF Next, Write, Replicate, NoMaster, Row, RowsDone, NoResultSet,
                      Throw, Return, Dispose, tables
<1> QED
  BY InitInv, StepInv, <1>1, PTL DEF Spec, CommitsReplica

(* No slave behind one that could not be connected is ever committed.      *)
THEOREM SlavesInOrder == Spec => CommitsInOrder
<1> DEFINE OneStep ==
      \A s \in Slaves : table'[s] # table[s] => 1 .. s \subseteq connected
<1>1. Inv /\ [Next]_vars => [OneStep]_vars
  <2> SUFFICES ASSUME Inv, Next PROVE OneStep
    OBVIOUS
  <2>1. CASE Commit
    <3> SUFFICES ASSUME NEW s \in Slaves, table'[s] # table[s]
                 PROVE  1 .. s \subseteq connected
      OBVIOUS
    <3>1. s = next /\ next \in connected
      BY <2>1 DEF Commit, Inv, TypeOK
    <3>2. \A q \in 1 .. s : q \in Slaves /\ (q = next \/ q < next)
      BY <3>1, NAssumption DEF Slaves
    <3> QED
      BY <3>1, <3>2 DEF Inv, PhaseInv
  <2>2. CASE table' = table
    BY <2>2
  <2> QED
    BY <2>1, <2>2 DEF Next, Write, Replicate, NoMaster, Row, RowsDone, NoResultSet,
                      Throw, Return, tables
<1> QED
  BY InitInv, StepInv, <1>1, PTL DEF Spec, CommitsInOrder

(* Two replications of an unchanged master bring a slave to the keys and   *)
(* update columns of the master.                                           *)
THEOREM TwoRunsConverge == Spec => []TwiceIsEnough
<1>1. Inv => TwiceIsEnough
  <2> SUFFICES ASSUME Inv, NEW s \in Slaves, runs[s] = 2
               PROVE  /\ KeysOf(table[s]) = KeysOf(master)
                      /\ \A k \in KeysOf(master) : Stamp[table[s][k]] = Stamp[master[k]]
    BY DEF TwiceIsEnough
  <2>1. Agrees(table[s], master) /\ KeysOf(master) \subseteq KeysOf(table[s])
    BY DEF Inv, RunsInv
  <2> QED
    BY <2>1 DEF Agrees
<1> QED
  BY InitInv, StepInv, <1>1, PTL DEF Spec
=============================================================================
