# karatachi-core in TLA+

karatachi-core is a Java library: daemon threads and producer/worker groups,
JDBC wrappers and a table replicator, a remote shell, an expression language,
and components for Wicket pages, some of them with a script of their own. This directory models the parts of it whose
correctness depends on what happens when: the modules are translated from the
sources, TLC checks them on small instances, and TLAPS proves theorems about
them for every value of their constants.

`PROJECT.json` is the index: components and their sources, runs, the lines each
definition translates (`map`), the hazards, the theorems, and for every checked
property a mutant, a plausible bug in a mapped definition that makes the
property fail. The faulty variants stand in the modules, marked `Faulty:`, just
before the definition they would replace; no specification uses them.

    tlc -workers 2 -config MCDaemon_safety.cfg MCDaemon     # a run
    tlapm DaemonProofs.tla                                  # the proofs of a module

## 1. Inventory

### karatachi-daemon

| part | state | operations | interacts with | what is hard |
|---|---|---|---|---|
| `Daemon` and its inner thread `Worker` | `executor`, `nextRun`; per worker `shutdownRequested`, the interrupt flag, the registered `InterruptableOperation` | `startup`, `wakeup`, `shutdown`, `join`, the loop of `run` | clients through the monitor of the Daemon; statements through `AcceptInterruptable` | the loop reads `nextRun` and the flag with no lock; `notify` and `Thread.join` share an object; shutdown is flag, interrupt, cancel in three steps |
| `DaemonGroup`, `UniqueDaemonGroup`, `ProducerWorkerDaemonGroup` | `running`, the lists of daemons and of removed daemons | `startup`, `setCount`, `shutdown` and its hook `cleanup`, `wakeup` | every method synchronized; calls `startup`, `shutdown`, `join` of daemons | `shutdown` blocks in joins with the monitor; an interrupt leaves it half done |
| `ProducerDaemon`, `WorkerDaemon` | a queue replaced as a whole, `running`, `finished` | `poll`, `commit`, `rollback`, `addTask`, `clearTask`, the producer's `work` | no lock covers a task on its way from one collection to the next | a task is in between collections when the producer compares them |
| `DaemonManager` | a synchronized map of groups | `addDaemonGroup`, `getDaemonGroup`, `shutdownAll` | locks map and groups while it joins threads that ask for both; gives every task every group | deadlock, interrupts |
| `RepeatDaemonGroup` | as above, with the time a task last ran | overrides `poll`, `commit`, `rollback` | the producer, the clock | the time is part of what makes two tasks equal, and changes between collections |
| `CollectorDaemon`, `MonitorDaemon`, `MBeanMonitorDaemon` | a window of samples; rows at several levels | `work`, `getValue...`; `storeValue`, `deleteExpired` | a database | roll-up boundaries, expiry |

### karatachi-database

| part | state | operations | what is hard |
|---|---|---|---|
| `DatabaseReplicator` | a connection and a scrollable result set per slave | `replicate`, `replicateFull`, `executeQuery` | a merge over cursors that are moved back; slaves committed one by one |
| `StatementWrapper`, `PreparedStatementWrapper` | the operation registered with the thread | `execute...` | a cancel between registration and execution |
| `ConnectionManager`, `ConnectionWrapper`, `DataSource...` | a connection and its open statements | `createStatement`, `prepareStatement`, `dispose`, `finalize` | a close that fails half way; owners that nobody disposes |

### karatachi-net

| part | state | operations | what is hard |
|---|---|---|---|
| `RshHandler`, `RshReader`, `CommandReader`, `CommandResponse` (client) and `RshShell` (server) | two byte streams | negotiation, `executeCommand`, the loop of `run` | responses have no length and no number; reads time out |
| `RshService` | server socket, thread pool | the accepting loop, `rejectedExecution`, `stop`, `join` | stop at any time, failures between accepting and serving |

### karatachi-expression

`ExpressionParser` turns a text into a tree; the nodes have a value and a
representation, also an expanded one where functions are written out;
`ExpressionExtractor` and `ParenthesesAdder` convert trees. Nothing runs
concurrently. What is hard is that four views of priority and associativity
(parser, representation, expansion, parentheses) must agree.

### karatachi-wicket

| part | state | operations | what is hard |
|---|---|---|---|
| `FixedGrid` and the scripts `karatachi-selectablegrid.js`, `karatachi-fixedgrid.js`, `old-karatachi-grid.js` | four panes and their scroll positions; an array of cells; the two ends of a selection; a timer; the position kept in the document | scroll, resize, drag, press, move, release, shift, the callback of the timer, replacement by Ajax | events come later than the positions they tell of; handlers of a replaced instance live on; the array is rebuilt from spans; a handler that throws leaves half of its work |
| `NoSerializePageStore` | for each session a map of pages, the least recently used first | `getPage`, `storePage`, `removePage`, `unbind`, `destroy` | a map is found in one step and locked in another |

### karatachi-lang

`CachedObject` has a field with the task that computes its value; `get()` is
called by any thread, `clear()` at any time. What is hard is the test outside
the lock, the clearing of a value that is being computed, and that `clear()` takes no
lock: the field can be emptied between the test under the lock and the read behind it.

### The rest

karatachi-lang's `TreeNode`, reflection, JMX, translators, ciphers and mail,
karatachi-native and karatachi-jni (calls of the operating system), the check
tree, forms, dialogs and monitor panels of karatachi-wicket, and the examples.
karatachi-upload has no sources. Nearly all of the JavaScript by lines (jQuery
and its plugins, Prototype, SWFObject, SyntaxHighlighter) is third-party code
kept beside the library; its own scripts are the three of the grids and two
that show an indicator and a prompt.

## 2. Modules

| module | models | how state and actions correspond to the code |
|---|---|---|
| `Daemon` | `Daemon`, `Worker`, and the part of the statement wrappers that runs on a worker | `pc[w]` is where `Worker.run` stands: `"loop"` and `"check"` are the two tests of lines 133 and 135, then `work()`, `updateNextRun()`, the second test of `nextRun`, and the two kinds of wait. `call[c]` is where a client is in a synchronized method. `nextRun` has the values that the tests tell apart: as soon as possible, later, never. `wokenAt`, `cancelAt` and `swallowed` are history variables |
| `DaemonLifecycle` | what a group may assume of a daemon | five states of life and seven steps |
| `DaemonGroup` | both families of groups; `unique` says which | every method but `shutdown` is one action; `shutdown` is one per join and return. A daemon is its `DaemonLifecycle`, and `asking` says whether its `work()` is in a synchronized method, of this group or of another, where it cannot stop |
| `TaskQueue` | the producer and the workers, collection by collection | queue objects have names, so that a worker may hold on to one that has been replaced; `running` counts |
| `DaemonManager` | who waits for whose lock | the map's lock, a monitor per group, and the call each thread is in. The threads are clients and daemons: a task, and `replaceTask()`, is the application's code, which calls any method of the manager or of any group, its own included. Beside that a daemon is reduced to the locks its `work()` asks for |
| `Replicator` | `replicate(full)` | a table is a function from keys to row versions; a cursor is the set of keys it has not passed |
| `RemoteShell` | one connection, both sides | the streams are sequences of tokens; one action per method that can block. A response is a status, a header that keeps a line per name, the names in their order, and a body; a line of the header that is no field is dropped, and a field replaces one of the same name |
| `RshService` | accepting, pool, stop | `state[c]` is where each connection is; the pool follows the documentation of `ThreadPoolExecutor` and the arguments the constructor gives it |
| `RepeatQueue` | the queue of a `RepeatDaemonGroup` | a task is a name and a time, as `compareTo` has it; `hand[w]` is where a worker is between two collections; the application notes when a task was begun, first thing in `work()`, and makes the next tasks from that |
| `Connections` | `ConnectionManager`, `ConnectionWrapper`, the pool of a data source | `at[o]` is where `dispose()` stands; every call of the driver may fail; the collector calls `finalize()` |
| `PageStore` | `NoSerializePageStore` | `request[t]` is what a thread has found: nothing yet, no map, or a map it is about to lock; `overlap` and `kept` are history variables |
| `CachedObject` | `CachedObject` | `caller[c]` is where a call of `get()` is, one step per access to the field, and the task it has, its own until it takes the one in the field; `thrown` is a history variable |
| `GridPanes` | the scroll positions of all three grid scripts | `body`, `head` and `saved` are positions along two axes, `event` a scroll event that has not been handled; `ghost` is an instance that has been replaced while its flag was set |
| `FixedGrid` | which cells `FixedGrid.java` renders into which pane, and the array the script rebuilds from them | operators over a layout; the counters of `populateItem` and the loop that looks for the first free column |
| `SelectableGrid` | `karatachi-selectablegrid.js` | an action per handler and one per way the callback of the timer can end; a TypeError ends an action where the code stops; `GridPanes` is the part of its state that scrolls |
| `Expression` | parser, nodes, functions, converters | a text is a sequence of tokens, a double a quotient of integers; one operator per method; what a method makes of its node from what it makes of the parts (`ValueOf`, `ExtractOf`, ...) apart from the recursion over trees (`Value`, `Extract`, ...), which are those up to a height |

`Daemon` is shown to implement `DaemonLifecycle` (`ImplementsLifecycle`), and
`DaemonGroup` to use it as it allows (`UsesLifecycle`): the group's model is
built on the abstract daemon, and each side of that interface is checked and
proved. `DaemonManager` composes several groups and clients at the level of
locks.

`SelectableGrid` is built on `GridPanes` and implements it (proved: every step
of a handler, the timer included, is a step of the panes or leaves them alone),
so what holds of the panes holds of the grid people select in.

`MC` modules give the constants that need a definition and the symmetry.
`MCReplicator` also narrows the initial tables, `MCDaemonManager` the groups that run in the beginning, and `MCSelectableGrid` which
layouts go with which sizes (`MCSpec`). `MCShared` and `MCRemoteShell` put
components that know nothing of each other into one run: the variable `subject`
says which of them a behaviour is about, and the others stay as they began.

## 3. Runs

| run | question | instance |
|---|---|---|
| `daemon_safety` | two live workers? a lost wakeup? a statement that outlives shutdown? | 2 clients, 2 worker names, a periodic daemon |
| `daemon_live` | do `shutdown` and a cancel end the worker? | 2 clients, 1 worker, a daemon that runs on wakeup only |
| `group_shutdown` | is a thread lost, a stopped group really off, the producer last? does `shutdown` return? | 2 callers, 3 daemons, either family |
| `queue_safety` | is a task run twice, or after it is done? | 2 workers, 1 task, 4 queue names, 2 calls of the application |
| `queue_live` | is every task done in the end? | 1 worker, 1 task, 3 queue names |
| `manager` | which deadlocks are there? what does `shutdownAll` leave? do calls return, and does an interrupt free a client? | 2 clients, 2 groups with a producer and a worker each; 2 calls with both running, 3 with one |
| `replicator_merge` | what is a slave after a replication? which slaves are committed? | 3 keys, 3 versions, 2 slaves, 1 write |
| `expression_convert` | does every representation and conversion keep the value? | all texts of up to 7 tokens that grow from an operand |
| `expression_restore` | is an extracted tree restored? (it is not) | the same |
| `shell` | whose lines does a response hold, is it whole, can both sides wait? is a connection forgotten by the service? | 2 calls, up to 3 messages of 5 kinds; 4 clients, 1 to 2 threads, a queue of 1 |
| `grid` | do frozen panes follow, is the position kept, are cells found where they were put, is what is copied what is shown, does the timer go on? | 6 layouts of up to 9 cells, two sizes of the window and of the bars, 4 places of the pointer |
| `shared` | is a page lost or left behind? a value computed twice? a task of a repeating group begun too soon or twice? a connection kept? | 2 requests, 2 sessions, 2 pages, a cache of 1; 3 callers; 2 workers, 1 task, 5 times; 2 owners, 2 statements, a pool of 1 |

### What they show

Many of the properties are of the form "this never happens, but for one way",
and the exception is part of what was learnt:

- *A periodic daemon can stop running* (`PeriodicOversleep`): a `wakeup()`
  between `updateNextRun()` and the second test of `nextRun` makes the worker
  wait with no time limit. Nothing else does.
- *A statement can outlive `shutdown()`* (`StatementOutlivesShutdown`,
  `CancelTerminates`) if the cancel falls between the test of the flag and the
  execution, if `work()` throws its interrupt away, or if it runs by
  `PreparedStatement.execute()`, which registers nothing to cancel.
- *An interrupted `shutdown()` of a group* leaks the thread it was joining
  (`NoOrphan`, `StoppedMeansOff`); nothing else does. And `shutdown()` returns
  (`ShutdownEnds`) unless it comes to join a daemon whose `work()` is in a synchronized
  method: of the same group, and then both wait until somebody interrupts the
  caller, or of another one.
- *A task can be run by two workers* (`RunByOne`) or after it is done
  (`RunsPending`) in the interleavings that the definitions of these
  properties name, and in no other; and every task is done in the end
  (`PendingDone`) although rollbacks into replaced queues are lost.
- *Every deadlock has a thread in a join* (`DeadlockShape`), and nobody is in it but
  such threads, the owner of the map, and the daemons joined. A producer in its own `work()`
  is in one only if it was asking for the monitor when it was asked to stop, or had taken the
  interrupt: this is what the test before the comment "may be deadlock" at
  `ProducerDaemon.java:86` is for, and `getCount()` has no such test. If the daemons in it
  shut nothing down and ask for no group but their own, a deadlock is a client and a daemon of
  the group it shuts down, or these two and a thread in `shutdownAll()`. Nothing in
  the library keeps a task to that: a task that was asked to stop, has swallowed the interrupt,
  and shuts down its own group waits for itself; one that shuts down another group can wait in a
  ring with that group's task. An interrupt gets a client out of a
  join (`InterruptFrees`).
- *A task of a repeating group is not begun before its interval is over, nor
  by two workers* (`RunsApart`), unless it was in a worker's hands, and not in
  `running` as the application knows it, while the queue was replaced, or was
  taken from a queue already replaced. Then there are two of it, with different
  times, until a replacement finds it in nobody's hands.
- *A disposed owner keeps no connection* (`NothingLeaks`), whatever statement
  cannot be closed, unless the driver refuses the connection itself. A
  `ConnectionWrapper` that nobody disposes keeps its connection for ever;
  `DataSourceWrapper.activate()` leaves its `ConnectionManager` to the garbage
  collector.
- *A stored page is found* (`StoredIsFound`) until it is removed, pushed out by
  others of its session, or the session ends; and a session that has ended has
  no pages (`EndedIsForgotten`), unless a page was being stored just then: that
  one stays for ever.
- *A cached value is computed by one caller* (`WorksOnTheCached`) unless
  `clear()` comes in between, and a caller works on nothing older than the last
  `clear()` before its call. When `clear()` comes between the test under the lock and the
  read behind it, the caller computes a value of its own, which no field holds and nobody
  else waits for.
- *The frozen row and column stand where the body stands* (`HeadsFollow`) once
  the scroll event has been handled, unless a new instance was to restore a
  position when its body could not be scrolled: the frozen panes, which have
  play at their ends, then stay ahead of it. *An Ajax update keeps the position*
  (`KeepsPosition`) unless an instance that was replaced while selecting writes
  over it: its timer goes on, on panes that are gone.
- *The script finds the cells where the application put them*
  (`CellsRecorded`) if no cell spans both ways or crosses the edge of a pane.
  *A selection cuts no cell it has looked at* (`AreaHolds`), but with two
  spanning cells it can cut one; *what is copied is what is shown*
  (`CopiesWhatIsShown`) unless the pointer rests on a spacer.
- *Scrolling goes on while the pointer is outside* (`ScrollsWhileOutside`),
  unless a callback throws: the variable `scroll` then keeps the number of a
  timer that is gone, and nothing scrolls until the page is built anew.
- *A replication can lose a row* (`Lost`, in `CommitsReplica`): if the last
  rows of a slave are removed and the master has a further key, that row is
  missing until the next replication, and two are always enough
  (`TwiceIsEnough`) if the master does not change in between.
- *A response holds the lines of its own command only* (`OwnLines`), whatever
  has timed out before, unless a command sends a line that begins with the
  prompt; and one that is returned is complete (`ReturnsAll`): the status, all lines of the
  body, and of the header every name in the order sent, each with the value sent last.
  What the reader of the header drops, lines without a name and values sent before
  another of the same name, is in no response. Client and server wait for each other only after a command whose
  last line is incomplete (`CallAnswered`).
- *Extracting a tree and adding parentheses does not restore it*
  (`AddedIsRestored`, the run that is expected to fail): operands of prefix
  operators get no parentheses, so -(2 - 2) becomes -2 - 2. This is the finding
  in `PROJECT.json`. On trees without that case the parentheses are enough
  (`ParenthesesSuffice`).
- *Every connection of the service is served or closed* (`EveryConnectionEnds`)
  unless the constructor of its shell throws or the accepting thread dies.

### Bounds, and why they are enough

- `Daemon`: two clients make every pair of methods meet; the monitor keeps a
  third one out. A worker name is used again when its thread has ended, so
  restarts are not bounded; two names are what a second live worker would take.
- `DaemonGroup`: three daemons let one be listed, one removed and one joining
  at once. Restarts are not bounded.
- `TaskQueue`: tasks interact only through the order in which `poll` takes
  them; two runs of one task need one task and two workers. Queue names are
  used again when nothing refers to the object; four are never all in use with
  two workers. `MaxCalls` bounds `addTask`, `clearTask` and submissions. The
  liveness run has one worker, as a worker that dies leaves its task behind.
  These two safety results are proved without any of the bounds.
- `DaemonManager`: `MaxCalls` bounds calls and interrupts. In the run both groups have
  a worker and there are two calls, which is what tasks of different groups, or
  `shutdownAll()` and an interrupt, need to meet; or one group runs and there are three,
  as a client, a task and a thread in `shutdownAll()` need. A group has one worker at a
  time: the workers ask for the same locks. The safety results are proved of `Spec`, from any
  groups running, and without any of the bounds.
- `Replicator`: the lost row takes three keys: one kept, one removed behind it,
  one after both. In `MCSpec` the slaves start with equal tables over versions
  2 (same update column as the master's rows) and 3 (another one), to keep the
  number of initial states small; the theorems are about `Spec`.
- `RemoteShell`: a second call is what meets the leftovers of the first. Three
  messages are a temporary status, the status and a line behind it; or the status and two
  fields, of which one replaces the other; or the status, a blank line and a line of the
  body. A second status is a line that is no field. The texts that the run does
  not send, another name and one that could also pass for a number, are in the proof.
- `RshService`: two threads and a queue of one are filled by three connections,
  and the fourth is rejected.
- `SelectableGrid`: a layout that scrolls has one cell, so that the positions
  are what varies; five that do not scroll have what the array and the selection
  can go wrong with: two spans that a selection can cut, one that it cannot, one
  that spans both ways, one that crosses the frozen column, one that leaves the
  grid. A body is 1 or 3 wide over a content of 0 or 2, with play of 1;
  the column shown first is the one at its end. `Narrow` (an action constraint) keeps the two kinds of layout apart; the
  theorems about the panes are for all sizes.
- `PageStore`: two requests are what meets between two steps, two sessions what
  could be confused, a cache of one what makes every second page push one out;
  proved for all values. `CachedObject`: proved for all callers.
- `RepeatQueue`: one task, as `RunsApart` is about copies of one task, and tasks
  meet only in the order of the queue; the clock runs to 4, two intervals and
  what lies between them. Queue objects that nobody refers to are used again.
- `Connections`: one connection and two owners: the second waits for what the
  first gives back. Two statements are one that fails and one behind it.
- `Expression`: seven tokens are two binary operators with a pair of
  parentheses, a conditional of two levels, or a call with three arguments.
  Operators stand for their level: one per level that the properties tell apart.
  No tree of seven tokens is higher than eight, nor, with parentheses added, than
  sixteen (`MaxHeight`), so that this bound stops nothing. A double is a
  quotient of integers, one of two infinities, or NaN.

### Fairness

- `Daemon`: threads inside `run`, `shutdown` and a returning `join` are
  scheduled, and `work()`, the application's, ends if it comes back to its own
  code again and again. That statements return is not assumed by `FairSpec`; it
  is a hypothesis of `ShutdownTerminates` (`StatementsReturn`), and
  `CancelTerminates` does without it. Clients need never call anything.
- `DaemonGroup`: a daemon asked to stop stops, which is `ShutdownTerminates`, unless its
  `work()` enters a synchronized method: that such a call is answered is assumed of no
  daemon, the producer (`ProducerDaemon.java:64`, `87`) included. The thread in
  `shutdown()` is scheduled.
- `TaskQueue`: the producer comes back by itself, as `updateNextRun()` makes it;
  workers are scheduled; a task tried again and again succeeds (strong
  fairness: without it nothing could be promised of a task that always throws).
- `DaemonManager`: threads run when the locks they want are free; tasks end, and so do
  the calls they make when these are not kept waiting.
- `RemoteShell`: both sides run, a command ends. No timeout is forced, so that
  `CallAnswered` cannot be a consequence of one.
- `RshService`: the accepting thread and the pool run, and a conversation ends,
  if only by `soTimeout`. Failures and `stop()` are never forced.
- The grids, the page store, `CachedObject`, `RepeatQueue` and `Connections` have
  safety properties only. `ScrollsWhileOutside` says that a callback is queued;
  that the browser runs it is the browser's promise.

Deadlock is checked but where the system may really stop: the service after
`stop()`, a conversation that is over, groups that have deadlocked (that is the subject of `DeadlockShape`),
a page store that has been destroyed, a grid whose script has broken off.

## 4. Proofs

All proofs are checked by tlapm (SMT and Zenon, LS4 for the temporal steps).
They assume only the `ASSUME`s of the modules: that the special values
(`NoWorker`, `Free`, `NoTask`, ...) are not in the sets they are added to,
that clients and daemons are different threads, that keys and tasks are numbers,
that the sets of keys and of a repeating group's workers and queue objects are
finite, that bounds are natural numbers, and, for the panes, that scroll bars take no more than the
play at the ends of the frozen panes (`PlayAssumption`; `FixedGrid.java:149`).
Of the layouts of cells they assume that there is at least one row and one column
and that a cell of the grid spans at least itself (`LayoutsAssumption`; what
`getRowSpan` and `getColSpan` are for). Of the language, that amounts are
quotients and NaN is the value of a literal that is written as this literal (`LanguageAssumption`; `Literal.java:10`); of its bounds, that
texts may have three tokens, as a call without arguments has, and that trees may be
higher than texts are long (`BoundsAssumption`), so that the bound on trees stops nothing;
and that a token is of one kind, a literal, a name, an operator, a mark or the end of the
text, except that a variable may have the name of a function (`TokenAssumption`).
The numbers of clients, workers, daemons, groups, queues, slaves, keys, calls,
messages, connections, statements, requests, sessions, pages and callers, and
the sizes of grids and the layouts of their cells, are arbitrary.

| module | theorems | inductive invariant |
|---|---|---|
| `DaemonProofs` | `TypeCorrect`, `OneWorker`, `WakeupNotLost`, `OversleepWindow`, `CancelWindow`, `NotifyReachesWorker`, `LifecycleImplemented` | types with the ownership of the monitor; `CallInv`, a client inside a method works on an executor that has been started; `PendingInv`, a wakeup given to an idle worker can still be read in `nextRun`; `WindowInv`, between `updateNextRun()` and the wait `nextRun` is as soon as possible only if a wakeup came in there; `SignalInv`, the interrupt of a `shutdown()` is pending, or on its way to the end of the loop, or thrown away; `CancelInv`, a statement being set up or executed is registered |
| `TaskQueueProofs` | `TypeCorrect`, `OneRunner`, `NoRunAfterDone` | for tasks that have not slipped: `HolderInv`, one holder; `RunningInv`, a task being run is in `running`; `QueueInv`, a task in the queue, or in the next one once it has been compared with `running`, has no holder; `PendingInv`, what is queued or held is to be done; `FreshInv`, what was done since `replaceTask()` is in `finished` or on its way there; and `CycleInv`, the steps of the producer |
| `ReplicatorProofs` | `TypeCorrect`, `MergeIsReplica`, `SlavesInOrder`, `TwoRunsConverge` | the loop invariant of the merge: `RestInv`, the cursor of a slave has passed the rows up to the last key done; `WorkInv`, behind it the transaction has the rows of the replica and before it the table is untouched; `PhaseInv` and `IdleInv`, which slaves are finished; `RunsInv`, what a slave has after one and after two replications of an unchanged master |
| `DaemonManagerProofs` | `InvariantCorrect`, `DeadlockShapeCorrect`, `AllStoppedCorrect` | `PlacesInv`, daemons are where their kind can be; `CallsInv`, a thread in a call has what the call needs, and a daemon in a call is in the application's code; `LocksInv`, the map belongs to the thread in `shutdownAll`, a monitor to the one that joins the daemons of its group; `LateInv`, of the producers asked to stop only the late ones come to `wakeup()`; `StoppingInv`, what `shutdownAll` has left to do. Nothing is assumed of what the application calls. Who owns a lock waits in a join, or has the map (`OwnerHolds`), and a joiner waits for daemons of its group (`JoinerWaits`); who is waited for is therefore one of these (`WaitedFor`), and a circle without a joiner would have the owner of the map wait for a lock nobody owns (`CircleHasJoiner`). If its daemons are modest, the joiner is a client, the daemon it waits for asks for its monitor or for the map, and the circle closes there (`ModestShape`) |
| `RemoteShellProofs` | `InvariantCorrect`, `OwnLinesCorrect`, `ReturnsAllCorrect` | unless a line began with the prompt: `OnePrompt`, the stream to the client has one prompt at most, options behind it, and none while the server executes; `Answering`, the client has sent the command of its call and no other; `AllOwn`, what stands in the stream and what has been read belongs to the calls it should. The line a read returns is given by the ranks of its places (`Ranked`, `FilledLineIs`), as an induction over the stream is out of reach. `ReturnsAll` needs `WInv`: the client waits and has read nothing (`Waiting`); or it has read the first k messages and the others stand in the stream, each at the place where the one before it ends (`Remaining`), while what it keeps is what those k messages make of it (`Progress`: who was told, which was the status, where the blank line was, which names there were and which line was the last of each); or there is no status and none comes (`WithoutStatus`). `NextLine` says which line a read then returns, `MovesUp` that the places move up with the stream |
| | of `RshService`: `ServiceInvCorrect`, `AttendedCorrect` | `Once`, a line (the backlog, the queue of the pool) holds each connection of its place once and nothing else; `Held`, the accepting thread has one connection in its hands or none; `PoolInv`, conversations, threads and queue keep to their limits, and while something is queued there are `MinThread` threads; `SocketInv`, nothing is left in the backlog of a closed socket. From it `Attended`: whoever waits has somebody to come for him, which is the safety half of `EveryConnectionEnds` |
| `SelectableGridProofs` | of the panes: `PanesInvariant`, `TypeCorrect`, `HeadsFollowCorrect`, `KeepsPositionCorrect`; of the grid: `GridImplementsPanes`, `GridHeadsFollow`, `GridKeepsPosition`, `ScrollsWhileOutsideCorrect`; of the cells: `CellsRecordedCorrect`, `SelCorrect`, `AreaHoldsCorrect`, `CopiesWhatIsShownCorrect` | of the panes: `BodyBound`, the body is where the browser lets it be; `SavedIsShown`, the document knows the position of a grid at rest; with `HeadsFollow` itself. The frozen panes can go wherever the body can because of their play. Each handler of the grid is mapped to the step of the panes it contains; `ScrollsWhileOutside` is inductive by itself. For the cells, see below |
| `SharedProofs` | of `PageStore`: `StoredIsFoundCorrect`, `EndedIsForgottenCorrect` | `Apart`, a map belongs to one session; `MapsInv`, a thread has the map of its session or one that nobody else will find; `EndedInv`, what it knows of the end of the session; `EmptyInv`, nothing is expected of sessions that have ended |
| | of `CachedObject`: `WorksOnTheCachedCorrect` | a call under way has a task; `HasOwn`, until it takes another this is one that no other call has; `HasFound`, what a call has found filled under the lock is filled, or has been thrown away since |
| | of `Connections`: `NothingLeaksCorrect` | `ClosedWithStatements`, a connection that is closed has no statement open |
| | of `RepeatQueue`: `RunsApartCorrect` | `HandsInv`, what is in a worker's hands; `OneCopy`, a task that is not astray is in one place; `NotOlder`, no copy has an older time than the application knows; `WillNote`, a time that is about to be noted; `Replacing`, the queue the producer makes |
| | of `DaemonGroup`: `TypeCorrect`, `NoThreadLost`, `StopIsComplete`, `ListedRuns`, `ProducerLast`, `LifecycleRespected` | `ShutdownInv`, the steps of `shutdown()`: `setCount(0)` has been done, and the producer comes when nothing is left to join; `PlaceInv`, a daemon is in one place and its life is the one the place calls for; `ProducerInv`, the life of the producer |
| `ExpressionProofs` | `TreedCorrect`, `ConvertersKeepValueCorrect`, `RepresentsSourceCorrect`, `ParenthesesSufficeCorrect`, `ExpansionKeepsValueCorrect` | there is a tree from the parser on (`Treed`), and as long as it is the one parsed it is written as the text (`Represented`). `GuardedAlways`: no conditional stands as an operand, or as the first part of a conditional, without parentheses (`Guarded`), and after parentheses have been added the parts of a binary node bind as they need to (`Ordered`). Both arguments are below. The rest are inductions over the height of trees: values are doubles (`ValuesGive`); what is extracted is no higher than the tree and has its value (`ExtractKeeps`), as a function picks the same argument of what has the same values; and so has what parentheses are added to (`AddKeeps`) |

Each module of proofs has the lemmas `InitInv`, one per conjunct or per action,
`StepInv`, and then the theorems by temporal logic. An invariant that a run
checks is seldom inductive by itself: `AtMostOneLive`, for instance, needs that
a client inside `join()` sees a worker that has been started, which is
`CallInv`; and `RunByOne` needs all that is said of queues and holders. `LifecycleImplemented` is a step simulation: every step of `Daemon`
is a step of `DaemonLifecycle` under the mapping `Status`, `Working`, `Grace`,
or leaves them unchanged. Type correctness, and with it that a monitor has one
owner, is proved of `Daemon`, `DaemonGroup`, `TaskQueue`, `Replicator`,
`DaemonManager`, `RemoteShell`, `RshService`, `GridPanes`, `PageStore`, `CachedObject`,
`Connections` and `RepeatQueue`, and is therefore not an invariant
of their runs; so are `WakeupReleasesWorker`, `ListedNotStopped` and
`CommitsInOrder`.

`CellsRecorded`, `AreaHolds` and `CopiesWhatIsShown` are about what loops over
rows and columns compute. The loops are recursive functions over `1 .. n`; that
such a function is what its equation says, and then what the loop leaves behind,
is proved by induction over the set of numbers it holds of (`Every`, which rests on
the order of the natural numbers being well-founded, as the theorems of the library that
take an operator cannot be used). The argument:

- `Counts`: the two counters of `populateItem` say exactly how many hidden
  cells are still to come, to the right (`Across`) and below (`Down`), as long as no
  cell spans both ways or leaves its pane (`HiddenIs`, `PopulateCellIs`);
- `Lists`: so each rendered row has the cells of that row of the layout, from
  left to right (`PopulateRowIs`, `RenderIs`), and a row of the script, which joins those of
  two panes, has them too (`RowIs`);
- `Entered`: while the script goes through a row, the array has the cells it has
  passed, each over its whole block, and nothing else; so the first free column
  is the one where the next cell belongs (`FreeColIs`, `SetupIs`), and
  in the end the array is `Exact`;
- `Exact` gives `Tiled`: every place of the array belongs to the one cell that
  covers it, so that no lookup fails. On such an array the rectangle only grows
  (`Grown`), never past a rectangle that cuts no cell, and takes in every cell
  of the rows and columns it began with (`WidenHolds`, `AreaTakes`); and with one spanning
  cell what it grew by has no other to cut (`OneSpans`, `GrownWithin`);
- `SelInv`: the two ends stay cells of the array or spacers, whatever handler
  runs, and what is selected is the area between them (`SelCorrect`).

`RepresentsSource` says that no grouping the parser makes is lost when the tree is
written out. The parser is a recursive function of goals: a level, the operators that
follow, or arguments, at a position. The argument:

- a goal is parsed from goals behind it or, at its position, of operators that bind
  more, so that each has a `Rank` above theirs; what `Parse` chooses is therefore
  what its equation says, and what is true of a goal when it is true of those of
  lower rank (`GoalRight`) is true of every goal (`ParseRight`);
- `Right`: a goal that does not fail has gone on to a later position, and the tree it
  made is written as the piece of the text in between. There is one lemma per
  method of the parser (`UnitRight`, `PrefixRight`, `ConditionalRight`,
  `ArgumentListRight`, `RestIsRight`, `InfixRight`); pieces are joined by `Joined`;
- of the operators of a level that follow, that whatever tree is grouped with them
  is written in front of them (`RestRight`): the tree grouped to the left,
  `GroupedMore`, is written as the operands and operators came, as a binary operator
  writes no parentheses (`WritesBinary`).

`ParenthesesSuffice` is the converse: the parser finds the tree that a text was written
from, and not only a tree of that text. The argument:

- `Readable`: wherever a tree is written in a text, and what follows it cannot be taken
  into it (`Stops`), its goal gives that tree and the place behind it. What is found at
  a level is found at every level that binds less, if no operator of those follows
  (`ReadsBelow`). There is one lemma per kind of node (`LeafReads`, `UnaryReads`,
  `ParenthesesRead`, `BinaryReads`, `ConditionalReads`, `FunctionReads`, and
  `AnyListed` for the arguments). So a tree is readable if its parts bind as its
  nodes need (`Fitting`, `FittingReadable`), and is then restored (`FittingRestored`);
- a binary node needs a first part that binds as much as its operator and a second one
  that binds more. The parser makes only fitting trees (`ParseSound`, the induction on
  `Rank` again), which are guarded (`FittingGuarded`),
  extraction leaves no conditional at all (`ExtractFrees`), and adding parentheses
  keeps a tree guarded and makes it ordered (`AddOrders`). What is missing
  is what the `ParenthesesAdder` does not look at, the operands of prefix operators: a
  guarded and ordered tree that is not `Exposed` there is fitting (`OrderedFits`).

`ExpansionKeepsValue` rests on both. What is parsed is fitting, and the expanded text
of a fitting tree e, with literals for the variables, a branch for each conditional and
an argument or a sum for each call, is the text of another fitting tree:

- `Expresses(x, n, w, v, b)`: x is a fitting tree, no higher than n, that is written w,
  has the value v and binds at least as much as b. By induction over trees there is
  such an x for the expanded text and the value of e, binding as e does, and no higher
  than the text of e is long, plus one (`TreesExpand`, with one lemma per kind of node);
- a conditional binds no more than either branch, so that a branch stands well in its
  place; an argument may bind less than the call, but functions write
  parentheses around what they choose;
- what `sum` joins with `+` is regrouped: the last argument may itself end in a chain
  of additions and subtractions, which the parser groups to the left. `JoinExpresses` puts one
  operand behind a chain, and the value stays as addition of these doubles is
  associative, infinities and NaN included (`AddAssociative`); `SumExpresses` repeats
  it for all arguments. Operators that bind less than `+` would be torn apart, so
  that trees with those in a sum are excluded (`Summable`);
- `FittingRestored` then says that the parser finds x and nothing else, within
  `MaxHeight`, as a text has no more than `MaxTokens` tokens (`SourceFits`).

The property is about trees whose variables have values that are written as a literal, or
as a minus and a literal, of just this value (`Settled`). Others are not: with
two digits 0.125 is written 0.13, and an infinity is written as a word.
In the run every value is settled.

Only model-checked: all liveness, as proofs about fairness and `ENABLED` are
beyond the prover. Of `RshService`, whose one property is that every
connection ends, what this rests on is proved (`Attended`).

## 5. What is not modelled

- Names, log messages, `detailText`, `lastExecution`, the contents of rows, of
  messages and of tasks.
- Times: a wait ends at any time after it has begun, an interval is "later",
  except in `RepeatQueue`, where the clock is what the property is about.
- Rounding of doubles and negative zero; the parser combinators themselves.
- In `DaemonManager`: calls the application makes on `Daemon` objects rather than groups,
  locks of its own, overridden hooks that run with the monitor held, unique groups, and the
  death of a daemon by an `Error`. `Daemon` has the calls on a single daemon,
  in any order, and `DaemonGroup` unique groups and deaths.
- What makes up for a worker that an `Error` has killed: nothing in the code does. The
  task it had stays in `running`, and `PendingDone` exempts every state with a
  dead worker, so that this hazard has no property.
- Requests of a session that has ended: `LookUp` begins none, which is what the servlet
  container is expected to see to. `storePage()` does not test it, and would keep pages for such a session.
- `executeQuery` of the replicator, which changes nothing; line editing and
  echo of `RshShell`, for a person at a terminal.
- Of the grids: the context menu, the clipboard, the scrolling of the window,
  styles and widths. The wording of the copied text is reduced to the cells it
  is made of.
- Third-party scripts, which are most of the JavaScript: the modules of the
  grids state what they use of the browser and of jQuery (positions are kept
  within bounds, an event follows a change of position) as external definitions.
- Which data source is active; `addTask()` and `clearTask()` of a repeating
  group, which nothing in the package calls.
- The parts marked `not_modelled` in `PROJECT.json`: presentation, conversion,
  reflection, and calls of libraries and of the operating system, which have no
  state of their own that two steps could disagree about; and three that have
  some: the roll-up of `MonitorDaemon`, whose state is in a database, the window of `CollectorDaemon`, and the check tree, an algorithm
  on a tree that one request at a time runs.

## 6. Plan

1. `Monitor`: roll-up and expiry of `MonitorDaemon` with its boundaries; the
   check tree against a definition of what its marks mean.
2. The composition of `DaemonGroup` with the abstract queue of tasks.
