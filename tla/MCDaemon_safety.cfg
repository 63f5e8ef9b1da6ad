SPECIFICATION Spec
CONSTANTS
  Clients = {c1, c2}
  Workers = {w1, w2}
  NoWorker = NoWorker
  Free = Free
  Periodic = TRUE
INVARIANTS
  AtMostOneLive
  IdleWakeupServed
  PeriodicOversleep
  StatementOutlivesShutdown
PROPERTIES
  ImplementsLifecycle
SYMMETRY Symmetry
