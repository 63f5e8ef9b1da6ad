SPECIFICATION FairSpec
CONSTANTS
  Callers = {c1, c2}
  Daemons = {d1, d2, d3}
  Producer = Producer
  NoDaemon = NoDaemon
  Free = Free
INVARIANTS
  NoOrphan
  StoppedMeansOff
  ProducerOutlivesWorkers
PROPERTIES
  UsesLifecycle
  ShutdownEnds
