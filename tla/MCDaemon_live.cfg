SPECIFICATION FairSpec
CONSTANTS
  Clients = {c1, c2}
  Workers = {w1}
  NoWorker = NoWorker
  Free = Free
  Periodic = FALSE
PROPERTIES
  ShutdownTerminates
  CancelTerminates
