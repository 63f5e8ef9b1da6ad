SPECIFICATION MCFairSpec
CONSTANTS
  Clients = {c1, c2}
  Groups = {g1, g2}
  Nobody = Nobody
  MaxCalls = 3
INVARIANTS
  DeadlockShape
PROPERTIES
  AllStopped
  
  InterruptFrees
CHECK_DEADLOCK FALSE
