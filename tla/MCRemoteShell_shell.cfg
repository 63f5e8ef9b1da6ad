SPECIFICATION MCFairSpec
CONSTANTS
  Messages <- MCMessages
  MaxMessages = 3
  MaxCalls = 2
  Connections = {c1, c2, c3, c4}
  MinThread = 1
  MaxThread = 2
  QueueSize = 1
INVARIANTS
  OwnLines
  ReturnsAll
PROPERTIES
  CallAnswered
  EveryConnectionEnds
CHECK_DEADLOCK FALSE
