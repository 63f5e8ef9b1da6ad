SPECIFICATION FairSpec
CONSTANTS
  Workers = {w1}
  Tasks = {1}
  Queues = {q1, q2, q3}
  NoTask = NoTask
  NoQueue = NoQueue
  MaxCalls = 2
PROPERTIES
  PendingDone
