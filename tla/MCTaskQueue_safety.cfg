SPECIFICATION Spec
CONSTANTS
  Workers = {w1, w2}
  Tasks = {1}
  Queues = {q1, q2, q3, q4}
  NoTask = NoTask
  NoQueue = NoQueue
  MaxCalls = 2
INVARIANTS
  RunByOne
  RunsPending
SYMMETRY Symmetry
