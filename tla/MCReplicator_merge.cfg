SPECIFICATION MCSpec
CONSTANTS
  Keys = {1, 2, 3}
  Versions = {1, 2, 3}
  Stamp <- MCStamp
  N = 2
  MaxWrites = 1
INVARIANTS
  TwiceIsEnough
PROPERTIES
  CommitsReplica
