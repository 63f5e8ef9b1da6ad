SPECIFICATION MCSpec
CONSTANTS
  Requests = {r1, r2}
  Sessions = {s1, s2}
  Pages = {p1, p2}
  CacheSize = 1
  Maps = {m1, m2, m3}
  NoMap = NoMap
  Getters = {c1, c2, c3}
  Futures = {f1, f2, f3, f4}
  NoFuture = NoFuture
  Names = {1}
  RepeatWorkers = {w1, w2}
  Objects = {q1, q2, q3, q4}
  NoObject = NoObject
  Interval = 1
  MaxTime = 4
  Owners = {o1, o2}
  Statements = {t1, t2}
  PoolSize = 1
INVARIANTS
  StoredIsFound
  EndedIsForgotten
  WorksOnTheCached
  NothingLeaks
PROPERTIES
  RunsApart
SYMMETRY Symmetry
CHECK_DEADLOCK FALSE
