SPECIFICATION Spec
CONSTANTS
  Workers = {w1, w2}
  Callers = {main}
  Owner = main
  Tasks = {p1, p2, p3}
  NoTask = NoTask
  PoolOwners = {"window", "other"}
INVARIANTS NoOrphanPromise
PROPERTIES  CallContract
CHECK_DEADLOCK FALSE
