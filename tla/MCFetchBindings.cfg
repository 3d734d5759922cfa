SPECIFICATION Spec
CONSTANTS
  Workers = {w1, w2}
  Callers = {main, other}
  Owner = main
  Tasks = {p1, p2, t1, t2}
  Requests = {p1, p2}
  NoTask = NoTask
  PoolOwners = {"window", "other"}
INVARIANTS NoLostNotify
PROPERTIES EveryFetchSettles FetchContract PoolContract
CHECK_DEADLOCK FALSE
