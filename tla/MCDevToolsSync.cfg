SPECIFICATION SyncSpec
CONSTANTS
  c1 = c1
  c2 = c2
  c3 = c3
  Fns = {c1, c2, c3}
  NoFn = NoFn
  MaxQueue = 3
  MaxNesting = 2
  Stoppers = {"main", "other"}
  ShutdownBy = {"thread", "task"}
 
PROPERTIES RequestIsAnswered
CHECK_DEADLOCK FALSE
