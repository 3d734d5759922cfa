SPECIFICATION GraphSpec
CONSTANTS
  main = main
  other = other
  s1 = s1
  Threads <- BothThreads
  Flushers <- BothThreads
  MainThread = main
  Paths <- BothPaths
  Subs = {s1}
  PathOf <- OnA
  ModeOf <- Subtree
  FlushLimit = 1
  MaxRevision = 3
  MaxDepth = 1
INVARIANTS ChangeIsTracked NoStaleCall BatchHidesMutations
 
CHECK_DEADLOCK FALSE
