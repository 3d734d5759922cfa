SPECIFICATION Spec
CONSTANTS
  None = None
  Clients = {c1, c2}
  Watcher = watcher
  MaxCalls = 3
  MaxEdits = 1
  MaxStarts = 2
  Ids <- AllIds
INVARIANTS OneRuntimeIsKnown StopLeavesNothing CommandRunsOnce
PROPERTIES SettledCloseIsKept EveryRequestEnds SeenEditIsBuilt
CHECK_DEADLOCK FALSE
