SPECIFICATION Spec
CONSTANTS
  main = main
  other = other
  w1 = w1
  w2 = w2
  Threads <- BothThreads
  Flushers = {main}
  MainThread = main
  Paths <- TwoPaths
  Subs = {}
  PathOf <- NoSub
  ModeOf <- NoSub
  FlushLimit = 1
  MaxRevision = 2
  MaxDepth = 1
  Watchers = {w1, w2}
  WatchedPath <- BothWatchOne
  CallbackMay = {"flush", "unwatch"}
  NoThread = NoThread
INVARIANTS WatcherIsTold NoCallAfterUnwatch
 
CHECK_DEADLOCK FALSE
