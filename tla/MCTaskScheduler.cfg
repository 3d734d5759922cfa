SPECIFICATION Spec
CONSTANTS
  t1 = t1
  t2 = t2
  o1 = o1
  o2 = o2
  NoId = NoId
  NoObserver = NoObserver
  Ids <- MCIds
  Observers <- MCObservers
  MaxDelay = 1
  MaxCalls = 3
INVARIANTS CallbacksMatchTimers
PROPERTIES ObserversKeepUp TimersFire
