SPECIFICATION EventsSpec
CONSTANTS
  l1 = l1
  l2 = l2
  l3 = l3
  Listeners = {l1, l2, l3}
  NoListener = none
  Names = {count, size}
  Defined = {count}
  Callbacks = {{"on", "off"}, {"on", "off", "set"}}
  MaxEvents = 3
  MaxNesting = 2
SYMMETRY ListenersAreAlike
INVARIANTS InOrderUnlessSet WatchedWhileListened
CHECK_DEADLOCK FALSE
