SPECIFICATION FairSpec
CONSTANTS
  p1 = p1
  p2 = p2
  f1 = f1
  s1 = s1
  i1 = i1
  CloseInput = close
  WakeEvent = wake
  NoEvent = none
  Modes = {"run", "wait", "poll"}
  Posters = {p1}
  Finishers = {f1}
  Stoppers = {s1}
  Inputs = {close}
  MayFill = {"wait", "poll"}
  SdlMax = 1
  MaxPosts = 2
  MaxDue = 1
INVARIANTS RunNeverSleepsWithWork
PROPERTIES PostedRuns QuitEnds
