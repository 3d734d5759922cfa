SPECIFICATION SharedSpec
CONSTANTS
  x = x
  a = a
  b = b
  w1 = w1
  w2 = w2
  main = main
  script = script
  Keys = {x}
  Vals = {a, b}
  Absent = Absent
  Workers = {w1}
  MainThread = main
  Script = script
  Writing = {{w1}, {main, script}}
  NoOp = NoOp
  NoFn = NoFn
  Fns <- Ops
  MaxDepth = 1
  MaxQueue = 2
  MaxNesting = 1
INVARIANTS SidesAgree
PROPERTIES PageCatchesUp
CHECK_DEADLOCK FALSE
