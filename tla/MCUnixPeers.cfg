SPECIFICATION FairSpec
CONSTANTS
  a = a
  b = b
  c = c
  Node = {a, b, c}
  Knows <- Chain
  MaxQueue = 2
INVARIANTS TypeOK GoodbyeHeeded
PROPERTIES LeavingEnds
CHECK_DEADLOCK FALSE
