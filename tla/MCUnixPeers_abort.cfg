SPECIFICATION Spec
CONSTANTS
  a = a
  b = b
  c = c
  Node = {a, b}
  Knows <- Chain
  MaxQueue = 2
INVARIANTS NeverAborted
CHECK_DEADLOCK FALSE
