SPECIFICATION Spec
CONSTANTS
  Paths = {1, 2, 3, 4, 5, 6, 7, 8, 9, 10, 11, 12}
  Root = 5
  Hash <- Mixed
  Ops = {"rename"}
CHECK_DEADLOCK FALSE
INVARIANTS TypeOK RedBlackTree 
