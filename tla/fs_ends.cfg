SPECIFICATION FairSpec
CONSTANTS
  t1 = t1
  t2 = t2
  t3 = t3
  Threads <- TwoThreads
  FDs <- MCFDs
  Errno = {1}
  Ops = {"read_real", "read_backing", "write", "backup"}
  MaxOps = 2
CHECK_DEADLOCK FALSE
PROPERTY OperationsEnd
