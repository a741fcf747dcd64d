SPECIFICATION Spec
CONSTANTS
  t1 = t1
  t2 = t2
  t3 = t3
  Threads <- ThreeThreads
  FDs <- MCFDs
  Errno = {1}
  Ops = {"read_real", "read_backing", "write", "backup", "writeback"}
  MaxOps = 1
SYMMETRY Symmetry
INVARIANTS TypeOK UseCountsHolders IoOnRightFile NoFdLeak
PROPERTY ImplementsDescriptors
\* A backup and a write-back of the file may wait for each other for ever.
CHECK_DEADLOCK FALSE
