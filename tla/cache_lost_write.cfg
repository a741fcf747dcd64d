SPECIFICATION Spec
CONSTANTS
  c1 = c1
  c2 = c2
  Clients <- OneClient
  Inodes = {1, 2}
  NBlocks = 2
  Size0 = 2
  Ops = {}
  MaxOpens = 1
  MaxWrites = 2
  MaxApplies = 1
CHECK_DEADLOCK FALSE
INVARIANT ModificationsAreJournaled
