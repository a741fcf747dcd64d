SPECIFICATION Spec
CONSTANTS
  c1 = c1
  c2 = c2
  Clients <- TwoClients
  Inodes = {1, 2}
  NBlocks = 3
  Size0 = 2
  Ops = {"grow", "writeback_fails", "create_fails"}
  MaxOpens = 1
  MaxWrites = 2
  MaxApplies = 2
SYMMETRY Symmetry
CHECK_DEADLOCK FALSE
INVARIANTS TypeOK ReadsAreFresh DoneMeansComplete WritebackIsComplete
