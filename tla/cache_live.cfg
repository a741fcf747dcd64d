SPECIFICATION FairSpec
CONSTANTS
  c1 = c1
  c2 = c2
  Clients <- TwoClients
  Inodes = {1, 2}
  NBlocks = 2
  Size0 = 2
  Ops = {"backup_fails", "cleanup_cache"}
  MaxOpens = 1
  MaxWrites = 1
  MaxApplies = 0
CHECK_DEADLOCK FALSE
PROPERTY WritesAreAnswered
