SPECIFICATION Spec
CONSTANTS
  c1 = c1
  c2 = c2
  backup1 = backup1
  writeback1 = writeback1
  writeback2 = writeback2
  Paths = {"a"}
  Cached = {}
  Clients <- TwoClients
  Threads <- TwoThreads
  Type <- TwoThreadsType
  Mfiles = {1, 2}
  Ops = {"unlink", "apply_empty", "backup_fails", "writeback_fails", "create_fails"}
  MaxOpens = 2
  MaxApplies = 2
SYMMETRY Symmetry
CHECK_DEADLOCK FALSE
INVARIANTS TypeOK NoUseAfterFree QueueMatchesSem
