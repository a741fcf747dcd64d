SPECIFICATION FairSpec
CONSTANTS
  c1 = c1
  c2 = c2
  backup1 = backup1
  writeback1 = writeback1
  writeback2 = writeback2
  Paths = {"a", "b"}
  Cached = {"a"}
  Clients <- TwoClients
  Threads <- ThreeThreads
  Type <- ThreeThreadsType
  Mfiles = {1, 2}
  Ops = {"writeback_fails"}
  MaxOpens = 1
  MaxApplies = 2
CHECK_DEADLOCK FALSE
INVARIANTS SyncAccounting NoBug
PROPERTIES ApplyEnds BackupsAnswered
