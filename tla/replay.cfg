SPECIFICATION Spec
CONSTANTS
  c1 = c1
  c2 = c2
  a = a
  b = b
  x = x
  n1 = n1
  n2 = n2
  NONE = NONE
  DIR = DIR
  Clients <- TwoClients
  Names <- TwoNames
  Depth2 <- OneBelow
  NamePrefix <- NoPrefix
  Nodes <- TwoNodes
  Starts <- TwoStarts
  Ops = {}
  MaxCalls = 4
  MaxApplies = 2
  MaxVer = 2
SYMMETRY Symmetry
INVARIANTS TypeOK ReplayGivesTheView  DataIsOwed
PROPERTY ImplementsMirror
CHECK_DEADLOCK FALSE
