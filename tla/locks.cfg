SPECIFICATION Spec
CONSTANTS
  c1 = c1
  c2 = c2
  c3 = c3
  NONE = NONE
  Clients <- TwoClients
  Calls <- AllCalls
  MaxCalls = 1
  MaxTicks = 1
SYMMETRY Symmetry
INVARIANTS NoCircularWait  AsAsserted
