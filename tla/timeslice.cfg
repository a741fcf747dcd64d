SPECIFICATION Spec
CONSTANTS
  c1 = c1
  c2 = c2
  f1 = f1
  f2 = f2
  f3 = f3
  NULL = NULL
  Clients <- TwoClients
  Files <- ThreeFiles
  NB = 3
  TTL0 = 1
  Ops = {}
SYMMETRY Symmetry
INVARIANTS TypeOK ListsAreSound DescriptorsDieWithFiles DescriptorsAreAwaited
PROPERTY FreshFilesAreSpared
