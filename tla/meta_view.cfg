SPECIFICATION Spec
CONSTANTS
  Names = {"b", "ab"}
  Cut <- Cuts
  MaxDepth = 3
  Source <- Deep
  Records = 11
  Block = 4
  Ops = {"flush", "handsup"}
  MaxChanges = 2
  MaxLinks = 1
INVARIANTS TypeOK RecordsAccounted HashesFollowPaths ViewIsKept LinksAreRings LookupsAreRight
