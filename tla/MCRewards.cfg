SPECIFICATION FairSpec
CONSTANTS
  b1 = b1
  b2 = b2
  p1 = p1
  p2 = p2
  Blocks <- MCBlocks
  Miners <- MCMiners
  BlockInfo <- MCBlockInfo
  ShareTable <- MCShareTable
  LateShares = {2}
  FeePercent = 30
  MaturityDepth = 2
  OrphanDepth = 1
  PageSize = 1
  Schemes = {"solo", "prop", "pplns"}
  Processors <- MCProcessors
  MaxHeight = 3
  MaxReorg = 1
  MaxFaults = 1
INVARIANTS TypeOK BookedOnce VerdictsHold WindowHasNoHoles
PROPERTIES MatureIsRewarded StaleIsOrphaned
CHECK_DEADLOCK FALSE
