SPECIFICATION Spec
CONSTANTS
  b1 = b1
  b2 = b2
  p1 = p1
  p2 = p2
  Blocks <- MCBlocks
  Miners <- MCMiners
  BlockInfo <- MCBlockInfo
  ShareTable <- MCShareTable
  LateShares = {2}
  FeePercent = 30
  MaturityDepth = 2
  OrphanDepth = 1
  PageSize = 1
  Schemes = {"pplns"}
  Processors <- MCOneProcessor
  MaxHeight = 3
  MaxReorg = 1
  MaxFaults = 0
INVARIANT WalkIsExhaustive
CHECK_DEADLOCK FALSE
