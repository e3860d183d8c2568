SPECIFICATION FairSpec
CONSTANTS
  s1 = s1
  b1 = b1
  Shares <- MCShares
  Blocks <- MCBlocks
  SpoolMax = 1
  MaxFaults = 3
INVARIANTS TypeOK OutagesLoseNothing RepeatsAreFaults
PROPERTIES EventuallyPersisted
CHECK_DEADLOCK FALSE
