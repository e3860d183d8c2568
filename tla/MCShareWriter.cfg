SPECIFICATION FairSpec
CONSTANTS
  Shares <- MCShares
  QueueSize = 1
  BatchSize = 2
  MaxRetained = 1
  WALSize = 2
  DrainBatch = 1
  MayCrash = TRUE
  MaxFaults = 2
  MaxStops = 1
INVARIANTS
  TypeOK
  CountedOnce
  CountersTellTruth
PROPERTIES
  EventuallyStored
CHECK_DEADLOCK FALSE
