SPECIFICATION Spec
CONSTANTS
  Shares <- MCShares
  QueueSize = 1
  BatchSize = 2
  MaxRetained = 1
  WALSize = 2
  DrainBatch = 1
  MayCrash = FALSE
  MaxFaults = 2
  MaxStops = 1
INVARIANTS
  ShutdownKeepsShares
CHECK_DEADLOCK FALSE
