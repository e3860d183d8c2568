SPECIFICATION Spec
CONSTANTS
  c1 = c1
  c2 = c2
  m1 = m1
  m2 = m2
  p1 = p1
  p2 = p2
  Credits <- MCCredits
  Miners <- MCMiners
  MinerOf <- MCMinerOf
  ValidMiners <- MCMiners
  MinUnits = 1
  MaxBatches = 4
  Procs <- MCProcs
  ReplyLoss = TRUE
  MaxFaults = 2
INVARIANTS
  RefundedIsUnpaid
