SPECIFICATION FairSpec
CONSTANTS
  c1 = c1
  c2 = c2
  c3 = c3
  m1 = m1
  m2 = m2
  p1 = p1
  p2 = p2
  Credits <- MCCredits
  Miners <- MCMiners
  MinerOf <- MCMinerOf
  ValidMiners <- MCValidMiners
  MinUnits = 2
  MaxBatches = 4
  Procs <- MCProcs
  ReplyLoss = FALSE
  MaxFaults = 2
INVARIANTS
  TypeOK
  CreditsConserved
  RefundedIsUnpaid
PROPERTIES
  LedgerSpec
  NothingSilentlyHeld
  PayableIsPaid
