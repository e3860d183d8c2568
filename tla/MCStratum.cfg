SPECIFICATION Spec
CONSTANTS
  m1 = m1
  Sessions <- MCSessions
  Qualities <- MCQualities
  Diffs <- MCDiffs
  StartDiff = 1
  NetworkDiff = 2
  MaxRemembered = 2
  MaxJobs = 3
  MaxSubs = 2
  MaxSends = 2
  MaxRetargets = 2
INVARIANTS TypeOK RememberedAcceptedOnce BlocksAreSubmitted MinersHaveCurrentJob ToldDifficultyCounts
CHECK_DEADLOCK FALSE
