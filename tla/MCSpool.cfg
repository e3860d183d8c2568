SPECIFICATION FairSpec
CONSTANTS
  MaxRecords = 4
  MaxBytes = 6
  BatchSize = 2
  MaxFaults = 3
INVARIANTS TypeOK AckedIsKept HandedInOrder RepeatsAreFaults
PROPERTIES EventuallyHanded HandleHeals
CHECK_DEADLOCK FALSE
