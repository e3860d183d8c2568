SPECIFICATION FairSpec
CONSTANTS
  c1 = c1
  c2 = c2
  ip1 = ip1
  Conns <- MCConns
  IPs <- MCIPs
  IPOf <- MCIPOf
  Notifiers <- MCNotifiers
  Caps <- MCCaps
  MalformedPerConn = 2
  MalformedThreshold = 3
  CheckThreshold = 2
  InvalidPercent = 50
  MaxInputs = 4
  MaxFaults = 1
INVARIANTS TypeOK RegistryIsTrue
PROPERTIES ShutdownEnds
CHECK_DEADLOCK FALSE
