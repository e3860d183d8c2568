SPECIFICATION Spec
CONSTANTS
  alice = alice
  main = main
  Operators <- MCOperators
  InitialStates = {"active"}
  MaxCommands = 3
INVARIANT ActiveIsPolled
CHECK_DEADLOCK FALSE
