SPECIFICATION FairSpec
CONSTANTS
  alice = alice
  main = main
  Operators <- MCOperators
  InitialStates <- MCInitialStates
  MaxCommands = 3
INVARIANTS TypeOK LoopsObeyCommands
PROPERTIES ParkedPoolsRest DrainEnds ErrorRecovers CommandsReturn
CHECK_DEADLOCK FALSE
