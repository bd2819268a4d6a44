SPECIFICATION FairSpec
CONSTANTS
  Dests <- MCDests
  None = None
  Sockets <- TwoSockets
  LoadsFail = TRUE
  MaxSelects = 1
  MaxCommands = 1
  MaxCrashes = 1
INVARIANTS NeverGivesUp SendsGoSomewhere
PROPERTIES TabIsHeard
CHECK_DEADLOCK FALSE
