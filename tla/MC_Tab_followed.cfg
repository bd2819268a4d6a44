SPECIFICATION FairSpec
CONSTANTS
  Dests <- MCDests
  None = None
  Sockets <- TwoSockets
  LoadsFail = FALSE
  MaxSelects = 2
  MaxCommands = 0
  MaxCrashes = 0
PROPERTIES TabIsFollowed
CHECK_DEADLOCK FALSE
