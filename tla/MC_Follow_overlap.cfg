SPECIFICATION FairSpec
CONSTANTS
  Dests <- OneDest
  Channels = {"rumble"}
  ChannelOf <- OneChannelOf
  None = None
  Handoff = "overlap"
  LeaveMpv = TRUE
  MaxEvents = 2
  MaxReloads = 1
  MaxCrashes = 1
PROPERTIES LoopComesBack OpenedReaped
CHECK_DEADLOCK FALSE
