SPECIFICATION FairSpec
CONSTANTS
  Dests <- RumbleDests
  Channels = {"rumble"}
  ChannelOf <- RumbleChannelOf
  None = None
  Handoff = "single"
  LeaveMpv = FALSE
  MaxEvents = 1
  MaxReloads = 1
  MaxCrashes = 0
PROPERTIES StaleReaped
CHECK_DEADLOCK FALSE
