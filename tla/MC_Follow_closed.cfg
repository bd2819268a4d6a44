SPECIFICATION Spec
CONSTANTS
  Dests <- RumbleDests
  Channels = {"rumble"}
  ChannelOf <- RumbleChannelOf
  None = None
  Handoff = "single"
  LeaveMpv = FALSE
  MaxEvents = 1
  MaxReloads = 1
  MaxCrashes = 0
INVARIANTS PlayerClosed
CHECK_DEADLOCK FALSE
