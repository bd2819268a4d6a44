SPECIFICATION Spec
CONSTANTS
  Dests <- RumbleDests
  Channels = {"rumble"}
  ChannelOf <- RumbleChannelOf
  None = None
  Handoff = "single"
  LeaveMpv = FALSE
  MaxEvents = 3
  MaxReloads = 1
  MaxCrashes = 0
INVARIANTS AlreadyFollowingTrue
CHECK_DEADLOCK FALSE
