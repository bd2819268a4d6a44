SPECIFICATION Spec
CONSTANTS
  Dests <- MCDests
  Channels <- MCChannels
  ChannelOf <- MCChannelOf
  None = None
  Handoff = "single"
  LeaveMpv = FALSE
  MaxEvents = 2
  MaxReloads = 1
  MaxCrashes = 1
INVARIANTS NoOrphanReader FifoTracked ReaderOnChannel CleanShutdown
PROPERTIES HandoffKept
CHECK_DEADLOCK FALSE
