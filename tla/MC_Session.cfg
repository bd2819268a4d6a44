SPECIFICATION Spec
CONSTANTS
  Accounts = {a, b}
  Channels = {c}
  Streams = {s, t}
  None = None
  MaxLogins = 1
  MaxSelects = 2
  MaxSends = 1
  MaxChanges = 3
SYMMETRY MCSymmetry
INVARIANTS IdentityOfBearer SessionIsSelected BusyIsWaiting OwnMessagesOnce RemovedIsErased
CHECK_DEADLOCK FALSE
