SPECIFICATION Spec
CONSTANTS
  Accounts = {a}
  Channels = {c}
  Streams = {s, t}
  None = None
  MaxLogins = 0
  MaxSelects = 1
  MaxSends = 1
  MaxChanges = 3
SYMMETRY MCSymmetry
INVARIANT AmbiguousShown
CHECK_DEADLOCK FALSE
