CONSTANTS
  Conns = {c1, c2}
  MaxTexts = 1
SPECIFICATION Spec
INVARIANTS TypeOK ServedIsListed EndedIsForgotten
PROPERTY StopEndsOncePeersLeave
CHECK_DEADLOCK FALSE
