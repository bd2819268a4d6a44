CONSTANTS
  Conns = {c1, c2}
  MaxTexts = 1
SPECIFICATION Spec
PROPERTY StopEnds
CHECK_DEADLOCK FALSE
