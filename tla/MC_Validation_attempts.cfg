SPECIFICATION Spec
CONSTANTS
  MaxRedirects = 3
  MaxLines = 3
INVARIANTS AttemptsReported
CHECK_DEADLOCK FALSE
