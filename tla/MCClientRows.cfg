CONSTANTS
  Thread = {t1}
  TIMEOUT = 2
  MaxClock = 8
  MaxResponses = 5
SPECIFICATION Spec
INVARIANTS
  FrontRowsAreResponses
CHECK_DEADLOCK FALSE
