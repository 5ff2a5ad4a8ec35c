CONSTANTS
  Thread = {t1, t2}
  TIMEOUT = 2
  MaxClock = 7
  MaxResponses = 4
SYMMETRY Symmetry
SPECIFICATION Spec
INVARIANTS
  NotedBeforeCheck
  FileIsPrefix
  RowsAreNotedArrivals
PROPERTY OnlySilenceWrites
CHECK_DEADLOCK FALSE
