CONSTANTS
  TIMEOUT = 2
  MaxClock = 7
  MaxAnswers = 6
SPECIFICATION HistorySpec
INVARIANTS
  RowsOrdered
  RowsCountPrecedingAnswers
  FileIsPrefix
PROPERTY TimeoutFileMissesLastSecond
CHECK_DEADLOCK FALSE
