CONSTANTS
  ReadRequest = {r1}
  WriteRequest = {w1}
  Worker = {g1, g2}
  NoRequest = NoRequest
  Junk = Junk
  MaxAge = 1
  MAX_REQ = 1
  DbMayFail = FALSE
  TIMEOUT = 8
  MaxClock = 2
  NetworkMayLose = TRUE
SPECIFICATION FairSystemSpec
INVARIANTS
  AnsweredReadsAreLogged
PROPERTIES
  ReleaseAnswersQueue
CHECK_DEADLOCK FALSE
CONSTRAINT Calm
