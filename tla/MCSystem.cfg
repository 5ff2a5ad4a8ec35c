CONSTANTS
  ReadRequest = {r1, r2}
  WriteRequest = {w1}
  Worker = {g1}
  NoRequest = NoRequest
  Junk = Junk
  MaxAge = 5
  MAX_REQ = 1
  DbMayFail = TRUE
  TIMEOUT = 8
  MaxClock = 1
  NetworkMayLose = TRUE
SPECIFICATION FairSystemSpec
PROPERTIES
  NoHandlerHangs
CHECK_DEADLOCK FALSE
