CONSTANTS
  ReadRequest = {r1}
  WriteRequest = {w1}
  Worker = {g1}
  NoRequest = NoRequest
  Junk = Junk
  MaxAge = 5
  MAX_REQ = 1
  DbMayFail = FALSE
  TIMEOUT = 8
  MaxClock = 0
  NetworkMayLose = FALSE
SPECIFICATION FairSystemSpec
PROPERTIES
  EveryRequestAnswered
CHECK_DEADLOCK FALSE
