CONSTANTS
  ReadRequest = {r1}
  WriteRequest = {w1, w2}
  Worker = {g1, g2}
  NoRequest = NoRequest
  Junk = Junk
  MaxAge = 1
  MAX_REQ = 1
  DbMayFail = TRUE
  TIMEOUT = 1
  MaxClock = 4
SPECIFICATION GatewayHistorySpec
SYMMETRY Symmetry
INVARIANTS
  NothingLost
  AnsweredAtMostOnce
PROPERTY ImplementsService
CONSTRAINT Calm
CHECK_DEADLOCK FALSE
