CONSTANTS
  ReadRequest = {r1}
  WriteRequest = {w1}
  Worker = {g1, g2}
  NoRequest = NoRequest
  Junk = Junk
  MaxAge = 0
  MAX_REQ = 0
  DbMayFail = TRUE
  TIMEOUT = 0
  MaxClock = 1
SPECIFICATION FairGatewaySpec
INVARIANTS
  TypeOK
  AnsweredOnlyAfterQuery
  AnsweredReadsArePosted
PROPERTY EveryHandlerReturns
CHECK_DEADLOCK FALSE
