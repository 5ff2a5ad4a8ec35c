CONSTANTS
  Write = {c1, c2, c3, c4}
  NoWrite = NoWrite
SPECIFICATION FairSpec
INVARIANTS
  TypeOK
  OneAckProcess
  FlagHasAckProcess
PROPERTIES
  ReturnIsCovered
  EveryWriteReturns
CHECK_DEADLOCK FALSE
