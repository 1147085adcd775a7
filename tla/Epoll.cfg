SPECIFICATION FairSpec
CONSTANTS
  BufSize = 2
  SndCap = 4
  Window = 4
  MaxBytes = 7
INVARIANT StuckOnlyAfterFullRead
PROPERTY ClosesOnlyAtEnd
PROPERTY ImplementsEchoChannel
PROPERTY EveryByteIsEchoed
CHECK_DEADLOCK FALSE
