SPECIFICATION FairSpec
CONSTANTS
  BufSize = 2
  TimeoutTicks = 2
  SndCap = 3
  Window = 3
  MaxBytes = 5
INVARIANT NoUseAfterFree
PROPERTY DropsOnlyForCause
PROPERTY ImplementsEchoChannel
PROPERTY EveryByteIsEchoed
CHECK_DEADLOCK FALSE
