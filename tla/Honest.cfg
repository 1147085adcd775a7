SPECIFICATION FairSpec
CONSTANTS
  ToSendSize = 4
  LowWater = 2
  TimeoutTicks = 1
  MemcpyOrders = {"forward"}
  SndCap = 1
  Window = 6
  MaxBytes = 6
INVARIANT BufferBounds
INVARIANT OwedBytesAreWatched
INVARIANT NoUseAfterFree
PROPERTY DropsForCauseOrFull
PROPERTY ImplementsEchoChannel
PROPERTY EveryByteIsEchoed
PROPERTY ClosedPeerIsReclaimed
CHECK_DEADLOCK FALSE
