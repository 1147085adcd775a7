SPECIFICATION FairSpec
CONSTANTS
  MaxLength = 3
  SndCap = 2
  Window = 6
  MaxBytes = 6
INVARIANT OneReference
PROPERTY ImplementsEchoChannel
PROPERTY EveryByteIsEchoed
PROPERTY ClosedPeerIsReclaimed
CHECK_DEADLOCK FALSE
