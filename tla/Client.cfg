SPECIFICATION FairSpec
CONSTANTS
  ReqLen = 2
  RecvSize = 3
  Interval = 1
  MaxClients = 2
  SndCap = 3
  MaxTime = 4
INVARIANT NoUseAfterFree
INVARIANT SamplesAreSound
PROPERTY DropsOnlyForCause
PROPERTY RequestsAreSent
CHECK_DEADLOCK FALSE
