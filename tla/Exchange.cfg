SPECIFICATION FairSpec
CONSTANTS
  MsgLen = 3
  CmpLen = 2
  PathCap = 4
  MaxMsgs = 4
INVARIANT OneErrorPerConnection
INVARIANT TimersAreRight
INVARIANT MismatchNeedsShortWrite
PROPERTY EveryMessageIsSettled
CHECK_DEADLOCK FALSE
