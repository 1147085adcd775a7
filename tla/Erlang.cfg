SPECIFICATION ErlangFairSpec
CONSTANTS
  MaxChildren = 2
  MsgLen = 2
  MaxSent = 2
INVARIANT LogIsExact
INVARIANT ErrorsHaveCause
PROPERTY RepliesCome
CHECK_DEADLOCK FALSE
