SPECIFICATION FairSpec
CONSTANTS
  ClientsMax = 4
  NumThreads = 2
  Wrap = 8
  Rounds = 1
INVARIANT CountersAreExact
INVARIANT ErrorsFirstIsSound
PROPERTY AllConnectionsSettle
CHECK_DEADLOCK FALSE
