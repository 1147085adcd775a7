SPECIFICATION PerlFairSpec
CONSTANTS
  NThreads = 2
  MaxConnect = 2
  NConns = 3
INVARIANT ArraysAreRight
PROPERTY EveryoneIsServed
CHECK_DEADLOCK FALSE
