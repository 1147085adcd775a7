SPECIFICATION FairSpec
CONSTANTS
  Threads <- MCThreads
  Conns = {c1, c2, c3}
  Backlog = 2
  MaxFds = 2
INVARIANT OneOwner
PROPERTY QueueIsServed
CHECK_DEADLOCK FALSE
