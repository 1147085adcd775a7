SPECIFICATION JavaFairSpec
CONSTANTS
  BufSize = 2
  Spins = 2
  SndCap = 1
  Window = 3
  MaxBytes = 3
INVARIANT StrandedOnlyBySpin
PROPERTY WorkIsDone
PROPERTY JavaImplementsChannel
CHECK_DEADLOCK FALSE
