SPECIFICATION Spec
CONSTANTS
  ToSendSize = 5
  LowWater = 2
  TimeoutTicks = 1
  MemcpyOrders = {"forward"}
  SndCap = 2
  Window = 8
  MaxBytes = 8
PROPERTY DropsOnlyForCause
CHECK_DEADLOCK FALSE
