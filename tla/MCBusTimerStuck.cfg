CONSTANTS
  PERIOD = 4
  WRAPS = 3
  SATURATED = 2
  IdleCounts = {1}
  DataBits = 0
  BIT = 2
  LOOK = 2
  ROUND = 3
SPECIFICATION TimerSpec
PROPERTIES
  IdleBusIsUsed
