CONSTANTS
  PERIOD = 5
  WRAPS = 3
  SATURATED = 2
  IdleCounts = {1}
  DataBits = 1
  BIT = 2
  LOOK = 1
  ROUND = 3
SPECIFICATION TimerSpec
INVARIANT
  TimesAreTrue
PROPERTIES
  StartsOnIdleBus
  IdleBusIsUsed
