CONSTANTS
  PERIOD = 6
  WRAPS = 4
  SATURATED = 3
  IdleCounts = {1}
  DataBits = 1
  BIT = 2
  LOOK = 1
  ROUND = 4
SPECIFICATION TimerSpec
INVARIANTS
  EdgeTimeIsTrue
