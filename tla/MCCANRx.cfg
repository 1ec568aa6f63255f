SPECIFICATION FairSpec
CONSTANTS
  CAN_QUEUE_SIZE = 3
  MaxArrivals = 4
  MaxCommands = 2
INVARIANT RingSound
PROPERTIES ForwardsWhole EventuallyDrained
