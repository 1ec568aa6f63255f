SPECIFICATION FairSpec
CONSTANTS
  J1708_TX_QUEUE_SIZE = 3
  J1708_RX_QUEUE_SIZE = 3
  Lengths = {2, 3}
  MaxAccepted = 2
  MaxFrames = 2
  MaxFaults = 1
  MaxSettings = 1
  MaxResets = 1
PROPERTIES NothingLost ToldOnceInOrder FrameKept NothingWaitsForEver
CHECK_DEADLOCK FALSE
