CONSTANTS
  QUEUE_SIZE = 4
  FIFO = 2
  Lengths = {2, 3}
  MaxTransmits = 2
  MaxArrived = 4
  MaxErrors = 1
  MaxChanges = 1
SPECIFICATION PortSpec
CHECK_DEADLOCK FALSE
INVARIANT
  BytesInOrder
PROPERTIES
  AnswerIsOut
  NeverHangs
