SPECIFICATION FairSpec
CONSTANTS
  CAN_QUEUE_SIZE = 3
  MaxPktID = 4
  MaxAccepted = 3
  MaxOthers = 1
  MaxSettings = 1
  MaxRecoveries = 1
  MaxFaults = 1
CHECK_DEADLOCK FALSE
PROPERTIES
  ImplementsService
  ConfirmUnambiguous
  EventuallyTransmitted
