SPECIFICATION FairSpec
CONSTANTS
  QUEUE_SIZE = 20
  MaxPacketID = 2
  MAX_232_RETRIES = 2
  Commands = {"ReceivePacket", "TransmitConfirm", "CANbusErr"}
  Disturbances = {"garbled", "noise", "ack", "late"}
  NaksPerFault = 2
  MaxPackets = 3
  MaxFaults = 2
  MaxRequests = 1
  LineSize = 2
PROPERTIES DeliveredOnceInOrder GivesUpAfterThree AnswersAreTrue EventuallySent
CHECK_DEADLOCK FALSE
