CONSTANTS
  Messages <- MCMessages
  SA <- MCSA
  DA <- MCDA
  IsBAM <- MCIsBAM
  Packets <- MCPackets
  Window <- MCWindow
  Addresses = {9}
  MaxFaults = 1
SPECIFICATION Spec
INVARIANTS Intact AcknowledgedIsHandedOver
PROPERTY Recovered
CHECK_DEADLOCK FALSE
