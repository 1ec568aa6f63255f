SPECIFICATION Spec
CONSTANTS
  Commands <- MCCommands
  CoolRate = 115200
  MaxID = 255
  NumMIDs = 3
  MaxTries = 2
  TxRoom = 3
  MaxCommands = 2
  MaxFaults = 1
  MaxEvents = 2
  MaxTraffic = 1
CHECK_DEADLOCK FALSE
INVARIANTS ExecutedInOrder SettingsAgree OverflowToldOnce
PROPERTIES AnsweredInSilence
