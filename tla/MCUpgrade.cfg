SPECIFICATION UpgradeSpec
CONSTANTS
  Word = 2
  Chunk = 4
  MaxCount = 39
  Page = 8
  FirmwareStartAddr = 1073750016
  FlashBase = 1073741824
  RegionSize = 131072
  MaxAttempts = 3
  MaxProbes = 3
  LinkerFiles <- MCLinkerFiles
  OldFile <- MCOldFile
  FlashSize = 11
  MaxFaults = 1
  MaxCuts = 1
  MaxSessions = 2
CHECK_DEADLOCK FALSE
INVARIANTS BootsOnlyWhole DoneMeansFlashed FilesAgree
PROPERTIES EventuallyUpgraded
