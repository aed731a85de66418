SPECIFICATION FairSpec
CONSTANTS
  None = None
  MaxVersion = 3
  MaxSessions = 2
  MaxKills = 0
  MaxFaults = 0
  Devices0 <- UsedDevices
  Damaged = {1}
PROPERTIES
  RecoveryRestores
