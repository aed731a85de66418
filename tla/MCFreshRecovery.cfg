SPECIFICATION FairSpec
CONSTANTS
  None = None
  MaxVersion = 5
  MaxSessions = 3
  MaxKills = 3
  MaxFaults = 3
  Devices0 <- SoundDevices
  Damaged = {}
INVARIANTS
  TypeOK
PROPERTIES
  KeepsLedger
  ValidatedStays
  ImplementsDurableLedger
  MarkerResolved
