SPECIFICATION Spec
CONSTANTS
  None = None
  Torn = Torn
  Modes = {"android", "ios"}
  PartialCopies <- MCPartialCopies
  EditedFiles = {"gradle"}
  MaxScripts = 3
  MaxEdits = 1
  MaxKills = 1
  MaxShellEdits = 1
INVARIANTS
  TypeOK
  EvidenceNamesWhatWasBuilt
  ShipsHardened
  CalmRunsPass
PROPERTIES
  ReadyIsEarned
CHECK_DEADLOCK FALSE
