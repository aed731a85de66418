SPECIFICATION Spec
CONSTANTS
  Bills = {1, 2}
  Rules = {3}
  StableId <- MCStableId
  FirstId = 1
  LastId = 3
  BillCap = 1
  TotalCap = 2
  Tasks = {t1, t2}
  None = None
  MaxDay = 2
  MaxChanges = 2
  MaxFaults = 1
SYMMETRY Symmetry
CONSTRAINT OverlapOrFault
INVARIANTS ManagedMatchesPlatform OffLeavesNothing NoBillUnreminded
CHECK_DEADLOCK FALSE
