SPECIFICATION Spec
CONSTANTS
  None = None
  SystemNames <- MCNames
  Legacy <- MCLegacy
  MaxStops = 2
INVARIANTS
  TypeOK
  ResumedAsUninterrupted
  EntriesKept
  RestoreAgrees
  AuditHolds
PROPERTY
  OpensAtLast
CHECK_DEADLOCK FALSE
