SPECIFICATION Spec
CONSTANTS
  None = None
  t1 = t1
  t2 = t2
  Tasks = {t1, t2}
  Kinds = {"BACKGROUND", "FORCED", "RESTORE", "WIPE"}
  Keep = 2
  MaxCommits = 2
  MaxTasks = 3
  MaxFaults = 2
  KeyAtStart = FALSE
SYMMETRY TaskSymmetry
INVARIANTS
  WipedIsGone
PROPERTIES
  PrunesSafely
  RestoreHasFallback
CHECK_DEADLOCK FALSE
