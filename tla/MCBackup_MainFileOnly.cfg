SPECIFICATION Spec
CONSTANTS
  Procs = {p1, p2}
  Collectors = {p1, p2}
  Keep = 1
  Faults = {"kill"}
  Start = 1
  MaxNow = 3
  MaxRows = 1
INVARIANT BackupHasCommitted
CHECK_DEADLOCK FALSE
