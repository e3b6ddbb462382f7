SPECIFICATION Spec
CONSTANTS
  Procs = {p1, p2, p3}
  Collectors = {p1, p2, p3}
  Keep = 1
  Faults = {"kill", "corrupt", "io", "clock"}
  Start = 1
  MaxNow = 2
  MaxRows = 1
SYMMETRY Commands
INVARIANTS NewestSurvive ReadyHasCopy LimitUpToFailures AloneBackupWhole IInv
PROPERTY ForwardOldestFirst
CHECK_DEADLOCK FALSE
