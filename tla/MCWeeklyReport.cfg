SPECIFICATION Spec
CONSTANTS
  Ips = {a, b}
  None = None
  DayHours = 2
  WeekDays = 2
  Midnights <- MCMidnights
  MaxNow = 6
  MaxWait = 1
  MaxCount = 1
  MaxRows = 3
SYMMETRY Sym
INVARIANTS IInv LinesExact NothingOvercounted RowsOfTheRange WeekDated
\* the clock, the odometers and the table at their bounds, the report over
CHECK_DEADLOCK FALSE
