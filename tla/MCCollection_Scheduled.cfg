SPECIFICATION Spec
CONSTANTS
  a = a
  b = b
  Null = Null
  NoOne = NoOne
  Runs = {r1, r2}
  Scheduled = {r1, r2}
  Dry = {}
  Ips = {a}
  Printers <- OnePrinter
  MaxConcurrency = 1
  Interval = 2
  MaxNow = 3
  MaxCount = 2
INVARIANTS ScheduledHistoryGrows IInv
\* every run may be over, the clock and the odometers at their bounds
CHECK_DEADLOCK FALSE
