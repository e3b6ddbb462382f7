SPECIFICATION Spec
CONSTANTS
  a = a
  b = b
  Null = Null
  NoOne = NoOne
  Runs = {r1, r2}
  Scheduled = {r1}
  Dry = {}
  Ips = {a, b}
  Printers <- TwoPrinters
  MaxConcurrency = 1
  Interval = 2
  MaxNow = 2
  MaxCount = 1
INVARIANTS SuccessHasRow HistoryOrdered
PROPERTIES LogSpec
\* every run may be over, the clock and the odometers at their bounds
CHECK_DEADLOCK FALSE
