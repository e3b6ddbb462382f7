SPECIFICATION Spec
CONSTANTS
  a = a
  b = b
  Null = Null
  NoOne = NoOne
  Runs = {r1, r2}
  Scheduled = {}
  Dry = {r2}
  Ips = {a}
  Printers <- SharedIp
  MaxConcurrency = 2
  Interval = 2
  MaxNow = 0
  MaxCount = 0
INVARIANT SummaryAddsUp
PROPERTY RunsSettle
\* every run may be over, the clock and the odometers at their bounds
CHECK_DEADLOCK FALSE
