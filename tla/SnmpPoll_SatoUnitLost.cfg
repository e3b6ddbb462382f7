SPECIFICATION Spec
CONSTANTS
  Retries = 1
  TimeoutTicks = 1
  Null = Null
INVARIANT MetersStandardized
\* a poll that has ended does nothing more
CHECK_DEADLOCK FALSE
