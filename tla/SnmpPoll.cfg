SPECIFICATION Spec
CONSTANTS
  Retries = 2
  TimeoutTicks = 1
  Null = Null
INVARIANTS RequestBudget MissingMeansExhausted MetersWhenUnitKnown WaitBound IInv
PROPERTY Terminates
\* a poll that has ended does nothing more
CHECK_DEADLOCK FALSE
