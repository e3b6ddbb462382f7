SPECIFICATION Spec
CONSTANTS
  Procs = {p1, p2}
  Selections = {{}, {"data"}, {"tasks", "config", "data", "logs"}}
  MaxNow = 1
  MaxCommands = 2
  MaxDepth = 2
PROPERTY NoneStranded
CHECK_DEADLOCK FALSE
