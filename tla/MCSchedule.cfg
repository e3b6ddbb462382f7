SPECIFICATION Spec
CONSTANTS
  Proc = {p1, p2}
  p1 = p1
  p2 = p2
  Configs <- MCConfigs
  Tasks <- MCTasks
  This = "this"
  Runnable = {"this", "other"}
  BadTime = "24:00"
  MaxFaults = 2
  MaxCmds = 3
  Null = Null
INVARIANTS SuccessMatches LossNeedsTwoFailures RemovalExplained Converges IInv
SYMMETRY Sym
\* no more commands are started
CHECK_DEADLOCK FALSE
