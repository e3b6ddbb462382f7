SPECIFICATION Spec
CONSTANTS
  Runs <- MCRuns
  GroupRoots <- MCGroupRoots
  Branches <- MCBranches
  Expand <- MCExpand
  Oids <- MCOids
  Types = {"Integer32", "EndOfMibView"}
  MaxHosts = 2
  MaxOids = 2
  Concurrency = 1
INVARIANTS IInv OidsOnceInOrder RootsReported HeaderHonest PlanIsBroadest
PROPERTY WalkEnds
\* the walk is over once it has exited
CHECK_DEADLOCK FALSE
