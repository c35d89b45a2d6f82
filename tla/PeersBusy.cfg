SPECIFICATION FairSpec
CONSTANTS
  Node = {"a", "s"}
  Dial <- OneDial
  MaxIn = 1
  MaxOut = 1
  MaxEnds = 1
  MaxFailures = 0
  MaxSwitches = 1
PROPERTY LeavesWhenStopped
CHECK_DEADLOCK FALSE
