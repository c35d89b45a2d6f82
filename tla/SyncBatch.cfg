SPECIFICATION Spec
CONSTANTS
  Block <- MCBlock
  Genesis = "g"
  Parent <- MCParent
  Anc <- MCAnc
  Height <- MCHeight
  Work <- MCWork
  CumWork <- MCCumWork
  Rank <- MCRank
  Valid <- MCBlock
  Time <- MCTime
  Node = {"n1", "n2"}
  Dial <- Pair2
  Joined <- None
  Start <- StartForked
  Mined <- MinedNone
  MaxHeaders = 2
  DenseLocator = 1
  Capacity = 4
  MaxDrops = 0
  MaxRequests = 0
INVARIANTS Converged
CHECK_DEADLOCK FALSE
