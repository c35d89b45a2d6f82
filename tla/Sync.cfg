SPECIFICATION FairSpec
CONSTANTS
  Block <- MCBlock
  Genesis = "g"
  Parent <- MCParent
  Anc <- MCAnc
  Height <- MCHeight
  Work <- MCWork
  CumWork <- MCCumWork
  Rank <- MCRank
  Valid <- MCBlock
  Time <- MCTime
  Node = {"n1", "n2"}
  Dial <- Pair2
  Joined <- None
  Start <- StartForked
  Mined <- MinedNext
  MaxHeaders = 4
  DenseLocator = 1
  Capacity = 2
  MaxDrops = 2
  MaxRequests = 1
INVARIANTS StoredComplete QueueServed UndisturbedConverge
PROPERTIES Quiesces
CHECK_DEADLOCK FALSE
