SPECIFICATION Spec
CONSTANTS
  Block <- MCBlock
  Genesis = "g"
  Parent <- MCParent
  Anc <- MCAnc
  Height <- MCHeight
  Work <- MCWork
  CumWork <- MCCumWork
  Rank <- MCRank
  Valid <- MCValid
  Time <- MCTime
  NoBlock = "none"
  MaxBranch = 1
  SnapshotLimit = 3
  MaxClock = 2
  MaxStepBacks = 0
  MaxFailures = 0
INVARIANTS NoReorgDepthCap
