SPECIFICATION Spec
CONSTANTS
  Block <- SnapBlock
  Genesis = "g"
  Parent <- SnapParent
  Anc <- SnapAnc
  Height <- SnapHeight
  Work <- SnapWork
  CumWork <- SnapCumWork
  Rank <- SnapRank
  Valid <- SnapBlock
  Time <- SnapTime
  NoBlock = "none"
  MaxBranch = 9
  SnapshotLimit = 3
  MaxClock = 2
  MaxStepBacks = 0
  MaxFailures = 0
INVARIANTS TipHasSnapshot
