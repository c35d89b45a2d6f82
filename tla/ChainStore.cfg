SPECIFICATION FairSpec
CONSTANTS
  Block <- MCBlock
  Genesis = "g"
  Parent <- MCParent
  Anc <- MCAnc
  Height <- MCHeight
  Work <- MCWork
  CumWork <- MCCumWork
  Rank <- MCRank
  Valid <- MCValid
  Time <- MCTime
  NoBlock = "none"
  MaxBranch = 9
  SnapshotLimit = 3
  MaxClock = 2
  MaxStepBacks = 1
  MaxFailures = 2
INVARIANTS StoredChainsComplete LiveIsDurable BestUnlessInterrupted
PROPERTIES ImplementsForkChoice Recovers
