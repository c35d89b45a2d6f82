SPECIFICATION ArithmeticSpec
CONSTANTS
  Addr = {1, 2, 3}
  InitialSubsidy = 20
  MinSubsidy = 3
  HalvingInterval = 2
  FinderPercent = 5
  MaxMoney = 1000
  MaxWeight = 4
  MaxSubsidy = 25
  MaxFees = 1
  Radix = 4
  Digits = 5
  InitialTarget = 63
  PowLimit = 255
  BlockTime = 3
  HalfLife = 7
  Frac = 4
  Factor <- MCFactor
  Multiplier = 3
  Invalid = Invalid
  MaxDelay = 40
  MaxParent = 24
  MaxLeaves = 4
  Messages <- MCMessages
  Symbol = {0, 1, 2, 3, 13}
  Limit <- MCLimit
INVARIANTS Proportional CompactRoundsDown FollowsSchedule Canonical RootInjective
CHECK_DEADLOCK FALSE
