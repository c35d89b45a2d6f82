SPECIFICATION Spec
CONSTANTS
  Addr = {1, 2, 3}
  InitialSubsidy = 20
  MinSubsidy = 12
  HalvingInterval = 2
  FinderPercent = 5
  MaxMoney = 100
  Tx <- MCTx
  Witness <- MCWitness
  Maturity = 2
  Window = 2
  MaxBlockTxs = 2
  NoLeaf = NoLeaf
  MaxHeight = 4
INVARIANTS RootCommitsToState NoRewardLeftBehind NoReplay Conservation MaturityLock HistoryAddsUp
CHECK_DEADLOCK FALSE
