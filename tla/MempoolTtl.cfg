SPECIFICATION Spec
CONSTANTS
  Addr = {1, 2}
  Tx <- TxSmall
  NoTx = NoTx
  Client = {c1}
  Genesis <- MCGenesis
  MinRelayFee = 1
  DustLimit = 1
  MaxMempoolBytes = 3
  MaxNonceGap = 1
  TtlSeconds = 0
  RbfPercent = 10
  MaxNonce = 2
  MaxBlocks = 3
  MaxNow = 1
INVARIANTS NothingOutlivesTtl
CHECK_DEADLOCK FALSE
