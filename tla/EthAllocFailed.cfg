SPECIFICATION Spec
CONSTANTS
  NumPackets = 4
  PoolSize = 4
  PoolBufSize = 592
  Lengths = {61}
  MaxRx = 4
  MaxTx = 0
  MmuStall = FALSE
  Identity <- MCKnown
INVARIANTS
  ResetReportsFailure
