SPECIFICATION FairSpec
CONSTANTS
  NumPackets = 3
  PoolSize = 4
  PoolBufSize = 592
  Lengths = {61}
  MaxRx = 2
  MaxTx = 2
  MmuStall = TRUE
  Identity <- MCIdentity
INVARIANTS
  WireInOrder
PROPERTIES
  TxBufferNeverFreed
  RxDrained
