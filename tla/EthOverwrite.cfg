SPECIFICATION Spec
CONSTANTS
  NumPackets = 3
  PoolSize = 4
  PoolBufSize = 592
  Lengths = {61}
  MaxRx = 0
  MaxTx = 2
  MmuStall = FALSE
  Identity <- MCKnown
INVARIANTS
  PreviousPacketGone
