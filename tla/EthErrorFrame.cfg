SPECIFICATION Spec
CONSTANTS
  NumPackets = 3
  PoolSize = 4
  PoolBufSize = 592
  Lengths = {61}
  MaxRx = 1
  MaxTx = 0
  MmuStall = FALSE
  Identity <- MCKnown
INVARIANTS
  ErrorFrameTossed
