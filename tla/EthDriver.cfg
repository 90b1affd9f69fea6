SPECIFICATION Spec
CONSTANTS
  NumPackets = 4
  PoolSize = 4
  PoolBufSize = 592
  Lengths <- MCLengths
  MaxRx = 3
  MaxTx = 1
  MmuStall = FALSE
  Identity <- MCKnown
INVARIANTS
  TypeOK
  BankIsTwo
  
  PacketsConserved
  InputInOrder
  ErrorsStayOut
  FramesAccounted
PROPERTIES
  ImplementsFrameQueue
