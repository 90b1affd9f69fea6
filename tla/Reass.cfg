SPECIFICATION FairSpec
CONSTANTS
  Keys = {"a", "b", "c"}
  Size <- MCSize
  Mtus = {2, 4}
  Block = 2
  BufSize = 1
  W = 16
  HeaderLength = 2
  MaxPbufs = 5
  NumReassdata = 2
  MaxAge = 2
INVARIANTS
  TypeOK
  CountExact
  DeliveredWhole
  NoneComplete
  FirstHeader
PROPERTIES
  SacrificesOldest
  ReassemblyEnds
