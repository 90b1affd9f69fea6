SPECIFICATION Spec
CONSTANTS
  Keys = {"a", "b", "c"}
  Size <- MCSize
  Mtus = {3}
  Block = 2
  BufSize = 1
  W = 16
  HeaderLength = 2
  MaxPbufs = 5
  NumReassdata = 2
  MaxAge = 2
INVARIANT DeliveredWhole
