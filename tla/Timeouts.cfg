SPECIFICATION FairSpec
CONSTANTS
  W = 11
  Table <- MCTable
  OneShots <- MCOneShot
  Interval <- MCInterval
  Delays <- MCDelays
  MaxInterval = 3
  MaxLate = 2
  PoolSize = 4
  CallRestart = TRUE
INVARIANTS
  TypeOK
  SortedByDueTime
  
  SleepTimeExact
PROPERTIES
  FiresOnlyExpired
  CyclicKeepsPace
  CyclicFires
  TcpTimerStops
