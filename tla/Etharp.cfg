SPECIFICATION FairSpec
CONSTANTS
  TableSize = 2
  MaxAge = 3
  AgeUnicast = 1
  AgeBroadcast = 2
  MaxPending = 2
  Local <- MCLocal
  LinkLocal <- MCLinkLocal
  Remote <- MCRemote
  Macs = {"m1", "m2"}
  Senders <- MCSenders
  Configs <- MCConfigs
  Watched = "gw"
INVARIANT TypeOK
INVARIANT OneEntryPerAddress
INVARIANT QueuedOnItsHop
INVARIANT PacketsConserved
INVARIANT FramesToLearned
PROPERTY PacketsSacrificedLast
PROPERTY PendingEnds
CHECK_DEADLOCK FALSE
