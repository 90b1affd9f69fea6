SPECIFICATION FairSpec
CONSTANTS
  Addrs = {"a1", "a2"}
  Leases <- MCFinite
  W = 256
  CoarseSecs = 2
  MaxTimeout = 15
  MaxTries = 10
  Disturbed = TRUE
  LinkChanges = TRUE
INVARIANT TypeOK
INVARIANT NeverSilent
 
PROPERTY GetsAddress
