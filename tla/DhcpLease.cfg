SPECIFICATION Spec
CONSTANTS
  Addrs = {"a1", "a2"}
  Leases <- MCLong
  W = 256
  CoarseSecs = 2
  MaxTimeout = 15
  MaxTries = 10
  Disturbed = TRUE
  LinkChanges = TRUE
INVARIANT AddressWithinLease
