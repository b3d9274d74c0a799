CONSTANTS
  i1 = i1
  i2 = i2
  i3 = i3
  Instance <- MCInstance
  UA_LOCK_STALE_SECONDS = 3
  MaxFaults = 2
SPECIFICATION FairLockSpec
INVARIANTS LockTypeOK MutualExclusion OwnerIsFresh
PROPERTY AbandonedLockExpires
