SPECIFICATION FairSpec
CONSTANTS
  Worker = {w1, w2}
  NoLock = NoLock
  LockTTL = 3
  MaxAge = 1
  MaxLate = 2
  MaxFaults = 1
PROPERTIES  ReleaseOnlyOwnLock  AttachedIsDriven 
