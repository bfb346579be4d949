SPECIFICATION FairSpec
CONSTANTS
  Archive = {a1, a2, a3}
  MaxActive = 2
  MaxSlots = 1
  MaxFaults = 1
INVARIANTS ActiveIsLimited BuildsAreCapped 
PROPERTIES ArchiveEnds
CHECK_DEADLOCK FALSE
