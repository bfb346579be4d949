SPECIFICATION FairSpec
CONSTANTS
  MaxSubs = 1
  MaxTime = 1
  MaxFaults = 1
  
PROPERTIES  KeptOutInTheEnd
CHECK_DEADLOCK FALSE
