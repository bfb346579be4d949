SPECIFICATION FairSpec
CONSTANTS
  MaxFollows = 2
  MaxFaults = 1
INVARIANTS Settled BlockHolds 
PROPERTIES FollowAnswered
CHECK_DEADLOCK FALSE
