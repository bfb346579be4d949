SPECIFICATION Spec
CONSTANTS
  MaxAttempts = 1
  MaxJobs = 1
  MaxEvents = 2
  MaxFaults = 0
INVARIANT OutOfOrderIsSafe
CHECK_DEADLOCK FALSE
