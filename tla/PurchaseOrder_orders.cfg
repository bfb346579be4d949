SPECIFICATION FairSpec
CONSTANTS
  MaxAttempts = 2
  MaxJobs = 1
  MaxFaults = 1
  MaxEvents = 3
INVARIANTS RefundedHasNoAccess PaidWasGranted 
PROPERTIES  PaymentIsSettled DeliveryEnds
CHECK_DEADLOCK FALSE
