SPECIFICATION FairSpec
CONSTANTS
  Last = 2
  Procs = {p1, p2}
  maxRetries = 1
  MaxRequests = 2
  MaxOverlapping = 1
INVARIANTS CompletedLeftNoneOut CompensatedWasCarriedOut 
PROPERTIES CancelRespectsEnd SagaEnds
CHECK_DEADLOCK FALSE
