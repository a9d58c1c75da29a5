SPECIFICATION FairSpec
CONSTANTS
  Events = {e1}
  Procs = {p1, p2}
  maxRetries = 2
  EditStatuses = {"pending"}
  MaxRequests = 3
  MaxFaults = 1
  
PROPERTY CreatedGetsHandled
CHECK_DEADLOCK FALSE
