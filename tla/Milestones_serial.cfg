SPECIFICATION FairSpec
CONSTANTS
  Last = 4
  Planned = 2
  AutoApprove = {1}
  EditStatuses = {}
  Procs = {p1}
  MaxStalledCount = 0
  MaxRequests = 5
PROPERTIES
  PromiseSpec
  ApprovedGetsCompleted
CHECK_DEADLOCK FALSE
