SPECIFICATION Spec
CONSTANTS
  Last = 1
  Planned = 0
  AutoApprove = {1}
  EditStatuses = {"under_review", "approved"}
  Procs = {p1, p2}
  MaxStalledCount = 1
  MaxRequests = 5
INVARIANTS
  TypeOK
  PaidOnApproval
  CompletedIsPaid
CHECK_DEADLOCK FALSE
