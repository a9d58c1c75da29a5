SPECIFICATION Spec
CONSTANTS
  Escrows = {e1}
  Procs = {p1, p2}
  Total = 2
  BulkStatuses = {"funding_pending", "in_progress", "disputed"}
  MaxRequests = 4
INVARIANTS
  MoneyBehindStatus
  FundingOrder
CHECK_DEADLOCK FALSE
