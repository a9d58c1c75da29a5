SPECIFICATION Spec
CONSTANTS
  Escrows = {e1}
  Procs = {p1, p2}
  Total = 2
  BulkStatuses = {}
  MaxRequests = 4
INVARIANTS
  NoOverpayment
CHECK_DEADLOCK FALSE
