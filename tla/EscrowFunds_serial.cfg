SPECIFICATION Spec
CONSTANTS
  Escrows = {e1}
  Procs = {p1}
  Total = 6
  BulkStatuses = {}
  MaxRequests = 5
INVARIANTS
  TypeOK
  Conservation
  NoOverpayment
PROPERTIES
  AtomicSpec
CHECK_DEADLOCK FALSE
