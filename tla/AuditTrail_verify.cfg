SPECIFICATION Spec
CONSTANTS
  Procs = {p1, p2}
  MaxRequests = 4
  MaxDisturbed = 4
  Users = {"u1", "u2"}
  Entries = {"get", "post"}
INVARIANTS UntouchedVerifies
CHECK_DEADLOCK FALSE
