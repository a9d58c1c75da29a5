SPECIFICATION FairSpec
CONSTANTS
  Jobs = {j1}
  Rows = {r1, r2}
  Workers = {w1, w2}
  NoJob = NoJob
  MaxStalledCount = 1
INVARIANTS
  TypeOK
  CompletedIsSettled
  SingleConsumerSettlesOnce
  AtMostTwice
PROPERTIES
  EventuallyProcessed
CHECK_DEADLOCK FALSE
