SPECIFICATION FairSpec
CONSTANTS
  Events = {1,3}
  batchSize = 2
  Syncs = {s1, s2}
  MaxHead = 3
  MaxRestarts = 1
INVARIANTS  NoDuplicateRows
 
CHECK_DEADLOCK FALSE
