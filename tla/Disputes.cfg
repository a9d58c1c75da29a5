SPECIFICATION FairSpec
CONSTANTS
  Arbitrators = {"a1","a2"}
  SuccessRates = {5}
  Tiers = {"junior"}
  Decisions = {"favor_claimant", "require_more_evidence"}
  maxCases = 1
  Procs = {p1, p2}
  MaxRequests = 4
INVARIANTS OneVoteEach 
PROPERTY RevealedIsDecided
CHECK_DEADLOCK FALSE
