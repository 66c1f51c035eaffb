SPECIFICATION MCSpec
CONSTANTS
  Worker = {w1}
  Page = {p1, p2}
  MinPages = 2
  MaxRetries = 1
  MaxSent = 1
  MaxFaults = 0
INVARIANTS NotReindexed
CHECK_DEADLOCK FALSE
