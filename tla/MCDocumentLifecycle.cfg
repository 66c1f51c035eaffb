SPECIFICATION MCSpec
CONSTANTS
  Worker = {w1, w2}
  Page = {p1, p2}
  MinPages = 2
  MaxRetries = 1
  MaxSent = 1
  MaxFaults = 1
INVARIANTS TypeOK ReadyIsIndexed NothingStays
CHECK_DEADLOCK FALSE
