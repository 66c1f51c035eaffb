SPECIFICATION Spec
CONSTANTS
  Processes = 2
  MaxRows = 2
  MaxAttempts = 2
  Ttl = 2
  Lease = 1
  Limit = 1
  MaxFaults = 1
  Garbled = FALSE
INVARIANTS TypeOK SentOnce
PROPERTIES InOrder ImplementsOutbox Settles
CHECK_DEADLOCK FALSE
