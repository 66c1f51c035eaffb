SPECIFICATION Spec
CONSTANTS
  Worker = {w1, w2}
  Expires = 3
  Lease = 1
  TurnLife = 2
  LockLife = 2
  Retain = 3
  MaxTime = 4
  MaxCrash = 1
INVARIANTS TypeOK AtMostOnce DecisionHolds HoldIsClosed
PROPERTIES ImplementsApprovedWrite Resolved RefusalIsShown
