SPECIFICATION Spec
CONSTANTS
  Worker = {w1}
  Expires = 4
  Lease = 1
  TurnLife = 2
  LockLife = 3
  Retain = 1
  MaxTime = 6
  MaxCrash = 1
INVARIANT ExpiredNeverSent
