SPECIFICATION Spec
CONSTANTS
  Plan = {x}
  NoPlan = none
  Kinds = {"subscribe", "renew"}
  MaxPurchases = 2
  MaxRequests = 2
  MaxTime = 0
  MaxActs = 0
INVARIANTS FulfilledOnce
CHECK_DEADLOCK FALSE
