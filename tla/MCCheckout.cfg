SPECIFICATION Spec
CONSTANTS
  Plan = {x, y}
  NoPlan = none
  Kinds = {"plan", "pack", "license", "subscribe", "renew"}
  MaxPurchases = 2
  MaxRequests = 2
  MaxTime = 1
  MaxActs = 2
SYMMETRY Symmetry
INVARIANTS TypeOK GoodsArePaid
PROPERTIES MonthsKept
CHECK_DEADLOCK FALSE
