SPECIFICATION Spec
CONSTANTS
  NRequest = 2
  NGrant = 2
  MaxTime = 1
  WindowStart <- MCWindowStart
  Limits <- MCLimits
  Estimates = {1, 3}
  Actuals = {0, 2, 5}
  GrantAmounts = {1, 2}
INVARIANTS TypeOK   ChargedExactly
PROPERTIES NeverOverLimit OldestGrantFirst CreditIsLastResort ImplementsPurse
