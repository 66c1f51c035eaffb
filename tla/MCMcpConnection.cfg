SPECIFICATION Spec
CONSTANTS
  Binding = {i, j}
  Subject = {a}
  None = none
  MaxWrites = 6
  MaxFlows = 2
  MaxRefreshes = 2
  MaxEpoch = 3
SYMMETRY Symmetry
INVARIANTS TypeOK AuthorizationMatches
PROPERTIES StaysDown WinnerKept
CHECK_DEADLOCK FALSE
