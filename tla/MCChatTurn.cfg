SPECIFICATION Spec
CONSTANTS
  Worker = {w1, w2}
  TTL = 1
  MaxMessage = 2
  MaxFault = 1
INVARIANTS TypeOK TurnsStandAlone CompletedIsCharged OneAnswer NoForgottenHold
PROPERTIES LockComesFree AbandonedIsHealed HoldsClosed
