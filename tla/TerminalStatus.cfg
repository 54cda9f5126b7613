SPECIFICATION Spec
CONSTANTS
  Worker = {w1, w2}
  MaxLines = 3
  MaxPrints = 2
  MaxInterrupts = 3
CHECK_DEADLOCK FALSE
INVARIANTS
  StatusMatchesScreen
  NothingPrintedOnStatus
PROPERTY
  ExitsUnlessLockIsLost
