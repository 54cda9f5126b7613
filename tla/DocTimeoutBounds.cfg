SPECIFICATION Spec
CONSTANTS
  PipeCap = 1
  MaxPrints = 2
  ExitCode = {0, 1}
  SampleRate = {1}
  MayDeny = FALSE
CHECK_DEADLOCK FALSE
PROPERTY TimeoutBounds
