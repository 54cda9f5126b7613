SPECIFICATION Spec
CONSTANTS
  PipeCap = 2
  MaxPrints = 3
  ExitCode = {0, 1}
  SampleRate = {0, 1}
  MayDeny = TRUE
CHECK_DEADLOCK FALSE
INVARIANTS
  VerdictIsFate
  NothingOutlives
PROPERTIES
  AttemptSpec
  LimitEndsMeasurement
  OnlyKnownHangs
