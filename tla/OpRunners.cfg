SPECIFICATION Spec
CONSTANTS
  Runner <- MCRunners
  Key <- MCKey
  Op = "build"
  RunCounts = {0, 1, 4}
  Dur <- MCDur
  FastDur = 2
  FastRuns = 3
  SlowDur = 3
  SlowRuns = 2
CHECK_DEADLOCK FALSE
INVARIANTS
  DurIsFastestOfWholeSeries
  RunMeasuresOwnArtifact
  NoSilentFailure
  RaisesAreExplained
  AdaptiveSeries
PROPERTIES
  RunSpec
