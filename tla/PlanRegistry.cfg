SPECIFICATION Spec
CONSTANTS
  Registry <- LANGUAGES
  Request <- MCRequest
  Meaning <- MCMeaning
  Machine <- MCMachine
CHECK_DEADLOCK FALSE
INVARIANTS
  PlanIsExact
  LimitsDoNotLeak
  CapShrinks
  ProgramsAreClosed
  OwnVersionProbe
  PoolFitsCpus
