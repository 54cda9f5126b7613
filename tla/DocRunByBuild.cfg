SPECIFICATION Spec
CONSTANTS
  NTasks = 2
  Cell <- MCCell
  CellsOf <- MCCellsOf
  LangOf <- MCLangOf
  NWorkers = 2
  NCpus = 2
  CanPin = TRUE
  MaxDeaths = 0
  MaxSigints = 0
CHECK_DEADLOCK FALSE
INVARIANT DocRunByBuild
