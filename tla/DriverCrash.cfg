SPECIFICATION Spec
CONSTANTS
  NTasks = 2
  Cell <- MCCell
  CellsOf <- MCCellsOf
  LangOf <- MCLangOf
  NWorkers = 2
  NCpus = 2
  CanPin = TRUE
  MaxDeaths = 1
  MaxSigints = 1
CHECK_DEADLOCK FALSE
INVARIANTS
  TypeOK
  OneHolderPerTask
  TableShowsCollected
  DedicatedCpu
  OnlyLossesBlock
PROPERTIES
  OverwritesAreShared
  TaskRuns
