SPECIFICATION Spec
CONSTANTS
  NTasks = 2
  Cell = {}
  CellsOf <- NoCells
  LangOf <- MCLangOf
  NWorkers = 2
  NCpus = 2
  CanPin = FALSE
  MaxDeaths = 1
  MaxSigints = 0
CHECK_DEADLOCK FALSE
PROPERTIES EveryStepCounts OnlyLostTasksBlock
