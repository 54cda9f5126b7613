SPECIFICATION Spec
CONSTANTS
  NTasks = 2
  Cell <- ApartCell
  CellsOf <- ApartCellsOf
  LangOf <- ApartLangOf
  NWorkers = 2
  NCpus = 2
  CanPin = TRUE
  MaxDeaths = 0
  MaxSigints = 2
CHECK_DEADLOCK FALSE
INVARIANTS
  ShownTableIsComplete
  SuccessLeavesNoFiles
  LeftoversAreExplained
  ActiveEntryIsCurrent
PROPERTIES
  LedgerSpec
  Termination
