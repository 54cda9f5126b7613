SPECIFICATION Spec
CONSTANTS
  Lang <- MCLang
  Base <- MCBase
  Version <- MCVersion
  ExesOf <- MCExesOf
  Versioned <- MCVersioned
  Request <- MCRequest
  MaxSpecs = 2
CHECK_DEADLOCK FALSE
INVARIANT EveryRequestMeasured
