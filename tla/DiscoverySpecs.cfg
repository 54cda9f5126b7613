SPECIFICATION Spec
CONSTANTS
  Lang <- MCLang
  Base <- MCBase
  Version <- MCVersion
  ExesOf <- MCExesOf
  Versioned <- MCVersioned
  Request <- MCRequest
  MaxSpecs = 3
CHECK_DEADLOCK FALSE
INVARIANTS
  OneSpecIsExact
  NoSilentOmission
