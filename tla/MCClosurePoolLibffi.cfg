SPECIFICATION Spec
CONSTANTS
  Block = {b1, b2, b3}
  PerPage = 2
  UseFFIAlloc = TRUE
  Nothing = Nothing
  Raised = Raised
INVARIANTS BlocksTrackAllMemory
CHECK_DEADLOCK FALSE
