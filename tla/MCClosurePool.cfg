SPECIFICATION Spec
CONSTANTS
  Block = {b1, b2, b3}
  PerPage = 2
  UseFFIAlloc = FALSE
  Nothing = Nothing
  Raised = Raised
SYMMETRY PageSymmetry
INVARIANTS TypeOK HandlesBacked FreeListExclusive NoClosureLost FreedWithLastReference BlocksTrackAllMemory
PROPERTIES StoreSpec
CHECK_DEADLOCK FALSE
