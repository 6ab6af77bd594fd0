SPECIFICATION Spec
CONSTANTS
  Creator = {r1, r2}
  Native = {n1, n2}
  None = None
  MaxCalls = 2
  MaxFaults = 1
  MaxForks = 1
SYMMETRY ThreadSymmetry
INVARIANTS TypeOK NoDanglingCallback NeitherLostNorCopied NoLostWakeup
PROPERTIES ServiceSpec
CHECK_DEADLOCK FALSE
