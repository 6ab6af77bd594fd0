SPECIFICATION Spec
CONSTANTS
  Creator = {r1, r2}
  Native = {n1}
  None = None
  MaxCalls = 1
  MaxFaults = 0
  MaxForks = 1
INVARIANTS DispatcherRuns
CHECK_DEADLOCK FALSE
