SPECIFICATION FairSpec
CONSTANTS
  Creator = {r1}
  Native = {n1, n2}
  None = None
  MaxCalls = 2
  MaxFaults = 2
  MaxForks = 1
INVARIANTS DispatcherRuns
PROPERTIES EveryCallbackReturns StopEndsDispatcher
CHECK_DEADLOCK FALSE
