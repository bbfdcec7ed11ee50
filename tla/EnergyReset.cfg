SPECIFICATION Spec
CONSTANTS
  ModuleOrder <- MCModuleOrder
  ControllerShare = 2
  ModuleShare = 1
  Whole = 4
  MaxController = 4
  MaxModule = 3
  DebugStart = 5
  Gauge = {14}
  Amounts = {5}
  Consumers = {"m0"}
  Clients = {"m0"}
  MaxUpdates = 1
  MaxReports = 0
  MaxRestarts = 0
INVARIANTS UsedSinceReset
CHECK_DEADLOCK FALSE
