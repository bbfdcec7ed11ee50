SPECIFICATION FairSpec
CONSTANTS
  ModuleOrder <- MCModuleOrder
  ControllerShare = 2
  ModuleShare = 1
  Whole = 4
  MaxController = 4
  MaxModule = 3
  DebugStart = 5
  Gauge = {3, 14}
  Amounts = {5}
  Consumers = {"m0"}
  Clients = {"m1"}
  MaxUpdates = 2
  MaxReports = 1
  MaxRestarts = 1
INVARIANTS EnergyTypeOK NotOverdrawn
PROPERTIES OverdraftNeverGrows SpillConserves SurplusIsCapped UpdateEnds
CHECK_DEADLOCK FALSE
