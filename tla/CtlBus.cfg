SPECIFICATION Spec
CONSTANTS
  Slots <- MCStorageSlots
  Unswitched = {4}
  IsolationTimeout = 0
  MaxInitFailures = 0
  WatchdogClients = {}
  DutyCyclers = {5}
  DownlinkTargets = {5}
  OtherTicklers = {}
  MaxUpdates = 1
  MaxDutyTimers = 1
  MaxCommands = 1
INVARIANTS TypeOK CheckNotReentered OneModInLow BusRestored EnabledHasPower OffIsDeaf
