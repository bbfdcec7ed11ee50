SPECIFICATION FairSpec
CONSTANTS
  Slots <- MCStorageSlots
  Unswitched = {4}
  IsolationTimeout = 0
  MaxInitFailures = 1
  WatchdogClients = {5}
  DutyCyclers = {}
  DownlinkTargets <- MCSignpost
  OtherTicklers = {"WATCH_APP_TICKLE"}
  MaxUpdates = 0
  MaxDutyTimers = 0
  MaxCommands = 0
PROPERTIES IsolationEnds KernelKeepsBeingTickled
