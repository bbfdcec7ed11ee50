SPECIFICATION SystemSpec
CONSTANTS
  Slots <- MCStorageSlots
  Unswitched = {4}
  IsolationTimeout = 1
  MaxInitFailures = 0
  WatchdogClients = {}
  DutyCyclers = {}
  DownlinkTargets <- MCSignpost
  OtherTicklers = {}
  MaxUpdates = 0
  MaxDutyTimers = 0
  MaxCommands = 0
  FixedAddress <- MCStorageAddress
  TracksRising = FALSE
  Timely = TRUE
INVARIANTS ModTypeOK RegistrySound InitializedIsRegistered AttemptIsIsolated
