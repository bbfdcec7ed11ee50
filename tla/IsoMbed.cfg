SPECIFICATION SystemSpec
CONSTANTS
  Slots <- MCSlots
  Unswitched = {}
  IsolationTimeout = 0
  MaxInitFailures = 0
  WatchdogClients = {}
  DutyCyclers = {1}
  DownlinkTargets = {}
  OtherTicklers = {}
  MaxUpdates = 0
  MaxDutyTimers = 1
  MaxCommands = 1
  FixedAddress <- MCNoFixedAddress
  TracksRising = TRUE
  Timely = TRUE
INVARIANTS NoStolenAddress FlagFollowsPin
