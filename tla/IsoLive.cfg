SPECIFICATION FairSystem
CONSTANTS
  Slots <- MCOneSlot
  Unswitched = {}
  IsolationTimeout = 1
  MaxInitFailures = 1
  WatchdogClients = {}
  DutyCyclers = {}
  DownlinkTargets = {}
  OtherTicklers = {}
  MaxUpdates = 1
  MaxDutyTimers = 0
  MaxCommands = 0
  FixedAddress <- MCOneAddress
  TracksRising = FALSE
  Timely = TRUE
PROPERTIES EventuallyInitialized
