SPECIFICATION FairSpec
CONSTANTS
  Publishers = {"app"}
  Status = "status"
  LengthOf <- MCLengthOf
  QUEUE_SIZE = 4
  Long = 1
  CELL_POST_SIZE = 5
  NUMBER_OF_MODULES = 2
  CountWrap = 2
  ReportEvery = 2
  CounterWrap = 4
  SoftAt = 1
  HardAt = 2
  WatchdogTicks = 2
  ReportTicks = 1
INVARIANTS RadioTypeOK XdotForOne FlagIsSending
PROPERTIES QueueIsFifo HangIsBroken
