SPECIFICATION FairSpec
CONSTANTS
  Calls <- MCAllCalls
  MaxNesting = 2
  MaxIssued = 3
INVARIANTS ApiTypeOK ActiveHasOwner WokenByAnswer
PROPERTIES TimedCallsReturn
CHECK_DEADLOCK FALSE
