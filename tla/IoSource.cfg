SPECIFICATION Spec
CONSTANTS
  Senders <- MCSenders
  FragmentUnits = 2
  Lengths <- MCTwoPackets
  BufferUnits = 4
  MaxSends = 1
  MaxMessages = 2
INVARIANTS FromItsSource
