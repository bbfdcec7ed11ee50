SPECIFICATION Spec
CONSTANTS
  Senders <- MCSenders
  FragmentUnits = 2
  Lengths <- MCOnePacket
  BufferUnits = 2
  MaxSends = 1
  MaxMessages = 2
INVARIANTS IoTypeOK
PROPERTIES ImplementsBestEffort
