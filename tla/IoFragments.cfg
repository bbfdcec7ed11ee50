SPECIFICATION FairSpec
CONSTANTS
  Senders <- MCSenders
  FragmentUnits = 2
  Lengths <- MCTwoPackets
  BufferUnits = 4
  MaxSends = 5
  MaxMessages = 1
INVARIANTS IdleReceives
PROPERTIES ReceivesAgain
