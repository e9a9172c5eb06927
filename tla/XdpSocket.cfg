SPECIFICATION FairSpec
CONSTANTS
  NumFrames = 3
  InitHeadroom = 3
  FreeCap <- MCFreeCap
  UsizeSpace = 16
  short = short
  long = long
  Packets <- MCPackets
  LengthOf <- MCLengthOf
  FrameSize = 2
  NoPacket = NoPacket
  MaxBatch = 2
  TxCap = 2
  CompCap = 2
  MaxReclaim = 2
  MaxRetries = 1
  Headrooms = {5, 6, 9}
VIEW MCView
INVARIANTS
  TypeOK
  OwnedOnce
  NoLeak
  PayloadIntact
PROPERTIES
  SendReturns
  SendBounded
