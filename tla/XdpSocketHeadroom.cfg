SPECIFICATION Spec
CONSTANTS
  NumFrames = 2
  InitHeadroom = 0
  FreeCap <- MCFreeCap
  UsizeSpace = 4
  short = short
  long = long
  Packets = {short}
  LengthOf <- MCLengthOf
  FrameSize = 2
  NoPacket = NoPacket
  MaxBatch = 2
  TxCap = 1
  CompCap = 2
  MaxReclaim = 2
  MaxRetries = 1
  Headrooms = {3}
INVARIANT
  FreeListBounded
