SPECIFICATION Spec
CONSTANTS
  NumFrames = 3
  InitHeadroom = 1
  FreeCap <- MCFreeCap
  UsizeSpace = 16
  short = short
  long = long
  Packets = {short}
  LengthOf <- MCLengthOf
  FrameSize = 2
  NoPacket = NoPacket
  MaxBatch = 2
  TxCap = 2
  CompCap = 2
  MaxReclaim = 2
  MaxRetries = 1
  Headrooms = {1}
INVARIANT
  FreeFramesIdle
