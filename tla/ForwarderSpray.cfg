SPECIFICATION Spec
CONSTANTS
  HeaderSize = 2
  TagSize = 1
  FrameSet <- MCFrameSet
  SealLimit = 1
  MaxPoll = 2
  ParallelThreshold = 3
  MaxChannels = 4
  Multiplier = 3
  InitCap = 8
  SlotSize = 3
  NextPowerOfTwo <- MCNextPowerOfTwo
INVARIANT
  WithinCapacity
