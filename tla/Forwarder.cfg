SPECIFICATION Spec
CONSTANTS
  HeaderSize = 2
  TagSize = 1
  FrameSet <- MCFrameSet
  SealLimit = 1
  MaxPoll = 3
  ParallelThreshold = 3
  MaxChannels = 2
  Multiplier = 2
  InitCap = 8
  SlotSize = 3
  NextPowerOfTwo <- MCNextPowerOfTwo
VIEW MCView
INVARIANTS
  WithinCapacity
  OffsetsTile
  Accounted
  FramesInOrder
  EncryptedWhole
