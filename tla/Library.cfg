SPECIFICATION LibrarySpec
CONSTANTS
  MaxTotal = 9
  MaxBuf = 9
  MaxFlow = 19
  HashSpace = 64
  MaxHops = 9
  BitAnd <- MCAnd
  Values <- MCValues
  LittleEndianHost = TRUE
  BufLens = {0, 95, 96, 97}
  Ids <- MCIds
  Labels = {0, 1}
  Hops = {h1, h2}
  SeedHop = h0
  XorWords <- MCXor
  MaxUpdates = 2
  MaxCore = 3
  Chunks <- MCChunks
  NotANumber = NotANumber
  MaxChunks = 3
  MaxWorkers = 7
  Available <- MCAvailable
  MaxTime = 4
  WindowCap = 3
  MaxSeq = 5
  HandshakeTimeout = 1
  RetryLimit = 1
  Threads = {a, b, c}
  RateLimitNs = 2
  SeqSpace = 4
  Descs = {x, y}
  Capacity = 4
  IndexSpace = 8
  MaxBatch = 3
  Blank = Blank
  SlotIndex <- MCSlotIndex
VIEW MCView
SYMMETRY MCSymmetry
INVARIANTS
  SprayCoversOnce
  LookupsAgree
  PredictiveEven
  WireRoundTrip
  PlanBalanced
  BurstBounded
  RingTypeOK
  WritesOnlyFree
PROPERTIES
  ImplementsWindow
  NeverReissued
  DeadStaysDead
  ImplementsFifo
