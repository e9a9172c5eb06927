SPECIFICATION Spec
CONSTANTS
  Tables = {t1}
  Threads = {a, b}
  d0 = d0
  d1 = d1
  h0 = h0
  h1 = h1
  s0 = s0
  Dests <- MCDests
  Hops <- MCHops
  Flows <- MCFlows
  Routes <- MCRoutes
  Slots <- MCSlots
  SimpleSlot <- MCSimpleSlot
  SpraySlot <- MCSpraySlot
  ZeroDest = d0
  ZeroHop = h0
  NoRoute = NoRoute
  NoHop = NoHop
  NoCall = NoCall
  MaxEpoch = 3
VIEW MCView
SYMMETRY MCSymmetry
INVARIANTS
  TypeOK
  FreshCacheAgrees
  LookupRegular
  AgreeUnlessRaced
