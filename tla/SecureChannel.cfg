SPECIFICATION ChannelSpec
CONSTANTS
  a = a
  b = b
  c = c
  s0 = s0
  s1 = s1
  Peers <- MCPeers
  None = None
  Users <- MCPeers
  ProcessOf <- MCProcessOf
  Infos <- MCInfos
  EmptyInfo = ""
  Truncated <- MCTruncated
  AHash <- MCAHash
  TagSize = 2
  PayloadLimit = 1
  Sizes = {1}
  SeqNums = {s0, s1}
  MaxPackets = 1
  MaxInserted = 2
  Absent = Absent
VIEW MCView
SYMMETRY MCSymmetry
INVARIANTS
  SecretsMatch
  KeySpentOnSecret
  SessionsOwn
  OpensExactlyPartners
