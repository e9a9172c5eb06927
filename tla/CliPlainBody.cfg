SPECIFICATION MCSpec
CONSTANTS
  s1 = s1
  s2 = s2
  s3 = s3
  Sockets <- MCSockets
  LabelOf <- MCLabelOf
  RawRequests <- MCRawRequests
  PruneLimit = 1
  None = None
  Workers <- MCWorkers
  SocketOf <- MCSocketOf
  Requests <- MCRequests
  Watched = {"control"}
INVARIANT
  PlainBodyUnderstood
