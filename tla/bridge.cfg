SPECIFICATION BridgeSpec
CONSTANTS
  k1 = k1  k2 = k2  v = v  s1 = s1  a = a  m1 = m1
  None = None
  DefaultMaxRead = 2
  Batch = 1
  Floor = 0
  Keys = {k1, k2}
  Sockets = {v, s1}
  Virtual = v
  Uuids = {a}
  ManyIds = {m1}
  Req <- HttpReq
  ManyReq <- HttpMany
  MaxToken = 5
  MaxCompositeKeys = 2
  Clock <- ClockAtZero
  Durable = FALSE
  DiskFaults = FALSE
INVARIANTS ExclusiveCallers StopReleases
PROPERTIES StopReturns 
CHECK_DEADLOCK FALSE
