SPECIFICATION Spec
CONSTANTS
  k1 = k1  k2 = k2  s1 = s1  s2 = s2  a = a  b = b  c = c  m1 = m1  m2 = m2
  None = None
  DefaultMaxRead = 2
  Batch = 1
  Floor = 0
  Keys = {k1}
  Sockets = {s1, s2}
  Uuids = {a}
  ManyIds = {m1}
  Req <- MutexReq
  ManyReq <- OneKeyMany
  MaxToken = 3
  MaxCompositeKeys = 1
  Clock <- ClockRollsBack
  Durable = TRUE
  DiskFaults = TRUE
INVARIANT FenceInv
PROPERTIES FencingMonotone ImplementsFencedLock
