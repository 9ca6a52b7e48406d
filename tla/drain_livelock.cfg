SPECIFICATION FairSteadySpec
CONSTANTS
  k1 = k1  k2 = k2  s1 = s1  s2 = s2  a = a  b = b  c = c  m1 = m1  m2 = m2
  None = None
  DefaultMaxRead = 3
  Batch = 1
  Floor = 0
  Keys = {k1}
  Sockets = {s1}
  Uuids = {a, b}
  ManyIds = {m1}
  Req <- ReaderReq
  ManyReq <- OneKeyMany
  MaxToken = 4
  MaxCompositeKeys = 1
  Clock <- ClockAtZero
  Durable = FALSE
  DiskFaults = FALSE
PROPERTY HandlersReturn
