SPECIFICATION FairLossySpec
CONSTANTS
  k1 = k1  k2 = k2  s1 = s1  s2 = s2  a = a  b = b  c = c  m1 = m1  m2 = m2
  None = None
  DefaultMaxRead = 2
  Batch = 1
  Floor = 0
  Keys = {k1, k2}
  Sockets = {s1}
  Uuids = {a}
  ManyIds = {m1}
  Req <- CompositeReq
  ManyReq <- OneMany
  MaxToken = 4
  MaxCompositeKeys = 2
  Clock <- ClockAtZero
  Durable = FALSE
  DiskFaults = FALSE
VIEW CalmView
PROPERTIES HandlersReturn TtlProgress WaiterMoves
CHECK_DEADLOCK FALSE
