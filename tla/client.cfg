SPECIFICATION TurnSpec
CONSTANTS
  k1 = k1  s1 = s1  s2 = s2  s3 = s3  a = a  b = b  c1 = c1  c2 = c2
  None = None
  DefaultMaxRead = 2
  Batch = 1
  Floor = 0
  Keys = {k1}
  Sockets = {s1, s2, s3}
  Uuids = {a, b}
  ManyIds = {}
  Req <- TwoAsk
  ManyReq <- NoMany
  MaxToken = 2
  MaxCompositeKeys = 1
  Clock <- ClockAtZero
  Durable = FALSE
  DiskFaults = FALSE
  Clients = {c1, c2}
  Owner <- TwoOwners
  Dial <- TwoDials
  MaxRetries <- ARetries
  TryOnly = {b}
VIEW LiveView
INVARIANTS AnsweredOnce ExclusiveUsers
PROPERTY UnlockIsTrue
CHECK_DEADLOCK FALSE
