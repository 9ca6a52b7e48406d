SPECIFICATION Spec
CONSTANTS
  k1 = k1  s1 = s1  s2 = s2  a = a  b = b  c = c
  None = None
  DefaultMaxRead = 2
  Batch = 1
  MaxToken = 1
  MaxCompositeKeys = 0
  MaxTimers <- ARetries
  Keys = {k1}
  Sockets = {s1, s2}
  Uuids = {a, b, c}
  ManyIds = {}
  Req <- LegacyReq
  ManyReq <- NoMany
INVARIANT HoldsTimed
PROPERTY TurnsStrandNobody
CHECK_DEADLOCK FALSE
