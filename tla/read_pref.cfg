SPECIFICATION Spec
CONSTANTS
  rk = rk  wk = wk  s1 = s1  r1 = r1  r2 = r2  w1 = w1  e1 = e1  e2 = e2  h1 = h1  h2 = h2
  None = None
  DefaultMaxRead = 10
  Batch = 1
  Keys = {rk, wk}
  Sockets = {s1}
  Uuids = {r1, r2, w1, e1, e2, h1, h2}
  ManyIds = {}
  Req <- ReadPrefReq
  ManyReq <- NoMany
  MaxToken = 1
  MaxCompositeKeys = 1
  ReadKey = rk
  WriteKey = wk
  Readers = {r1, r2}
  Writers = {w1}
  EndCall <- Ends
  WriteCall <- Holds
INVARIANT WritersWaitForReaders
CHECK_DEADLOCK FALSE
