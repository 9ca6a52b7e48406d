SPECIFICATION FairSpec
CONSTANTS
  k1 = k1  s1 = s1  r1 = r1  r2 = r2  w1 = w1  w2 = w2
  None = None
  DefaultMaxRead = 10
  Batch = 1
  Keys = {k1}
  Sockets = {s1}
  Uuids = {r1, r2, w1, w2}
  ManyIds = {}
  Req <- RWReq
  ManyReq <- NoMany
  MaxToken = 1
  MaxCompositeKeys = 1
  Key = k1
  Writers = {w1, w2}
  Mortal = {r2}
  Rounds <- OnceOrTwice
INVARIANTS CountCovers FlagOwned
PROPERTY ListedReadersProceed
CHECK_DEADLOCK FALSE
