SPECIFICATION FairSpec
CONSTANTS
  r1 = r1
  r2 = r2
  r3 = r3
  u1 = u1
  Requests = {r1, r2, r3}
  Urls = {u1}
  UrlOf <- MCSameUrlOf
  Timed = {r1, r2}
  NoRequest = NoRequest
INVARIANTS
  TypeOK
  RefsProtectConn
  OneReceiver
  NotifiedHasResponse
  NothingLeft
PROPERTIES
  PoolSpec
  TimedRequestsEnd
CHECK_DEADLOCK FALSE
