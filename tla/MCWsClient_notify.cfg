SPECIFICATION Spec
CONSTANTS
  r1 = r1
  r2 = r2
  r3 = r3
  u1 = u1
  Requests = {r1, r2}
  Urls = {u1}
  UrlOf <- MCPairUrlOf
  Timed = {r1}
  NoRequest = NoRequest
INVARIANTS
  ResponseNotifies
