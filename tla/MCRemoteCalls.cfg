SPECIFICATION FairSpec
CONSTANTS
  w1 = w1
  w2 = w2
  r1 = r1
  r2 = r2
  i1 = i1
  Writes = {w1, w2}
  Reads = {r1, r2}
  Invocations = {i1}
  Unawaited = {w2}
  MayExpire = TRUE
  Scenarios <- MCScenarios
  StopMayTimeOut = TRUE
  Signed = {r1, r2, i1}
  Renewing = {r1}
  Timed = {w1, w2, r1}
  Nobody = Nobody
INVARIANTS
  TypeOK
  InUseIsOpen
  LoopServesClient
  AnswersCanArrive
  OthersDoNotDisturb
PROPERTIES
  KeepsPromise
  CallsEnd
