SPECIFICATION FairSpec
CONSTANTS
  o1 = o1
  o2 = o2
  Observers = {o1, o2}
  MaxVersion = 2
  MaxPolls = 3
  BufferSize = 1
  MaxStarts = 2
  MayDrop = TRUE
  Scenarios <- MCScenarios
INVARIANTS
  TypeOK
  NoSubscriptionLeft
  WsSkipsNothing
  PollGetsNext
  LastIsOnItsWay
  UpdateBeforeAck
PROPERTIES
  ObservesStream
  EmittedIsSeen
  SubscriptionsFollow
