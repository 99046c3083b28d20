SPECIFICATION Spec
CONSTANTS
  web1 = web1
  web2 = web2
  broker = broker
  t1 = t1
  t2 = t2
  Servers = {web1, broker}
  Protocols = {"http", "mqtt"}
  ProtocolOf <- MCProtocolOf
  PortServers = {}
  RestartWhileUp = FALSE
  Things = {t1, t2}
  Names = {"Lamp", "Door", "lamp", "door"}
  TitleOf <- MCTitleOf
  UrlNameOf <- MCUrlNameOf
  UsedNames = {"Lamp", "Door", "lamp", "door"}
  LateServers = FALSE
INVARIANTS
  RemovedNotServed
