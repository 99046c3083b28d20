SPECIFICATION Spec
CONSTANTS
  web1 = web1
  web2 = web2
  broker = broker
  t1 = t1
  t2 = t2
  Servers = {web1, web2, broker}
  Protocols = {"http", "mqtt"}
  ProtocolOf <- MCProtocolOf
  PortServers = {web1, web2}
  RestartWhileUp = FALSE
  Things = {t1, t2}
  Names = {"Lamp", "Door", "lamp", "door"}
  TitleOf <- MCCaseTitleOf
  UrlNameOf <- MCCaseUrlNameOf
  UsedNames = {"Lamp", "lamp"}
  LateServers = TRUE
SYMMETRY Symmetry
INVARIANTS
  TypeOK
  FormsMatchServers
  RunningMeansStarted
  ShutdownSilences
