SPECIFICATION Spec
CONSTANTS
  Clients = {c1}
  CleanClients = {c1}
  Requests = {"SUBSCRIBE", "PUBLISH0", "DISCONNECT"}
  MQTTVersion = 4
  DisconnectDelay = TRUE
  EagerConnect = TRUE
  ConnectOutcomes <- AllConnects
  WriteOutcomes <- AllWrites
  Events <- AllEvents
  MaxMsgId = 9
  MaxSockets = 2
  MaxCalls = 4
  MaxQueue = 4
INVARIANTS TypeOK SocketsOwned RequestOnce
CHECK_DEADLOCK FALSE
