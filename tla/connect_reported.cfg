SPECIFICATION LiveSpec
CONSTANTS
  Clients = {c1}
  CleanClients = {c1}
  Requests = {"SUBSCRIBE"}
  MQTTVersion = 0
  DisconnectDelay = FALSE
  EagerConnect = FALSE
  ConnectOutcomes = {"pending", "failed", "unresolved"}
  WriteOutcomes <- AllWrites
  Events = {"tcpFail", "refuse"}
  MaxMsgId = 9
  MaxSockets = 2
  MaxCalls = 4
  MaxQueue = 4
PROPERTIES ConnectEnds
