SPECIFICATION LiveSpec
CONSTANTS
  Clients = {c1}
  CleanClients = {}
  Requests = {"SUBSCRIBE", "PUBLISH", "DISCONNECT"}
  MQTTVersion = 4
  DisconnectDelay = FALSE
  EagerConnect = FALSE
  ConnectOutcomes = {"pending"}
  WriteOutcomes <- AllWrites
  Events <- AllEvents
  MaxMsgId = 3
  MaxSockets = 1
  MaxCalls = 4
  MaxQueue = 4
INVARIANTS NothingForgotten
PROPERTIES InOrder WritesSeparate RequestAnswered
