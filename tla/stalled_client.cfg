SPECIFICATION SendSpec
CONSTANTS
  Clients = {c1, c2}
  CleanClients = {}
  Requests = {"PUBLISH", "DISCONNECT"}
  MQTTVersion = 4
  DisconnectDelay = FALSE
  EagerConnect = FALSE
  ConnectOutcomes = {"pending"}
  WriteOutcomes = {"complete", "interrupted"}
  Events = {}
  MaxMsgId = 2
  MaxSockets = 2
  MaxCalls = 5
  MaxQueue = 4
PROPERTIES QueueProgress
