SPECIFICATION Spec
CONSTANTS
  Clients = {c1}
  CleanClients = {c1}
  Requests = {"SUBSCRIBE", "UNSUBSCRIBE", "PUBLISH", "DISCONNECT"}
  MQTTVersion = 0
  DisconnectDelay = FALSE
  EagerConnect = FALSE
  ConnectOutcomes = {"pending", "unresolved"}
  WriteOutcomes <- AllWrites
  Events <- AllEvents
  MaxMsgId = 3
  MaxSockets = 2
  MaxCalls = 4
  MaxQueue = 4
INVARIANTS ViewUp ViewDown SessionCleared AnswersComing AnswersExpected
PROPERTIES KeepsPromise ConnectKept
