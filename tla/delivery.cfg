SPECIFICATION LiveSpec
CONSTANTS
  MaxMsgId = 5
  Plans <- AllPlans
  Faults = {}
  MaxCrashes = 1
  MaxDrops = 1
  MaxRefusals = 2
  MaxRetries = 1
INVARIANTS TypeOK StoreAgrees InOrder CompleteIsDelivered
PROPERTIES KeepsOutgoing KeepsIncoming Settles Arrives
CHECK_DEADLOCK FALSE
