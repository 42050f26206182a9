SPECIFICATION Spec
CONSTANTS
  MaxMsgId = 5
  Plans <- OutPlans
  Faults = {"ids"}
  MaxCrashes = 1
  MaxDrops = 0
  MaxRefusals = 0
  MaxRetries = 0
INVARIANTS FreshId
CHECK_DEADLOCK FALSE
