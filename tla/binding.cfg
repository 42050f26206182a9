SPECIFICATION Spec
CONSTANTS
  MaxHandles = 3
  MaxCalls = 6
  FailureHandler = TRUE
INVARIANTS TypeOK NoDangling ConnectedReal Reachable
CHECK_DEADLOCK FALSE
