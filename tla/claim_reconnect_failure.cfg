SPECIFICATION Spec
CONSTANTS
  MaxHandles = 2
  MaxCalls = 4
  FailureHandler = FALSE
INVARIANTS ReconnectsAfterFailure
CHECK_DEADLOCK FALSE
