SPECIFICATION Spec
CONSTANTS
  Sockets = {1}
  Traffic <- WriteTraffic
  Faults = {"pendingClose"}
  MaxWrites = 2
INVARIANTS CleanedUp
CHECK_DEADLOCK FALSE
