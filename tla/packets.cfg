SPECIFICATION Spec
CONSTANTS
  Sockets = {1, 2}
  Traffic <- AllTraffic
  Faults = {}
  MaxWrites = 2
INVARIANTS ReadsWhole WritesWhole
CHECK_DEADLOCK FALSE
