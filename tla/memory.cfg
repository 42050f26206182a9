SPECIFICATION Spec
CONSTANTS
  MaxAddress = 8
  Sizes = {8, 40}
  Setups <- AllSetups
INVARIANTS TreeSound Accounted WellLinked
PROPERTIES KeepsOrder
CHECK_DEADLOCK FALSE
