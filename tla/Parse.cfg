SPECIFICATION Spec
CONSTANTS
  Setups <- MCSetups
  MaxAttempts = 1
  Images = {i1, i2}
  MaxRetry = 1
  MaxFaults = 1
INVARIANTS
  ParseTypeOK
  FinishedIsIndexed
  GoneLeavesNothing
PROPERTIES
  HandsOverOnceAtTheEnd
  ComesToRest
CHECK_DEADLOCK FALSE
