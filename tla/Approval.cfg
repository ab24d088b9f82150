SPECIFICATION Spec
CONSTANTS
  Calls = {c1, c2}
  HasRedis = TRUE
  Faults = {"refuse", "drop", "late"}
INVARIANTS
  TypeOK
  AnswerIsTrue
  OnlyOwnerDecides
PROPERTIES
  ImplementsDecision
  WaitEnds
  CallsEnd
CHECK_DEADLOCK FALSE
