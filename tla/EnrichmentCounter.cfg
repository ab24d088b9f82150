SPECIFICATION Spec
CONSTANTS
  MaxAttempts = 1
  Posts = {p1, p2}
  Slots = {summary, graph, wiki}
  Summary = summary
  Wiki = wiki
  MaxRetry = 1
  Faults = {"enqueue", "crash", "database", "probe"}
  Cancels = FALSE
SYMMETRY Symmetry
CONSTRAINTS Seen Retries
INVARIANTS
  TypeOK
  CounterIsOpenSlots
  CompletedMeansDrained
PROPERTIES
  SettledIsFinal
CHECK_DEADLOCK FALSE
