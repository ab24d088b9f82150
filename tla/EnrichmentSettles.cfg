SPECIFICATION Spec
CONSTANTS
  MaxAttempts = 1
  Posts = {p1}
  Slots = {summary, wiki}
  Summary = summary
  Wiki = wiki
  MaxRetry = 1
  Faults = {"enqueue", "crash", "redeliver", "database", "read"}
  Cancels = TRUE
PROPERTIES
  EventuallySettled
CHECK_DEADLOCK FALSE
