SPECIFICATION Spec
CONSTANTS
  MaxAttempts = 1
  Posts = {p1}
  Slots = {summary, wiki}
  Summary = summary
  Wiki = wiki
  MaxRetry = 0
  Faults = {}
  Cancels = TRUE
PROPERTIES
  NoPromotionAfterCancel
CHECK_DEADLOCK FALSE
