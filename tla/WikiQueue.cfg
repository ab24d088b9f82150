SPECIFICATION Spec
CONSTANTS
  Setups <- MCSetups
  Docs = {d1, d2}
  Workers = {w1, w2}
  BatchSize = 2
  MaxFails = 1
  MaxRetry = 1
INVARIANTS
  WikiTypeOK
  OneBatch
  NoGhost
  CompletedIsWritten
PROPERTIES
  Drains
CHECK_DEADLOCK FALSE
